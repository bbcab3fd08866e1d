------------------------------- MODULE NatApp -------------------------------
(***************************************************************************)
(* Offloaded NAT connections in ipacm:                                     *)
(* data-ipa-cfg-mgr/ipacm/src/IPACM_Conntrack_NATApp.cpp, called from      *)
(* IPACM_ConntrackListener.cpp and IPACM_Wlan.cpp.                         *)
(*                                                                         *)
(* NatApp caches the connections conntrack reports and keeps the rules of  *)
(* those that may be offloaded in the NAT table of the hardware, which     *)
(* exists while the WAN is up.  Every event is handled to its end by one   *)
(* thread, so a step is the handling of one event.  Loops over the cache   *)
(* touch each entry once and are written over sets; which of several adds  *)
(* fails is a choice.                                                      *)
(*                                                                         *)
(* The WAN is not a Wi-Fi station (isStaMode is false), there is no        *)
(* passthrough mode, ports and ALG connections are left out and the lists  *)
(* of addresses do not fill up.                                            *)
(***************************************************************************)
EXTENDS Naturals, FiniteSets, Functions

CONSTANTS
  Clients,     \* private addresses of tethered clients
  NatClients,  \* those behind an interface of the IPA: CheckNatIface
  WanIps,      \* public addresses
  Conns,       \* connections: target and ports
  Private,     \* their private address; a public one for the device's own
  Handles,     \* rule handles of the NAT table
  MaxEntries,  \* max_entries
  MaxTemp,     \* MAX_TEMP_ENTRIES
  MaxCopies,   \* bound: how often the list of other clients holds an address
  None

ASSUME NatAppAssumption ==
  /\ NatClients \subseteq Clients /\ Clients \cap WanIps = {}
  /\ Private \in [Conns -> Clients \cup WanIps]
  /\ None \notin Clients \cup WanIps \cup Handles
  /\ MaxEntries \in Nat /\ MaxTemp \in Nat /\ MaxCopies \in Nat

VARIABLES
  alive,    \* connections conntrack has
  wanIp,    \* wan_ipaddr, None when WanUp is false
  pubIp,    \* pub_ip_addr, None when nat_table_hdl is 0
  prevIp,   \* pub_ip_addr_pre
  pwrSave,  \* PwrSaveIfs
  natIfs,   \* nat_iface_ipv4_addr
  nonNat,   \* nonnat_iface_ipv4_addr: how often it holds each address
  temp,     \* temp
  nat       \* cache: the entries of cache; count: curCnt; hw: the rules in
            \* the NAT table; lost: those whose deletion failed

vars == <<alive, wanIp, pubIp, prevIp, pwrSave, natIfs, nonNat, temp, nat>>
lists == <<pwrSave, natIfs, nonNat>>
wan == <<wanIp, pubIp, prevIp>>

\* What tells nat_table_entries apart, and an entry: hdl is None when it is
\* not enabled.
Rules == [priv : Clients \cup WanIps, conn : Conns]
Entries == [rule : Rules, hdl : Handles \cup {None}]

TypeOK ==
  /\ alive \subseteq Conns
  /\ wanIp \in WanIps \cup {None} /\ pubIp \in {None, wanIp}
  /\ prevIp \in WanIps \cup {None}
  /\ pwrSave \subseteq Clients /\ natIfs \subseteq NatClients
  /\ nonNat \in [Clients \ NatClients -> 0 .. MaxCopies]
  /\ temp \subseteq [rule : Rules, pub : WanIps] /\ Cardinality(temp) <= MaxTemp
  /\ nat.cache \subseteq Entries /\ Cardinality(nat.cache) <= MaxEntries
  /\ nat.count \in 0 .. MaxEntries
  /\ nat.hw \subseteq Entries /\ nat.lost \subseteq nat.hw

\* The constructor sets neither pub_ip_addr_pre nor PwrSaveIfs.
Init ==
  /\ alive = {} /\ wanIp = None /\ pubIp = None
  /\ prevIp \in WanIps \cup {None}
  /\ pwrSave \in SUBSET Clients
  /\ natIfs = {} /\ nonNat = [c \in Clients \ NatClients |-> 0]
  /\ temp = {}
  /\ nat = [cache |-> {}, count |-> 0, hw |-> {}, lost |-> {}]

-----------------------------------------------------------------------------
Enabled(n) == {e \in n.cache : e.hdl # None}
RulesOf(entries) == {e.rule : e \in entries}
Disabled(entries) == {[e EXCEPT !.hdl = None] : e \in entries}
FreeHandles(n) == Handles \ {e.hdl : e \in n.hw}

\* ipa_nat_add_ipv4_rule for the rules of a set, each of which may fail:
\* the entries that result, with their handles.  There is no table to add to
\* when ip is None.
Added(n, rules, ip) ==
  LET Some(part) == {{[rule |-> r, hdl |-> h[r]] : r \in part} :
                        h \in Injection(part, FreeHandles(n))}
  IN  IF ip = None THEN {{}} ELSE UNION {Some(part) : part \in SUBSET rules}

\* AddTable, ResetPwrSaveIf: disabled entries are added again; those that
\* cannot be are removed from the cache.
CountsNone(n, old, new) == n.count
CountsLost(n, old, new) == n.count - Cardinality(old) + Cardinality(new)
Readded(n, old, ip) ==
  {[n EXCEPT !.cache = (@ \ old) \cup new, !.hw = @ \cup new,
             !.count = CountsLost(n, old, new)] :
     new \in Added(n, RulesOf(old), ip)}

\* ChkForDup and the search for a free entry
Room(n, r) == r \notin RulesOf(n.cache) /\ Cardinality(n.cache) < MaxEntries

Cached(n, r) ==
  [n EXCEPT !.cache = @ \cup {[rule |-> r, hdl |-> None]}, !.count = @ + 1]

\* AddEntry for one rule: what it leaves.
NeverCached(r, ps) == FALSE
InPowerSave(r, ps) == r.priv \in ps
AddEntry(n, r) ==
  IF pubIp = None \/ ~ Room(n, r) THEN {n}
  ELSE IF InPowerSave(r, pwrSave) THEN {Cached(n, r)}
  ELSE {[n EXCEPT !.cache = @ \cup new, !.hw = @ \cup new,
                  !.count = @ + Cardinality(new)] : new \in Added(n, {r}, pubIp)}

\* DelEntriesOnClntDiscon, UpdatePwrSaveIf: the rules of a client are taken
\* out of the table and stay cached; an entry whose deletion fails is left.
OutOfTable(n, out) == (n.cache \ out) \cup Disabled(out)
Uninstalled(n, c) ==
  {[n EXCEPT !.cache = OutOfTable(n, out), !.hw = @ \ out] :
     out \in SUBSET {e \in Enabled(n) : e.rule.priv = c}}

-----------------------------------------------------------------------------
\* TriggerWANUp for another address than the current one: the old table is
\* deleted, then AddTable.
KeepsHandles(n) == [n EXCEPT !.hw = {}, !.lost = {}]
NoTable(n) == [n EXCEPT !.cache = Disabled(@), !.hw = {}, !.lost = {}]
LastIp == IF pubIp # None THEN pubIp ELSE prevIp

WanUp(ip) ==
  /\ wanIp # ip
  /\ wanIp' = ip /\ pubIp' = ip /\ prevIp' = LastIp
  /\ IF ip = LastIp
     THEN nat' \in Readded(NoTable(nat), NoTable(nat).cache, ip)
     ELSE nat' = NoTable(nat)
  /\ UNCHANGED <<alive, temp, lists>>

\* AddTable fails and TriggerWANUp goes on.
WanUpFails(ip) ==
  /\ wanIp # ip
  /\ wanIp' = ip /\ pubIp' = None /\ prevIp' = LastIp
  /\ nat' = NoTable(nat)
  /\ UNCHANGED <<alive, temp, lists>>

\* TriggerWANDown; DeleteTable refuses when there is no table, and the WAN
\* is up for the listener ever after.
WanDown ==
  /\ pubIp # None
  /\ wanIp' = None /\ pubIp' = None /\ prevIp' = pubIp
  /\ nat' = NoTable(nat)
  /\ UNCHANGED <<alive, temp, lists>>

-----------------------------------------------------------------------------
\* ProcessTCPorUDPMsg and AddIface: how a connection is seen now.
Ours(k) == Private[k] \notin Clients
IsOther(k) == Private[k] \in Clients \ NatClients /\ nonNat[Private[k]] > 0
Known(k) == Ours(k) \/ Private[k] \in natIfs \/ IsOther(k)
Rule(k) == [priv |-> IF IsOther(k) THEN wanIp ELSE Private[k], conn |-> k]
Ignored(k) == (Ours(k) /\ Private[k] # wanIp) \/ Rule(k).priv = None

\* AddTempEntry
AddTemp(r) ==
  IF r \in RulesOf(nat.cache) \cup RulesOf(temp) \/ Cardinality(temp) >= MaxTemp
  THEN temp ELSE temp \cup {[rule |-> r, pub |-> wanIp]}

\* A connection is established, or reported so again.
Open(k) ==
  /\ alive' = alive \cup {k}
  /\ IF Ignored(k) THEN UNCHANGED <<nat, temp>>
     ELSE IF wanIp = None
     THEN nat' = (IF Room(nat, Rule(k)) THEN Cached(nat, Rule(k)) ELSE nat)
          /\ UNCHANGED temp
     ELSE IF Known(k) THEN nat' \in AddEntry(nat, Rule(k)) /\ UNCHANGED temp
     ELSE temp' = AddTemp(Rule(k)) /\ UNCHANGED nat
  /\ UNCHANGED <<wan, lists>>

\* DeleteEntry removes the entry even if its rule cannot be deleted.
DeleteEntry(n, r) ==
  LET found == {e \in n.cache : e.rule = r}
      Out(e) == [n EXCEPT !.cache = @ \ {e}, !.count = @ - 1, !.hw = @ \ {e}]
      Failed(e) == [Out(e) EXCEPT !.hw = n.hw, !.lost = @ \cup {e}]
  IN  IF found = {} THEN {n}
      ELSE {Out(e) : e \in found} \cup {Failed(e) : e \in found \cap Enabled(n)}

\* A connection is closed: DeleteEntry and DeleteTempEntry.
KeepsTemp(r) == temp
WithoutTemp(r) == {t \in temp : t.rule # r}
Close(k) ==
  /\ k \in alive /\ alive' = alive \ {k}
  /\ IF Ignored(k) THEN UNCHANGED <<nat, temp>>
     ELSE nat' \in DeleteEntry(nat, Rule(k)) /\ temp' = WithoutTemp(Rule(k))
  /\ UNCHANGED <<wan, lists>>

-----------------------------------------------------------------------------
\* FlushTempEntries with isAdd, from cache n: the entries of c are added, with
\* isDummy under the public address; what is not added stays, so made.
TempOf(c) == {t \in temp : t.rule.priv = c}
DummyRule(t) == [t.rule EXCEPT !.priv = t.pub]
Flushed(t, isDummy) == IF isDummy THEN [t EXCEPT !.rule = DummyRule(t)] ELSE t

FlushAdd(n, c, isDummy) ==
  LET made == {Flushed(t, isDummy) : t \in {u \in TempOf(c) : u.pub = pubIp}}
      new == {r \in RulesOf(made) : r \notin RulesOf(n.cache)}
      outcomes == {add \in Added(n, new, pubIp) :
                     Cardinality(n.cache \cup add) <= MaxEntries}
  IN  \E add \in outcomes :
        /\ nat' = [n EXCEPT !.cache = @ \cup add, !.hw = @ \cup add,
                            !.count = @ + Cardinality(add)]
        /\ temp' = (temp \ TempOf(c)) \cup {t \in made : t.rule \notin RulesOf(add)}

\* HandleNeighIpAddrAddEvt: ResetPwrSaveIf, then FlushTempEntries, for an
\* address that is in the list already too.
ClientEntries(c) == {e \in nat.cache : e.rule.priv = c /\ e.hdl = None}
AddNatClient(c) ==
  /\ natIfs' = natIfs \cup {c} /\ pwrSave' = pwrSave \ {c}
  /\ \E n \in Readded(nat, ClientEntries(c), pubIp) : FlushAdd(n, c, FALSE)
  /\ UNCHANGED <<alive, wan, nonNat>>

\* HandleNeighIpAddrDelEvt
DelNatClient(c) ==
  /\ c \in natIfs
  /\ natIfs' = natIfs \ {c} /\ pwrSave' = pwrSave \ {c}
  /\ temp' = temp \ TempOf(c) /\ nat' \in Uninstalled(nat, c)
  /\ UNCHANGED <<alive, wan, nonNat>>

\* HandleNonNatIPAddr; an address that is added twice is in the list twice.
AddOtherClient(c) ==
  /\ nonNat[c] < MaxCopies
  /\ nonNat' = [nonNat EXCEPT ![c] = @ + 1]
  /\ FlushAdd(nat, c, TRUE)
  /\ UNCHANGED <<alive, wan, pwrSave, natIfs>>

DelOtherClient(c) ==
  /\ nonNat[c] > 0
  /\ nonNat' = [nonNat EXCEPT ![c] = @ - 1]
  /\ pwrSave' = pwrSave \ {c}
  /\ temp' = temp \ TempOf(c) /\ nat' \in Uninstalled(nat, c)
  /\ UNCHANGED <<alive, wan, natIfs>>

\* handle_wlan_client_pwrsave: UpdatePwrSaveIf
PowerSave(c) ==
  /\ c \in natIfs \ pwrSave
  /\ pwrSave' = pwrSave \cup {c}
  /\ nat' \in Uninstalled(nat, c)
  /\ UNCHANGED <<alive, wan, natIfs, nonNat, temp>>

\* IPA_WLAN_CLIENT_RECOVER_EVENT: ResetPwrSaveIf
Recover(c) ==
  /\ c \in natIfs \cap pwrSave
  /\ pwrSave' = pwrSave \ {c}
  /\ nat' \in Readded(nat, ClientEntries(c), pubIp)
  /\ UNCHANGED <<alive, wan, natIfs, nonNat, temp>>

Next ==
  \/ \E ip \in WanIps : WanUp(ip) \/ WanUpFails(ip)
  \/ WanDown
  \/ \E k \in Conns : Open(k) \/ Close(k)
  \/ \E c \in NatClients :
       AddNatClient(c) \/ DelNatClient(c) \/ PowerSave(c) \/ Recover(c)
  \/ \E c \in Clients \ NatClients : AddOtherClient(c) \/ DelOtherClient(c)

Spec == Init /\ [][Next]_vars

-----------------------------------------------------------------------------
\* The hardware has the rules of the enabled entries, under their handles, and
\* otherwise only rules whose deletion failed; two rules never share a handle
\* and without a table there are none.
TableMatchesCache ==
  /\ nat.hw = Enabled(nat) \cup nat.lost
  /\ nat.lost \cap nat.cache = {}
  /\ \A d, e \in nat.hw : d.hdl = e.hdl => d = e
  /\ pubIp = None => nat.hw = {}

\* A connection has one entry for each rule, and curCnt counts the entries:
\* failed adds, failed restores and deletions leave neither a double entry nor
\* a counter that drifts.
CountExact ==
  /\ \A d, e \in nat.cache : d.rule = e.rule => d = e
  /\ nat.count = Cardinality(nat.cache)

\* The rules of a client in power save are put into the hardware only by
\* AddTable, which restores the whole cache.
PwrSaveStaysOut ==
  [][\A e \in nat'.hw \ nat.hw : e.rule.priv \in pwrSave' => pubIp # pubIp']_vars

\* Once conntrack reports the end of a connection of a NAT client, nothing of
\* it is left to be installed later: neither in the cache nor in temp.
ClosedForgotten ==
  \A e \in nat.cache \cup temp :
    Private[e.rule.conn] \in NatClients => e.rule.conn \in alive
=============================================================================
