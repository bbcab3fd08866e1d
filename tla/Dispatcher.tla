----------------------------- MODULE Dispatcher -----------------------------
(***************************************************************************)
(* Events and interface objects in ipacm (data-ipa-cfg-mgr/ipacm/src):     *)
(* IPACM_CmdQueue.cpp, IPACM_EvtDispatcher.cpp, IPACM_IfaceManager.cpp and *)
(* the handlers of IPACM_Lan, IPACM_Wlan and IPACM_Wan that end an object. *)
(*                                                                         *)
(* Several threads post events; one thread takes those of the internal     *)
(* queue first, then those of the external one, and walks the list of      *)
(* registered (event, object) pairs.  A callback may append pairs (the     *)
(* manager makes an object), remove and free those of the object it runs   *)
(* in, and post events.  The walk reads the next pointer of a pair before  *)
(* it calls the object of the pair, and uses it after.                     *)
(*                                                                         *)
(* The list is the objects in the order of registration, with the events   *)
(* of each: an object registers all its events in one callback and         *)
(* removes all of them when it is deleted.  Objects that stay for ever     *)
(* (conntrack listener, neighbours) and events no object ends at are left  *)
(* out.  The pairs of a cradle (ECM_WAN) that deletes itself at            *)
(* IPA_CFG_CHANGE_EVENT are freed under the walk: see ReadFreed.           *)
(***************************************************************************)
EXTENDS Naturals, Sequences

CONSTANTS
  Lans,        \* USB interfaces: LAN_IF, ETH_IF or, for a cradle, WAN_IF
  Wlans,       \* wireless interfaces, of UNKNOWN_IF until their link is up
  Ltes,        \* interfaces of category WAN_IF
  Manager,     \* the IPACM_IfaceManager
  Nil,         \* no pair, no object
  Files,       \* what IPACM_cfg.xml may say at the start
  MaxChanges   \* bound: changes of links, addresses and configuration

Ifaces == Lans \cup Wlans \cup Ltes

ipa_if_cat == {"LAN_IF", "ETH_IF", "WLAN_IF", "WAN_IF", "UNKNOWN_IF"}
Categories(i) == IF i \in Lans THEN {"LAN_IF", "ETH_IF", "WAN_IF"}
                 ELSE IF i \in Ltes THEN {"WAN_IF"} ELSE {"UNKNOWN_IF"}

ASSUME DispatcherAssumption ==
  /\ Lans \cap Wlans = {} /\ Lans \cap Ltes = {} /\ Wlans \cap Ltes = {}
  /\ Manager \notin Ifaces /\ Nil \notin Ifaces \cup {Manager}
  /\ Nil \notin [owner : Ifaces \cup {Manager}, k : Nat]
  /\ \A f \in Files : /\ f \in [Ifaces -> ipa_if_cat]
                     /\ \A i \in Ifaces : f[i] \in Categories(i)
  /\ MaxChanges \in Nat

VARIABLES
  link,       \* the last link event of an interface, as its driver reports it
  addr,       \* interfaces with an address in the kernel
  news,       \* addresses the netlink thread has not posted yet
  xml,        \* IPACM_cfg.xml
  edited,     \* interfaces whose category it changed, at most once each
  changes,    \* counts up to MaxChanges
  external, internal,  \* the queues
  thread,     \* MessageQueue::Process: "fetch", "wait" on cond_var or "walk",
              \* and "crashed"
  msg,        \* the event being processed
  at,         \* tmp in ProcessEvt: the pair to visit
  listeners,  \* the owners of pairs, in the order of registration
  inst,       \* the object of an interface, or Nil
  if_cat      \* iface_table[i].if_cat

kernel == <<link, addr, news, xml, edited, changes>>
objects == <<listeners, inst, if_cat>>
vars == <<kernel, external, internal, thread, msg, at, objects>>

UpTypes(i) == IF i \in Lans THEN {"USB_LINK_UP"}
              ELSE IF i \in Ltes THEN {"LINK_UP"}
              ELSE {"WLAN_AP_LINK_UP", "WLAN_STA_LINK_UP"}
DownType(i) == IF i \in Wlans THEN "WLAN_LINK_DOWN" ELSE "LINK_DOWN"
LinkTypes == UNION {UpTypes(i) \cup {DownType(i)} : i \in Ifaces}
Event(t, i) == [type |-> t, iface |-> i]
CfgChange == Event("CFG_CHANGE", Nil)
ExternalEvents ==
  {CfgChange} \cup {Event("ADDR_ADD", i) : i \in Ifaces}
  \cup {Event(DownType(i), i) : i \in Ifaces}
  \cup UNION {{Event(t, i) : t \in UpTypes(i)} : i \in Ifaces}
InternalEvents == {Event("LAN_DELETE_SELF", i) : i \in Lans \cup Wlans}

\* The events of each class of objects, in the order of registration
ManagerOrder == <<"CFG_CHANGE", "LINK_UP", "WLAN_AP_LINK_UP",
                  "WLAN_STA_LINK_UP", "USB_LINK_UP">>
DeleteSelfEarlier == <<"ADDR_ADD", "LAN_DELETE_SELF", "CFG_CHANGE", "LINK_DOWN">>
LanOrder == <<"ADDR_ADD", "CFG_CHANGE", "LINK_DOWN", "LAN_DELETE_SELF">>
EthOrder == <<"ADDR_ADD", "LINK_DOWN", "LAN_DELETE_SELF">>
WlanOrder == <<"ADDR_ADD", "WLAN_LINK_DOWN", "LAN_DELETE_SELF">>
WanOrder == <<"ADDR_ADD", "CFG_CHANGE", "LINK_DOWN">>
StaOrder == <<"ADDR_ADD", "CFG_CHANGE", "WLAN_LINK_DOWN">>
Order(class) ==
  CASE class = "Lan" -> LanOrder [] class = "Eth" -> EthOrder
    [] class = "Wlan" -> WlanOrder [] class = "Sta" -> StaOrder
    [] class \in {"Lte", "Ecm"} -> WanOrder
EventsOf(o) == IF o = Manager THEN ManagerOrder ELSE Order(inst[o].class)

Edited(i) == i \in edited
Assigned(i) == IF i \in Wlans THEN {"WLAN_IF", "WAN_IF"} ELSE {}
LanClasses == {"Lan", "Eth", "Wlan"}
WanClasses == {"Lte", "Sta", "Ecm"}
Objects == [class : LanClasses \cup WanClasses, is_active : BOOLEAN,
            is_mode_switch : BOOLEAN, ipa_if_cate : {"LAN_IF", "ETH_IF",
            "WLAN_IF", "WAN_IF"}, has_addr : BOOLEAN]

ASSUME NilAssumption == Nil \notin Objects \cup ExternalEvents \cup InternalEvents

TypeOK ==
  /\ \A i \in Ifaces : link[i] \in UpTypes(i) \cup {DownType(i)}
  /\ link \in [Ifaces -> LinkTypes] /\ addr \subseteq Ifaces
  /\ news \subseteq Ifaces
  /\ \A i \in Ifaces : /\ xml[i] \in Categories(i)
                       /\ if_cat[i] \in Categories(i) \cup Assigned(i)
  /\ xml \in [Ifaces -> ipa_if_cat] /\ edited \subseteq Lans
  /\ changes \in 0..MaxChanges
  /\ external \in Seq(ExternalEvents) /\ internal \in Seq(InternalEvents)
  /\ thread \in {"fetch", "wait", "walk", "crashed"}
  /\ msg \in ExternalEvents \cup InternalEvents \cup {Nil}
  /\ at \in [owner : Ifaces \cup {Manager}, k : Nat \ {0}] \cup {Nil}
  /\ listeners \in Seq(Ifaces \cup {Manager})
  /\ inst \in [Ifaces -> Objects \cup {Nil}]
  /\ if_cat \in [Ifaces -> ipa_if_cat]

Init ==
  /\ link = [i \in Ifaces |-> DownType(i)] /\ addr = {} /\ news = {}
  /\ xml \in Files /\ edited = {} /\ changes = 0
  /\ external = <<>> /\ internal = <<>>
  /\ thread = "fetch" /\ msg = Nil /\ at = Nil
  /\ listeners = <<Manager>>
  /\ inst = [i \in Ifaces |-> Nil] /\ if_cat = xml

-----------------------------------------------------------------------------
(* The threads that post: netlink, driver messages and the file monitor *)

\* PostEvt of another thread: the thread that waits is woken under the mutex.
Asleep == thread
Woken == IF thread = "wait" THEN "fetch" ELSE thread
PostEvt(e) ==
  /\ thread # "crashed"
  /\ external' = Append(external, e) /\ thread' = Woken
  /\ UNCHANGED <<internal, msg, at, objects>>

Change == changes < MaxChanges /\ changes' = changes + 1

\* A link event may be reported again; an access point ends before a station
\* starts.  An interface that goes down may lose its address.
LinkUp(i, t) ==
  /\ Change /\ link[i] \in {DownType(i), t}
  /\ link' = [link EXCEPT ![i] = t]
  /\ PostEvt(Event(t, i))
  /\ UNCHANGED <<addr, news, xml, edited>>

LinkDown(i) ==
  /\ Change
  /\ link' = [link EXCEPT ![i] = DownType(i)]
  /\ addr' \in {addr, addr \ {i}} /\ news' = news \cap addr'
  /\ PostEvt(Event(DownType(i), i))
  /\ UNCHANGED <<xml, edited>>

AssignAddr(i) ==
  /\ Change /\ i \notin addr
  /\ addr' = addr \cup {i} /\ news' = news \cup {i}
  /\ UNCHANGED <<link, xml, edited, external, internal, thread, msg, at, objects>>

PostAddr(i) ==
  /\ i \in news /\ news' = news \ {i}
  /\ PostEvt(Event("ADDR_ADD", i))
  /\ UNCHANGED <<link, addr, xml, edited, changes>>

EditConfig(i, c) ==
  /\ Change /\ ~Edited(i) /\ c \in Categories(i) \ {xml[i]}
  /\ xml' = [xml EXCEPT ![i] = c] /\ edited' = edited \cup {i}
  /\ PostEvt(CfgChange)
  /\ UNCHANGED <<link, addr, news>>

-----------------------------------------------------------------------------
(* MessageQueue::Process *)

First == [owner |-> listeners[1], k |-> 1]

FetchInternal ==
  /\ thread = "fetch" /\ internal # <<>>
  /\ msg' = Head(internal) /\ internal' = Tail(internal)
  /\ thread' = "walk" /\ at' = First
  /\ UNCHANGED <<kernel, external, objects>>

FetchExternal ==
  /\ thread = "fetch" /\ internal = <<>> /\ external # <<>>
  /\ msg' = Head(external) /\ external' = Tail(external)
  /\ thread' = "walk" /\ at' = First
  /\ UNCHANGED <<kernel, internal, objects>>

Wait ==
  /\ thread = "fetch" /\ internal = <<>> /\ external = <<>>
  /\ thread' = "wait"
  /\ UNCHANGED <<kernel, external, internal, msg, at, objects>>

-----------------------------------------------------------------------------
(* Callbacks *)

Listening(o) == \E n \in 1..Len(listeners) : listeners[n] = o
Place(o) == CHOOSE n \in 1..Len(listeners) : listeners[n] = o
AfterOwner(o) ==
  IF Place(o) = Len(listeners) THEN Nil
  ELSE [owner |-> listeners[Place(o) + 1], k |-> 1]
NextPair(p) ==
  IF p.k < Len(EventsOf(p.owner)) THEN [p EXCEPT !.k = @ + 1]
  ELSE AfterOwner(p.owner)
Without(o) ==
  [n \in 1..(Len(listeners) - 1) |->
     IF n < Place(o) THEN listeners[n] ELSE listeners[n + 1]]

\* Deleting an object removes its pairs, and it from the manager's list.
Delete(i) ==
  /\ listeners' = Without(i)
  /\ inst' = [inst EXCEPT ![i] = Nil]

\* create_iface_instance: the class follows from the category.
ClassOf(i, cat) ==
  CASE cat = "LAN_IF" -> "Lan" [] cat = "ETH_IF" -> "Eth"
    [] cat = "WLAN_IF" -> "Wlan"
    [] OTHER -> IF i \in Wlans THEN "Sta" ELSE IF i \in Lans THEN "Ecm" ELSE "Lte"
NewObject(i, cat) ==
  [class |-> ClassOf(i, cat), is_active |-> TRUE, is_mode_switch |-> FALSE,
   ipa_if_cate |-> cat, has_addr |-> FALSE]
NoQuery(i) == <<>>
AddrQuery(i) == IF i \in addr THEN <<Event("ADDR_ADD", i)>> ELSE <<>>
CreateIface(i, cat) ==
  IF inst[i] # Nil THEN UNCHANGED <<listeners, inst, external>>
  ELSE /\ inst' = [inst EXCEPT ![i] = NewObject(i, cat)]
       /\ listeners' = Append(listeners, i)
       /\ external' = external \o AddrQuery(i)

ManagerCallback ==
  LET i == msg.iface IN
  \/ /\ msg = CfgChange /\ if_cat' = xml
     /\ UNCHANGED <<listeners, inst, external, internal>>
  \/ /\ msg.type \in {"LINK_UP", "USB_LINK_UP"}
     /\ CreateIface(i, if_cat[i])
     /\ UNCHANGED <<if_cat, internal>>
  \/ /\ msg.type \in {"WLAN_AP_LINK_UP", "WLAN_STA_LINK_UP"}
     /\ IF if_cat[i] # "UNKNOWN_IF"
        THEN UNCHANGED <<if_cat, listeners, inst, external>>
        ELSE LET cat == IF msg.type = "WLAN_AP_LINK_UP" THEN "WLAN_IF"
                        ELSE "WAN_IF"
             IN  if_cat' = [if_cat EXCEPT ![i] = cat] /\ CreateIface(i, cat)
     /\ UNCHANGED internal

\* IPACM_Lan and IPACM_Wlan: an object that goes down posts an event to itself
\* and ignores all others until it comes.
PostToExternal(i) ==
  /\ external' = Append(external, Event("LAN_DELETE_SELF", i))
  /\ UNCHANGED internal
PostDeleteSelf(i) ==
  /\ internal' = Append(internal, Event("LAN_DELETE_SELF", i))
  /\ UNCHANGED external
GoDown(o, switch) ==
  /\ inst' = [inst EXCEPT ![o].is_active = FALSE, ![o].is_mode_switch = switch]
  /\ PostDeleteSelf(o)
  /\ UNCHANGED listeners

\* For another category the interface is announced again.
Relink(o) == external' = Append(external, Event("USB_LINK_UP", o))
Recategorized(o) == msg = CfgChange /\ if_cat[o] # inst[o].ipa_if_cate

LanCallback(o) ==
  \/ /\ inst[o].is_active /\ msg = Event(DownType(o), o)
     /\ GoDown(o, FALSE)
     /\ if_cat' = IF o \in Wlans THEN [if_cat EXCEPT ![o] = "UNKNOWN_IF"]
                  ELSE if_cat
  \/ /\ inst[o].is_active /\ Recategorized(o)
     /\ GoDown(o, TRUE)
     /\ UNCHANGED if_cat
  \/ /\ inst[o].is_active /\ msg = Event("ADDR_ADD", o)
     /\ inst' = [inst EXCEPT ![o].has_addr = TRUE]
     /\ UNCHANGED <<listeners, if_cat, external, internal>>
  \/ /\ msg = Event("LAN_DELETE_SELF", o)
     /\ IF inst[o].is_mode_switch THEN Relink(o) ELSE UNCHANGED external
     /\ Delete(o)
     /\ UNCHANGED <<if_cat, internal>>

\* IPACM_Wan: an object that goes down deletes itself, a cradle also for
\* another category, with the pairs that follow.
WanCallback(o) ==
  \/ /\ msg = Event(DownType(o), o)
     /\ Delete(o)
     /\ if_cat' = IF o \in Wlans THEN [if_cat EXCEPT ![o] = "UNKNOWN_IF"]
                  ELSE if_cat
     /\ UNCHANGED <<external, internal>>
  \/ /\ inst[o].class = "Ecm" /\ Recategorized(o)
     /\ Relink(o) /\ Delete(o)
     /\ UNCHANGED <<if_cat, internal>>
  \/ /\ msg = Event("ADDR_ADD", o)
     /\ inst' = [inst EXCEPT ![o].has_addr = TRUE]
     /\ UNCHANGED <<listeners, if_cat, external, internal>>

\* Events of other interfaces, events of a Lan that is down already and a
\* configuration that changes nothing for the object
Ignores(o) ==
  /\ o # Manager
  /\ LET Own(t) == msg = Event(t, o) IN
     IF inst[o].class \in LanClasses
     THEN /\ ~Own("LAN_DELETE_SELF")
          /\ inst[o].is_active =>
               ~Own(DownType(o)) /\ ~Own("ADDR_ADD") /\ ~Recategorized(o)
     ELSE /\ ~Own(DownType(o)) /\ ~Own("ADDR_ADD")
          /\ inst[o].class = "Ecm" => ~Recategorized(o)

Callback(o) ==
  \/ o = Manager /\ ManagerCallback
  \/ o # Manager /\ inst[o].class \in LanClasses /\ LanCallback(o)
  \/ o # Manager /\ inst[o].class \in WanClasses /\ WanCallback(o)
  \/ Ignores(o) /\ UNCHANGED <<external, internal, objects>>

\* One pair of the list
Visit ==
  /\ thread = "walk" /\ at # Nil /\ Listening(at.owner)
  /\ at' = NextPair(at)
  /\ IF EventsOf(at.owner)[at.k] = msg.type THEN Callback(at.owner)
     ELSE UNCHANGED <<external, internal, objects>>
  /\ UNCHANGED <<kernel, thread, msg>>

\* A freed pair reads as it was left, so that the walk goes on after the object,
\* or as what its memory holds by now: the walk goes on anywhere in the list,
\* ends, or the process dies.
ReadFreed ==
  /\ thread = "walk" /\ at # Nil /\ ~Listening(at.owner)
  /\ \/ /\ at' \in {Nil} \cup {[owner |-> listeners[n], k |-> 1] :
                              n \in 1..Len(listeners)}
        /\ UNCHANGED thread
     \/ thread' = "crashed" /\ UNCHANGED at
  /\ UNCHANGED <<kernel, external, internal, msg, objects>>

EndWalk ==
  /\ thread = "walk" /\ at = Nil
  /\ thread' = "fetch" /\ msg' = Nil
  /\ UNCHANGED <<kernel, external, internal, at, objects>>

Process == FetchInternal \/ FetchExternal \/ Wait \/ Visit \/ ReadFreed \/ EndWalk

Next ==
  \/ \E i \in Ifaces :
       \/ \E t \in UpTypes(i) : LinkUp(i, t)
       \/ LinkDown(i) \/ AssignAddr(i) \/ PostAddr(i)
       \/ \E c \in Categories(i) : EditConfig(i, c)
  \/ Process

\* The thread keeps running while there is work, and so does that of netlink.
Spec ==
  /\ Init /\ [][Next]_vars
  /\ WF_vars(Process) /\ WF_vars(\E i \in Ifaces : PostAddr(i))

-----------------------------------------------------------------------------
(* Properties *)

\* The walk goes on to a pair that a callback freed in one case only: a cradle
\* deletes itself when its category changed.  Every other object that deletes
\* itself does so at its last pair (ProcessEvt keeps a copy of the pair it
\* visits, so the last pair of an object may go, none before it).
OnlyCradlesFreeNext ==
  [][thread = "walk" /\ at' # Nil /\ at' # at =>
       \/ \E n \in 1..Len(listeners') : listeners'[n] = at'.owner
       \/ inst[at.owner].class = "Ecm" /\ Recategorized(at.owner)]_vars

Idle == thread = "wait" /\ news = {}

\* When all events are processed each interface has an object exactly if its
\* last link event said up, of the class of that event and of its category: an
\* up right after a down finds the old object gone, though that ends by an
\* event of its own.  A changed category is excepted: the object that makes way
\* for another posts the link-up event itself, behind a link-down event that is
\* already queued, and one of ETH_IF does not make way.
ClassesUp(i) ==
  CASE link[i] = "LINK_UP" -> {"Lte"} [] link[i] = "WLAN_AP_LINK_UP" -> {"Wlan"}
    [] link[i] = "WLAN_STA_LINK_UP" -> {"Sta"}
    [] OTHER -> IF Edited(i) THEN {"Lan", "Eth", "Ecm"} ELSE {ClassOf(i, xml[i])}
ObjectsFollowLinks ==
  Idle => \A i \in Ifaces :
    IF link[i] = DownType(i) THEN inst[i] = Nil \/ Edited(i)
    ELSE inst[i] # Nil /\ inst[i].class \in ClassesUp(i)

\* An address is known to the object of an interface however the address and
\* the link came (create_iface_instance queries those that came earlier).
AddressesKnown ==
  Idle => \A i \in addr : inst[i] # Nil => inst[i].has_addr

\* Every event posted is processed and the thread comes to wait, unless the
\* walk died of a freed pair.
Drained ==
  [](external # <<>> => <>(\/ external \o internal = <<>> /\ thread = "wait"
                           \/ thread = "crashed"))
=============================================================================
