-------------------------- MODULE DispatcherProofs --------------------------
(***************************************************************************)
(* Type correctness of Dispatcher, that the walk over the registered pairs *)
(* goes on to a freed one only after a cradle (IInv), and that objects     *)
(* follow the links and learn the addresses of their interfaces            *)
(* (FollowInv).                                                            *)
(***************************************************************************)
EXTENDS Dispatcher, SequenceTheorems, TLAPS

\* An object is of a class of its interface, the one of the category it was made
\* for; one that goes down for another category is an IPACM_Lan.
LanKinds == {"Lan", "Eth", "Ecm"}
Kind(i, x) ==
  /\ x.class = ClassOf(i, x.ipa_if_cate)
  /\ x.class \in IF i \in Lans THEN LanKinds
                 ELSE IF i \in Ltes THEN {"Lte"} ELSE {"Wlan", "Sta"}
  /\ x.is_mode_switch => x.class = "Lan"

\* The list: the manager first, each object once, and the objects in it are
\* those the manager knows.
ListOK ==
  /\ Len(listeners) >= 1 /\ listeners[1] = Manager
  /\ \A m, n \in 1..Len(listeners) : listeners[m] = listeners[n] => m = n
  /\ \A i \in Ifaces : inst[i] # Nil <=> Listening(i)
  /\ \A i \in Ifaces : inst[i] # Nil => Kind(i, inst[i])

PairOK(p) ==
  /\ p \in [owner : Ifaces \cup {Manager}, k : Nat \ {0}]
  /\ Listening(p.owner) /\ p.k <= Len(EventsOf(p.owner))

\* A freed pair is ahead: the object of a cradle is gone.
Dangling == msg = CfgChange /\ ~Listening(at.owner)

WalkOK == thread = "walk" =>
            msg # Nil /\ (at # Nil => PairOK(at) \/ Dangling)

IInv == TypeOK /\ ListOK /\ WalkOK

-----------------------------------------------------------------------------
LEMMA NilNoPair ==
  ASSUME NEW p \in [owner : Ifaces \cup {Manager}, k : Nat \ {0}]
  PROVE  p # Nil
  <1>1. p \in [owner : Ifaces \cup {Manager}, k : Nat]
    OBVIOUS
  <1> QED BY <1>1, DispatcherAssumption

LEMMA NilNoObject == ASSUME NEW i \in Ifaces \cup {Manager} PROVE i # Nil
  BY DispatcherAssumption

\* Every class of objects registers at least one event.
LEMMA OrdersOK ==
  ASSUME TypeOK, NEW o \in Ifaces \cup {Manager}, o # Manager => inst[o] # Nil
  PROVE  Len(EventsOf(o)) \in Nat \ {0}
  <1>1. CASE o = Manager
    BY <1>1 DEF EventsOf, ManagerOrder
  <1>2. CASE o # Manager
    <2>1. o \in Ifaces /\ inst[o] \in Objects
      BY <1>2 DEF TypeOK
    <2>2. inst[o].class \in LanClasses \cup WanClasses
      BY <2>1 DEF Objects
    <2> QED BY <1>2, <2>2 DEF EventsOf, Order, LanOrder, EthOrder, WlanOrder,
                              WanOrder, StaOrder, LanClasses, WanClasses
  <1> QED BY <1>1, <1>2

LEMMA PlaceOK ==
  ASSUME NEW o, Listening(o)
  PROVE  Place(o) \in 1..Len(listeners) /\ listeners[Place(o)] = o
  BY DEF Listening, Place

LEMMA FirstOK ==
  ASSUME TypeOK, ListOK
  PROVE  PairOK(First)
  <1>1. listeners[1] = Manager /\ 1 \in 1..Len(listeners)
    BY DEF ListOK, TypeOK
  <1>2. Listening(Manager)
    BY <1>1 DEF Listening
  <1> QED BY <1>1, <1>2 DEF PairOK, First, EventsOf, ManagerOrder

LEMMA AfterOwnerOK ==
  ASSUME TypeOK, ListOK, NEW o, Listening(o), AfterOwner(o) # Nil
  PROVE  PairOK(AfterOwner(o)) /\ AfterOwner(o).owner # o
  <1> DEFINE n == Place(o) + 1
  <1>1. Place(o) \in 1..Len(listeners) /\ listeners[Place(o)] = o
    BY PlaceOK
  <1>2. Len(listeners) \in Nat
    BY DEF TypeOK
  <1>3. AfterOwner(o) = [owner |-> listeners[n], k |-> 1]
    BY DEF AfterOwner
  <1>4. n \in 1..Len(listeners)
    BY <1>1, <1>2 DEF AfterOwner
  <1>5. listeners[n] \in Ifaces \cup {Manager}
    BY <1>4 DEF TypeOK
  <1>6. Listening(listeners[n])
    BY <1>4 DEF Listening
  <1>7. listeners[n] # o
    BY <1>1, <1>2, <1>4 DEF ListOK
  <1>8. listeners[n] # Manager => inst[listeners[n]] # Nil
    BY <1>5, <1>6 DEF ListOK
  <1>9. Len(EventsOf(listeners[n])) \in Nat \ {0}
    BY <1>5, <1>8, OrdersOK
  <1> HIDE DEF n
  <1> QED BY <1>3, <1>5, <1>6, <1>7, <1>9 DEF PairOK

LEMMA NextPairOK ==
  ASSUME TypeOK, ListOK, NEW p, PairOK(p), NextPair(p) # Nil
  PROVE  /\ PairOK(NextPair(p))
         /\ p.k >= Len(EventsOf(p.owner)) => NextPair(p).owner # p.owner
  <1>0. p \in [owner : Ifaces \cup {Manager}, k : Nat \ {0}] /\ Listening(p.owner)
    BY DEF PairOK
  <1>1. p.owner # Manager => inst[p.owner] # Nil
    BY <1>0 DEF ListOK
  <1>2. Len(EventsOf(p.owner)) \in Nat \ {0}
    BY <1>0, <1>1, OrdersOK
  <1>3. CASE p.k < Len(EventsOf(p.owner))
    <2>1. NextPair(p) = [p EXCEPT !.k = @ + 1]
      BY <1>3 DEF NextPair
    <2> QED BY <2>1, <1>0, <1>2, <1>3 DEF PairOK
  <1>4. CASE ~(p.k < Len(EventsOf(p.owner)))
    <2>1. NextPair(p) = AfterOwner(p.owner)
      BY <1>4 DEF NextPair
    <2> QED BY <2>1, <1>0, AfterOwnerOK
  <1> QED BY <1>3, <1>4

LEMMA NextPairType ==
  ASSUME TypeOK, ListOK, NEW p, PairOK(p)
  PROVE  NextPair(p) \in [owner : Ifaces \cup {Manager}, k : Nat \ {0}] \cup {Nil}
  BY NextPairOK DEF PairOK

\* The pairs of an object stay as they are.
Stays(o) == Listening(o) => Listening(o)' /\ EventsOf(o)' = EventsOf(o)

LEMMA PairStays ==
  ASSUME NEW p, PairOK(p), Stays(p.owner)
  PROVE  PairOK(p)'
  BY DEF PairOK, Stays

LEMMA DeleteOK ==
  ASSUME TypeOK, ListOK, NEW i \in Ifaces, Listening(i), Delete(i)
  PROVE  /\ listeners' \in Seq(Ifaces \cup {Manager})
         /\ inst' \in [Ifaces -> Objects \cup {Nil}]
         /\ ListOK' /\ ~Listening(i)'
         /\ \A o \in Ifaces \cup {Manager} : o # i => Stays(o)
  <1> DEFINE N == Len(listeners)
             P == Place(i)
  <1>1. /\ N \in Nat \ {0} /\ P \in 1..N /\ listeners[P] = i
        /\ \A n \in 1..N : listeners[n] \in Ifaces \cup {Manager}
    BY PlaceOK DEF TypeOK, ListOK
  <1>2. i # Manager /\ i # Nil /\ P # 1
    BY <1>1, DispatcherAssumption DEF ListOK
  <1>3. listeners' = [n \in 1..(N - 1) |->
                        IF n < P THEN listeners[n] ELSE listeners[n + 1]]
    BY DEF Delete, Without
  <1>4. N - 1 \in Nat \ {0}
    BY <1>1, <1>2
  <1>5. /\ listeners' \in Seq(Ifaces \cup {Manager})
        /\ Len(listeners') = N - 1 /\ listeners'[1] = Manager
    <2>1. \A n \in 1..(N - 1) : listeners'[n] \in Ifaces \cup {Manager}
      BY <1>1, <1>3
    <2>2. listeners' \in [1..(N - 1) -> Ifaces \cup {Manager}]
      BY <2>1, <1>3
    <2>3. listeners'[1] = listeners[1]
      BY <1>1, <1>2, <1>3, <1>4
    <2> HIDE DEF N, P
    <2> QED BY <2>2, <2>3, <1>4 DEF ListOK
  <1>6. \A m, n \in 1..(N - 1) : listeners'[m] = listeners'[n] => m = n
    BY <1>1, <1>3 DEF ListOK
  <1>7. \A o \in Ifaces \cup {Manager} : Listening(o)' <=> Listening(o) /\ o # i
    <2> TAKE o \in Ifaces \cup {Manager}
    <2>1. Listening(o) <=> \E n \in 1..N : listeners[n] = o
      BY DEF Listening
    <2>2. Listening(o)' <=> \E n \in 1..(N - 1) : listeners'[n] = o
      BY <1>5 DEF Listening
    <2>3. ASSUME NEW n \in 1..(N - 1), listeners'[n] = o
          PROVE  (\E m \in 1..N : listeners[m] = o) /\ o # i
      <3>1. CASE n < P
        BY <3>1, <2>3, <1>1, <1>3 DEF ListOK
      <3>2. CASE ~(n < P)
        <4>1. n + 1 \in 1..N /\ listeners[n + 1] = o /\ n + 1 # P
          BY <3>2, <2>3, <1>1, <1>3
        <4> QED BY <4>1, <1>1 DEF ListOK
      <3> QED BY <3>1, <3>2
    <2>4. ASSUME NEW n \in 1..N, listeners[n] = o, o # i
          PROVE  \E m \in 1..(N - 1) : listeners'[m] = o
      <3>1. CASE n < P
        <4>1. n \in 1..(N - 1) /\ listeners'[n] = o
          BY <3>1, <2>4, <1>1, <1>3
        <4> QED BY <4>1
      <3>2. CASE ~(n < P)
        <4>1. n # P
          BY <2>4, <1>1
        <4>2. n - 1 \in 1..(N - 1) /\ ~(n - 1 < P) /\ (n - 1) + 1 = n
          BY <3>2, <4>1, <1>1
        <4>3. listeners'[n - 1] = o
          BY <4>2, <1>3, <2>4
        <4> QED BY <4>2, <4>3
      <3> QED BY <3>1, <3>2
    <2> HIDE DEF N, P
    <2> QED BY <2>1, <2>2, <2>3, <2>4
  <1>8. inst' = [inst EXCEPT ![i] = Nil] /\ inst \in [Ifaces -> Objects \cup {Nil}]
    BY DEF Delete, TypeOK
  <1>9. inst' \in [Ifaces -> Objects \cup {Nil}]
    BY <1>8
  <1>10. \A j \in Ifaces : inst'[j] # Nil <=> Listening(j)'
    <2>1. \A j \in Ifaces : inst[j] # Nil <=> Listening(j)
      BY DEF ListOK
    <2> QED BY <1>7, <1>8, <2>1
  <1>12. \A j \in Ifaces : inst'[j] # Nil => Kind(j, inst'[j])
    BY <1>8 DEF ListOK
  <1>11. ASSUME NEW o \in Ifaces \cup {Manager}, o # i PROVE Stays(o)
    <2>1. EventsOf(o)' = EventsOf(o)
      BY <1>8, <1>11 DEF EventsOf
    <2> QED BY <2>1, <1>7, <1>11 DEF Stays
  <1> HIDE DEF P
  <1> QED BY <1>1, <1>5, <1>6, <1>7, <1>9, <1>10, <1>11, <1>12, <1>4 DEF ListOK

\* Appending an object that is not in the list
LEMMA CreateOK ==
  ASSUME TypeOK, ListOK, NEW i \in Ifaces, inst[i] = Nil, NEW x \in Objects,
         x # Nil, Kind(i, x),
         inst' = [inst EXCEPT ![i] = x], listeners' = Append(listeners, i)
  PROVE  /\ listeners' \in Seq(Ifaces \cup {Manager})
         /\ inst' \in [Ifaces -> Objects \cup {Nil}]
         /\ ListOK'
         /\ \A o \in Ifaces \cup {Manager} : Stays(o)
  <1> DEFINE N == Len(listeners)
  <1>1. /\ N \in Nat \ {0} /\ listeners \in Seq(Ifaces \cup {Manager})
        /\ inst \in [Ifaces -> Objects \cup {Nil}]
    BY DEF TypeOK, ListOK
  <1>2. ~Listening(i) /\ i # Manager
    BY DispatcherAssumption DEF ListOK
  <1>3. /\ listeners' \in Seq(Ifaces \cup {Manager}) /\ Len(listeners') = N + 1
        /\ \A n \in 1..N : listeners'[n] = listeners[n]
        /\ listeners'[N + 1] = i
    BY <1>1
  <1>4. \A o : Listening(o)' <=> Listening(o) \/ o = i
    BY <1>1, <1>3 DEF Listening
  <1>5. \A n \in 1..N : listeners[n] # i
    BY <1>2 DEF Listening
  <1>6. \A m, n \in 1..(N + 1) : listeners'[m] = listeners'[n] => m = n
    <2>1. \A m, n \in 1..N : listeners[m] = listeners[n] => m = n
      BY DEF ListOK
    <2>2. \A n \in 1..(N + 1) : n \in 1..N \/ n = N + 1
      BY <1>1
    <2> HIDE DEF N
    <2> QED BY <1>3, <1>5, <2>1, <2>2
  <1>7. inst' \in [Ifaces -> Objects \cup {Nil}]
    BY <1>1
  <1>8. \A j \in Ifaces : inst'[j] # Nil <=> Listening(j)'
    BY <1>1, <1>4 DEF ListOK
  <1>9. ASSUME NEW o \in Ifaces \cup {Manager} PROVE Stays(o)
    <2>1. CASE o = i
      BY <2>1, <1>2 DEF Stays
    <2>2. CASE o # i
      <3>1. EventsOf(o)' = EventsOf(o)
        BY <2>2, <1>1 DEF EventsOf
      <3> QED BY <3>1, <1>4 DEF Stays
    <2> QED BY <2>1, <2>2
  <1>10. Len(listeners') >= 1 /\ listeners'[1] = Manager
    BY <1>1, <1>3 DEF ListOK
  <1>11. \A j \in Ifaces : inst'[j] # Nil => Kind(j, inst'[j])
    BY <1>1 DEF ListOK
  <1> QED BY <1>3, <1>6, <1>7, <1>8, <1>9, <1>10, <1>11 DEF ListOK

QueuesOK == external \in Seq(ExternalEvents) /\ internal \in Seq(InternalEvents)
ObjectsOK ==
  /\ listeners \in Seq(Ifaces \cup {Manager})
  /\ inst \in [Ifaces -> Objects \cup {Nil}]
  /\ if_cat \in [Ifaces -> ipa_if_cat]
  /\ \A i \in Ifaces : if_cat[i] \in Categories(i) \cup Assigned(i)
AllStay == \A x \in Ifaces \cup {Manager} : Stays(x)

\* What an event says of its interface
LEMMA EventFacts ==
  ASSUME NEW e \in ExternalEvents \cup InternalEvents
  PROVE  /\ e = CfgChange \/ e.iface \in Ifaces
         /\ e.type = "LINK_UP" => e.iface \in Ltes
         /\ e.type = "USB_LINK_UP" => e.iface \in Lans
         /\ e.type \in {"WLAN_AP_LINK_UP", "WLAN_STA_LINK_UP"} => e.iface \in Wlans
         /\ e.type = "LAN_DELETE_SELF" => e.iface \in Lans \cup Wlans
  <1>1. CASE e = CfgChange
    BY <1>1 DEF CfgChange, Event
  <1>2. CASE \E i \in Ifaces : e = Event("ADDR_ADD", i)
    BY <1>2 DEF Event
  <1>3. CASE \E i \in Ifaces : e = Event(DownType(i), i)
    BY <1>3 DEF Event, DownType
  <1>4. CASE \E i \in Ifaces : \E t \in UpTypes(i) : e = Event(t, i)
    <2>0. PICK i \in Ifaces : \E t \in UpTypes(i) : e = Event(t, i)
      BY <1>4
    <2>1. PICK t \in UpTypes(i) : e = Event(t, i)
      BY <2>0
    <2>2. e.type = t /\ e.iface = i
      BY <2>1 DEF Event
    <2> QED BY <2>1, <2>2, DispatcherAssumption DEF UpTypes, Ifaces
  <1>5. CASE e \in InternalEvents
    BY <1>5 DEF InternalEvents, Event, Ifaces
  <1> QED BY <1>1, <1>2, <1>3, <1>4, <1>5 DEF ExternalEvents

\* create_iface_instance
LEMMA CreateIfaceOK ==
  ASSUME TypeOK, ListOK, NEW i \in Ifaces,
         NEW cat \in Categories(i) \cup Assigned(i), cat # "UNKNOWN_IF",
         CreateIface(i, cat)
  PROVE  /\ listeners' \in Seq(Ifaces \cup {Manager})
         /\ inst' \in [Ifaces -> Objects \cup {Nil}]
         /\ external' \in Seq(ExternalEvents)
         /\ ListOK' /\ AllStay
  <1>1. CASE inst[i] # Nil
    <2>1. UNCHANGED <<listeners, inst, external>>
      BY <1>1 DEF CreateIface
    <2> QED BY <2>1 DEF TypeOK, ListOK, AllStay, Stays, Listening, EventsOf
  <1>2. CASE inst[i] = Nil
    <2>1. /\ inst' = [inst EXCEPT ![i] = NewObject(i, cat)]
          /\ listeners' = Append(listeners, i)
          /\ external' = external \o AddrQuery(i)
      BY <1>2 DEF CreateIface
    <2>2. NewObject(i, cat) \in Objects
      BY DEF NewObject, Objects, ClassOf, Categories, Assigned, LanClasses, WanClasses
    <2>3. NewObject(i, cat) # Nil
      BY <2>2, NilAssumption
    <2>6. Kind(i, NewObject(i, cat))
      BY DispatcherAssumption
         DEF Kind, LanKinds, NewObject, ClassOf, Categories, Assigned, Ifaces
    <2>7. Event("ADDR_ADD", i) \in ExternalEvents
      BY DEF ExternalEvents
    <2>4. AddrQuery(i) \in Seq(ExternalEvents)
      BY <2>7 DEF AddrQuery
    <2>5. external' \in Seq(ExternalEvents)
      BY <2>1, <2>4 DEF TypeOK
    <2> QED BY <1>2, <2>1, <2>2, <2>3, <2>5, <2>6, CreateOK DEF AllStay
  <1> QED BY <1>1, <1>2

LEMMA ManagerOK ==
  ASSUME IInv, thread = "walk", ManagerCallback
  PROVE  QueuesOK' /\ ObjectsOK' /\ ListOK' /\ AllStay
  <1> DEFINE i == msg.iface
  <1>0. msg \in ExternalEvents \cup InternalEvents /\ TypeOK /\ ListOK
    BY DEF IInv, WalkOK, TypeOK
  <1>1. CASE /\ msg = CfgChange /\ if_cat' = xml
             /\ UNCHANGED <<listeners, inst, external, internal>>
    BY <1>0, <1>1 DEF QueuesOK, ObjectsOK, TypeOK, ListOK, AllStay, Stays,
                      Listening, EventsOf
  <1>2. CASE /\ msg.type \in {"LINK_UP", "USB_LINK_UP"}
             /\ CreateIface(i, if_cat[i])
             /\ UNCHANGED <<if_cat, internal>>
    <2>1. i \in Lans \cup Ltes /\ i \in Ifaces /\ i \notin Wlans
      BY <1>0, <1>2, EventFacts, DispatcherAssumption DEF Ifaces
    <2>2. /\ if_cat[i] \in Categories(i) \cup Assigned(i)
          /\ if_cat[i] # "UNKNOWN_IF"
      BY <1>0, <2>1 DEF TypeOK, Categories, Assigned
    <2>3. /\ listeners' \in Seq(Ifaces \cup {Manager})
          /\ inst' \in [Ifaces -> Objects \cup {Nil}]
          /\ external' \in Seq(ExternalEvents)
          /\ ListOK' /\ AllStay
      BY <1>0, <1>2, <2>1, <2>2, CreateIfaceOK
    <2> QED BY <1>0, <1>2, <2>3 DEF QueuesOK, ObjectsOK, TypeOK
  <1>3. CASE /\ msg.type \in {"WLAN_AP_LINK_UP", "WLAN_STA_LINK_UP"}
             /\ if_cat[i] # "UNKNOWN_IF"
             /\ UNCHANGED <<if_cat, listeners, inst, external, internal>>
    BY <1>0, <1>3 DEF QueuesOK, ObjectsOK, TypeOK, ListOK, AllStay, Stays,
                      Listening, EventsOf
  <1>4. ASSUME msg.type \in {"WLAN_AP_LINK_UP", "WLAN_STA_LINK_UP"},
               NEW cat \in {"WLAN_IF", "WAN_IF"},
               if_cat' = [if_cat EXCEPT ![i] = cat], CreateIface(i, cat),
               UNCHANGED internal
        PROVE  QueuesOK' /\ ObjectsOK' /\ ListOK' /\ AllStay
    <2>1. i \in Wlans /\ i \in Ifaces
      BY <1>0, <1>4, EventFacts DEF Ifaces
    <2>4. cat \in Assigned(i) /\ cat # "UNKNOWN_IF"
      BY <2>1 DEF Assigned
    <2>2. /\ listeners' \in Seq(Ifaces \cup {Manager})
          /\ inst' \in [Ifaces -> Objects \cup {Nil}]
          /\ external' \in Seq(ExternalEvents)
          /\ ListOK' /\ AllStay
      BY <1>0, <1>4, <2>1, <2>4, CreateIfaceOK
    <2>3. /\ if_cat' \in [Ifaces -> ipa_if_cat]
          /\ \A j \in Ifaces : if_cat'[j] \in Categories(j) \cup Assigned(j)
      <3>1. if_cat \in [Ifaces -> ipa_if_cat]
        BY <1>0 DEF TypeOK
      <3>2. \A j \in Ifaces : if_cat'[j] = IF j = i THEN cat ELSE if_cat[j]
        BY <1>4, <3>1
      <3>3. cat \in Assigned(i) /\ cat \in ipa_if_cat
        BY <2>1, <2>4 DEF Assigned, ipa_if_cat
      <3>4. if_cat' \in [Ifaces -> ipa_if_cat]
        BY <1>4, <3>1, <3>3
      <3>5. \A j \in Ifaces : if_cat[j] \in Categories(j) \cup Assigned(j)
        BY <1>0 DEF TypeOK
      <3> QED BY <3>2, <3>3, <3>4, <3>5
    <2> QED BY <1>0, <1>4, <2>2, <2>3 DEF QueuesOK, ObjectsOK, TypeOK
  <1>5. CASE /\ msg.type \in {"WLAN_AP_LINK_UP", "WLAN_STA_LINK_UP"}
             /\ if_cat[i] = "UNKNOWN_IF"
    <2> DEFINE cat == IF msg.type = "WLAN_AP_LINK_UP" THEN "WLAN_IF" ELSE "WAN_IF"
    <2>1. cat \in {"WLAN_IF", "WAN_IF"}
      OBVIOUS
    <2>2. /\ if_cat' = [if_cat EXCEPT ![i] = cat] /\ CreateIface(i, cat)
          /\ UNCHANGED internal
      BY <1>5, <1>0 DEF ManagerCallback, CfgChange, Event
    <2> HIDE DEF cat
    <2> QED BY <1>4, <1>5, <2>1, <2>2
  <1> QED BY <1>1, <1>2, <1>3, <1>5 DEF ManagerCallback

\* The object of an interface that goes down or gets an address stays.
LEMMA ChangeOK ==
  ASSUME TypeOK, ListOK, NEW o \in Ifaces, inst[o] # Nil, NEW x \in Objects,
         x.class = inst[o].class, Kind(o, x),
         inst' = [inst EXCEPT ![o] = x], UNCHANGED listeners
  PROVE  /\ listeners' \in Seq(Ifaces \cup {Manager})
         /\ inst' \in [Ifaces -> Objects \cup {Nil}]
         /\ ListOK' /\ AllStay
  <1>1. x # Nil
    BY NilAssumption
  <1>2. \A j : Listening(j)' <=> Listening(j)
    BY DEF Listening
  <1>3. ASSUME NEW j \in Ifaces \cup {Manager} PROVE EventsOf(j)' = EventsOf(j)
    <2>1. CASE j = Manager
      BY <2>1 DEF EventsOf
    <2>2. CASE j # Manager
      <3>1. inst'[j].class = inst[j].class
        BY <2>2 DEF TypeOK
      <3>2. Order(inst'[j].class) = Order(inst[j].class)
        BY <3>1
      <3> QED BY <2>2, <3>2 DEF EventsOf
    <2> QED BY <2>1, <2>2
  <1>4. inst' \in [Ifaces -> Objects \cup {Nil}]
    BY DEF TypeOK
  <1>5. \A j \in Ifaces : inst'[j] # Nil <=> inst[j] # Nil
    BY <1>1 DEF TypeOK
  <1>6. \A j \in Ifaces : inst'[j] # Nil => Kind(j, inst'[j])
    BY DEF TypeOK, ListOK
  <1> QED BY <1>2, <1>3, <1>4, <1>5, <1>6 DEF TypeOK, ListOK, AllStay, Stays

LEMMA AddressOK ==
  ASSUME TypeOK, ListOK, NEW o \in Ifaces, inst[o] # Nil,
         inst' = [inst EXCEPT ![o].has_addr = TRUE], UNCHANGED listeners
  PROVE  /\ listeners' \in Seq(Ifaces \cup {Manager})
         /\ inst' \in [Ifaces -> Objects \cup {Nil}]
         /\ ListOK' /\ AllStay
  <1> DEFINE x == [inst[o] EXCEPT !.has_addr = TRUE]
  <1>1. inst[o] \in Objects
    BY DEF TypeOK
  <1>2. /\ x \in Objects /\ x.class = inst[o].class
        /\ x.is_mode_switch = inst[o].is_mode_switch
        /\ x.ipa_if_cate = inst[o].ipa_if_cate
    BY <1>1 DEF Objects
  <1>3. inst' = [inst EXCEPT ![o] = x]
    BY DEF TypeOK
  <1> HIDE DEF x
  <1>4. Kind(o, x)
    BY <1>2 DEF ListOK, Kind
  <1> QED BY <1>2, <1>3, <1>4, ChangeOK

LEMMA CategoryReset ==
  ASSUME if_cat \in [Ifaces -> ipa_if_cat], NEW o \in Ifaces,
         \A i \in Ifaces : if_cat[i] \in Categories(i) \cup Assigned(i),
         if_cat' = IF o \in Wlans THEN [if_cat EXCEPT ![o] = "UNKNOWN_IF"]
                   ELSE if_cat
  PROVE  /\ if_cat' \in [Ifaces -> ipa_if_cat]
         /\ \A i \in Ifaces : if_cat'[i] \in Categories(i) \cup Assigned(i)
  <1>1. CASE o \in Wlans
    <2>1. o \notin Lans /\ o \notin Ltes
      BY <1>1, DispatcherAssumption
    <2>2. "UNKNOWN_IF" \in Categories(o)
      BY <2>1 DEF Categories
    <2>3. if_cat' = [if_cat EXCEPT ![o] = "UNKNOWN_IF"]
      BY <1>1
    <2>6. "UNKNOWN_IF" \in ipa_if_cat
      BY DEF ipa_if_cat
    <2>4. if_cat' \in [Ifaces -> ipa_if_cat]
      BY <2>3, <2>6
    <2>5. \A i \in Ifaces : if_cat'[i] = IF i = o THEN "UNKNOWN_IF" ELSE if_cat[i]
      BY <2>3
    <2> QED BY <2>2, <2>4, <2>5
  <1>2. CASE o \notin Wlans
    BY <1>2
  <1> QED BY <1>1, <1>2

LEMMA UnchangedOK ==
  ASSUME TypeOK, ListOK, UNCHANGED <<external, internal, objects>>
  PROVE  QueuesOK' /\ ObjectsOK' /\ ListOK' /\ AllStay
  <1>1. UNCHANGED <<external, internal, listeners, inst, if_cat>>
    BY DEF objects
  <1>2. \A o : Listening(o)' <=> Listening(o)
    BY <1>1 DEF Listening
  <1>3. \A o : EventsOf(o)' = EventsOf(o)
    BY <1>1 DEF EventsOf
  <1> QED BY <1>1, <1>2, <1>3 DEF QueuesOK, ObjectsOK, TypeOK, ListOK, AllStay, Stays

LEMMA LanOK ==
  ASSUME IInv, thread = "walk", NEW o \in Ifaces, Listening(o), LanCallback(o),
         inst[o].class \in LanClasses, NEW k \in 1..Len(EventsOf(o)),
         EventsOf(o)[k] = msg.type
  PROVE  /\ QueuesOK' /\ ObjectsOK' /\ ListOK'
         /\ \A x \in Ifaces \cup {Manager} : x # o => Stays(x)
         /\ Stays(o) \/ k = Len(EventsOf(o))
  <1>0. /\ msg \in ExternalEvents \cup InternalEvents /\ TypeOK /\ ListOK
        /\ inst[o] # Nil /\ inst[o] \in Objects
    BY DEF IInv, WalkOK, TypeOK, ListOK
  <1>1. /\ if_cat \in [Ifaces -> ipa_if_cat]
        /\ \A i \in Ifaces : if_cat[i] \in Categories(i) \cup Assigned(i)
        /\ external \in Seq(ExternalEvents) /\ internal \in Seq(InternalEvents)
    BY <1>0 DEF TypeOK
  <1>3. o \in Lans \cup Wlans
    BY <1>0 DEF ListOK, Kind, Ifaces, LanClasses
  <1>2. ASSUME NEW switch \in BOOLEAN, GoDown(o, switch),
               switch => inst[o].class = "Lan"
        PROVE  /\ QueuesOK'
               /\ listeners' \in Seq(Ifaces \cup {Manager})
               /\ inst' \in [Ifaces -> Objects \cup {Nil}]
               /\ ListOK' /\ AllStay
    <2> DEFINE x == [inst[o] EXCEPT !.is_active = FALSE, !.is_mode_switch = switch]
    <2>1. /\ x \in Objects /\ x.class = inst[o].class
          /\ x.is_mode_switch = switch /\ x.ipa_if_cate = inst[o].ipa_if_cate
      BY <1>0 DEF Objects
    <2>2. inst' = [inst EXCEPT ![o] = x] /\ UNCHANGED listeners
      BY <1>0, <1>2 DEF GoDown, TypeOK
    <2>3. Event("LAN_DELETE_SELF", o) \in InternalEvents
      BY <1>3 DEF InternalEvents
    <2>4. QueuesOK'
      BY <1>1, <1>2, <2>3 DEF QueuesOK, GoDown, PostDeleteSelf
    <2> HIDE DEF x
    <2>5. Kind(o, x)
      BY <1>0, <1>2, <2>1 DEF Kind, ListOK
    <2> QED BY <1>0, <2>1, <2>2, <2>4, <2>5, ChangeOK
  <1>4. CASE /\ inst[o].is_active /\ msg = Event(DownType(o), o)
             /\ GoDown(o, FALSE)
             /\ if_cat' = IF o \in Wlans THEN [if_cat EXCEPT ![o] = "UNKNOWN_IF"]
                          ELSE if_cat
    <2>1. /\ if_cat' \in [Ifaces -> ipa_if_cat]
          /\ \A i \in Ifaces : if_cat'[i] \in Categories(i) \cup Assigned(i)
      BY <1>1, <1>4, CategoryReset
    <2> QED BY <1>2, <1>4, <2>1 DEF ObjectsOK, AllStay
  <1>5. CASE /\ inst[o].is_active /\ Recategorized(o)
             /\ GoDown(o, TRUE)
             /\ UNCHANGED if_cat
    <2>1. inst[o].class = "Lan"
      <3> SUFFICES ASSUME inst[o].class \in {"Eth", "Wlan"} PROVE FALSE
        BY DEF LanClasses
      <3>1. EventsOf(o) \in {<<"ADDR_ADD", "WLAN_LINK_DOWN", "LAN_DELETE_SELF">>,
                             <<"ADDR_ADD", "LINK_DOWN", "LAN_DELETE_SELF">>}
        BY DispatcherAssumption DEF EventsOf, Order, WlanOrder, EthOrder
      <3>2. EventsOf(o)[k] = "CFG_CHANGE"
        BY <1>5 DEF Recategorized, CfgChange, Event
      <3> QED BY <3>1, <3>2
    <2> QED BY <1>1, <1>2, <1>5, <2>1 DEF ObjectsOK, AllStay
  <1>6. CASE /\ inst[o].is_active /\ msg = Event("ADDR_ADD", o)
             /\ inst' = [inst EXCEPT ![o].has_addr = TRUE]
             /\ UNCHANGED <<listeners, if_cat, external, internal>>
    BY <1>0, <1>1, <1>6, AddressOK DEF ObjectsOK, QueuesOK, AllStay
  <1>7. CASE /\ msg = Event("LAN_DELETE_SELF", o)
             /\ IF inst[o].is_mode_switch THEN Relink(o) ELSE UNCHANGED external
             /\ Delete(o)
             /\ UNCHANGED <<if_cat, internal>>
    <2>1. /\ listeners' \in Seq(Ifaces \cup {Manager})
          /\ inst' \in [Ifaces -> Objects \cup {Nil}]
          /\ ListOK'
          /\ \A x \in Ifaces \cup {Manager} : x # o => Stays(x)
      BY <1>0, <1>7, DeleteOK
    <2>2. inst[o].is_mode_switch => Event("USB_LINK_UP", o) \in ExternalEvents
      <3> SUFFICES ASSUME inst[o].is_mode_switch
                   PROVE  Event("USB_LINK_UP", o) \in ExternalEvents
        OBVIOUS
      <3>1. o \in Lans
        BY <1>0 DEF ListOK, Kind
      <3>2. "USB_LINK_UP" \in UpTypes(o)
        BY <3>1 DEF UpTypes
      <3> QED BY <3>2 DEF ExternalEvents
    <2>3. QueuesOK'
      BY <1>1, <1>7, <2>2 DEF QueuesOK, Relink
    <2>4. k = Len(EventsOf(o))
      <3>1. EventsOf(o)[k] = "LAN_DELETE_SELF"
        BY <1>7 DEF Event
      <3>2. EventsOf(o) = Order(inst[o].class)
        BY DispatcherAssumption DEF EventsOf
      <3> QED BY <3>1, <3>2 DEF Order, LanOrder, EthOrder, WlanOrder, LanClasses
    <2> QED BY <1>1, <1>7, <2>1, <2>3, <2>4 DEF ObjectsOK
  <1> QED BY <1>4, <1>5, <1>6, <1>7 DEF LanCallback

\* The one object that frees pairs the walk has still to visit
CradleEnds(o) == inst[o].class = "Ecm" /\ Recategorized(o) /\ ~Listening(o)'

LEMMA WanOK ==
  ASSUME IInv, thread = "walk", NEW o \in Ifaces, Listening(o), WanCallback(o),
         inst[o].class \in WanClasses, NEW k \in 1..Len(EventsOf(o)),
         EventsOf(o)[k] = msg.type
  PROVE  /\ QueuesOK' /\ ObjectsOK' /\ ListOK'
         /\ \A x \in Ifaces \cup {Manager} : x # o => Stays(x)
         /\ Stays(o) \/ k = Len(EventsOf(o)) \/ CradleEnds(o)
  <1>0. /\ msg \in ExternalEvents \cup InternalEvents /\ TypeOK /\ ListOK
        /\ inst[o] # Nil /\ inst[o] \in Objects
    BY DEF IInv, WalkOK, TypeOK, ListOK
  <1>1. /\ if_cat \in [Ifaces -> ipa_if_cat]
        /\ \A i \in Ifaces : if_cat[i] \in Categories(i) \cup Assigned(i)
        /\ external \in Seq(ExternalEvents) /\ internal \in Seq(InternalEvents)
    BY <1>0 DEF TypeOK
  <1>2. CASE /\ msg = Event(DownType(o), o)
             /\ Delete(o)
             /\ if_cat' = IF o \in Wlans THEN [if_cat EXCEPT ![o] = "UNKNOWN_IF"]
                          ELSE if_cat
             /\ UNCHANGED <<external, internal>>
    <2>1. /\ listeners' \in Seq(Ifaces \cup {Manager})
          /\ inst' \in [Ifaces -> Objects \cup {Nil}]
          /\ ListOK'
          /\ \A x \in Ifaces \cup {Manager} : x # o => Stays(x)
      BY <1>0, <1>2, DeleteOK
    <2>2. /\ if_cat' \in [Ifaces -> ipa_if_cat]
          /\ \A i \in Ifaces : if_cat'[i] \in Categories(i) \cup Assigned(i)
      BY <1>1, <1>2, CategoryReset
    <2>3. k = Len(EventsOf(o))
      <3>1. EventsOf(o)[k] \in {"WLAN_LINK_DOWN", "LINK_DOWN"}
        BY <1>2 DEF Event, DownType
      <3>2. EventsOf(o) = Order(inst[o].class)
        BY DispatcherAssumption DEF EventsOf
      <3> QED BY <3>1, <3>2 DEF Order, WanOrder, StaOrder, WanClasses
    <2> QED BY <1>1, <1>2, <2>1, <2>2, <2>3 DEF ObjectsOK, QueuesOK
  <1>3. CASE /\ msg = Event("ADDR_ADD", o)
             /\ inst' = [inst EXCEPT ![o].has_addr = TRUE]
             /\ UNCHANGED <<listeners, if_cat, external, internal>>
    BY <1>0, <1>1, <1>3, AddressOK DEF ObjectsOK, QueuesOK, AllStay
  <1>4. CASE /\ inst[o].class = "Ecm" /\ Recategorized(o)
             /\ Relink(o) /\ Delete(o)
             /\ UNCHANGED <<if_cat, internal>>
    <2>1. /\ listeners' \in Seq(Ifaces \cup {Manager})
          /\ inst' \in [Ifaces -> Objects \cup {Nil}]
          /\ ListOK' /\ ~Listening(o)'
          /\ \A x \in Ifaces \cup {Manager} : x # o => Stays(x)
      BY <1>0, <1>4, DeleteOK
    <2>2. Event("USB_LINK_UP", o) \in ExternalEvents
      <3>1. o \in Lans
        BY <1>0, <1>4 DEF ListOK, Kind
      <3>2. "USB_LINK_UP" \in UpTypes(o)
        BY <3>1 DEF UpTypes
      <3> QED BY <3>2 DEF ExternalEvents
    <2>3. QueuesOK'
      BY <1>1, <1>4, <2>2 DEF QueuesOK, Relink
    <2> QED BY <1>1, <1>4, <2>1, <2>3 DEF ObjectsOK, CradleEnds
  <1> QED BY <1>2, <1>3, <1>4 DEF WanCallback

LEMMA CallbackOK ==
  ASSUME IInv, thread = "walk", NEW o \in Ifaces \cup {Manager}, Listening(o),
         Callback(o), NEW k \in 1..Len(EventsOf(o)), EventsOf(o)[k] = msg.type
  PROVE  /\ QueuesOK' /\ ObjectsOK' /\ ListOK'
         /\ \A x \in Ifaces \cup {Manager} : x # o => Stays(x)
         /\ Stays(o) \/ k = Len(EventsOf(o)) \/ CradleEnds(o)
  <1>1. CASE o = Manager /\ ManagerCallback
    BY <1>1, ManagerOK DEF AllStay
  <1>2. CASE o # Manager /\ inst[o].class \in LanClasses /\ LanCallback(o)
    BY <1>2, LanOK
  <1>3. CASE o # Manager /\ inst[o].class \in WanClasses /\ WanCallback(o)
    BY <1>3, WanOK
  <1>4. CASE UNCHANGED <<external, internal, objects>>
    BY <1>4, UnchangedOK DEF AllStay, IInv
  <1> QED BY <1>1, <1>2, <1>3, <1>4 DEF Callback

-----------------------------------------------------------------------------
LEMMA TypesLemma ==
  ASSUME NEW i \in Ifaces
  PROVE  /\ DownType(i) \in LinkTypes
         /\ \A t \in UpTypes(i) : t \in LinkTypes
         /\ Event(DownType(i), i) \in ExternalEvents
         /\ \A t \in UpTypes(i) : Event(t, i) \in ExternalEvents
         /\ Event("ADDR_ADD", i) \in ExternalEvents
         /\ CfgChange \in ExternalEvents
         /\ Categories(i) \subseteq ipa_if_cat
  <1>1. Categories(i) \subseteq ipa_if_cat
    BY DEF Categories, ipa_if_cat
  <1>2. DownType(i) \in LinkTypes /\ \A t \in UpTypes(i) : t \in LinkTypes
    BY DEF LinkTypes
  <1>3. \A t \in UpTypes(i) : Event(t, i) \in ExternalEvents
    BY DEF ExternalEvents
  <1> QED BY <1>1, <1>2, <1>3 DEF ExternalEvents

LEMMA InitOK == Init => IInv
  <1> SUFFICES ASSUME Init PROVE IInv
    OBVIOUS
  <1>1. xml \in [Ifaces -> ipa_if_cat] /\ \A i \in Ifaces : xml[i] \in Categories(i)
    BY DispatcherAssumption DEF Init
  <1>2. ASSUME NEW i \in Ifaces
        PROVE  link[i] = DownType(i) /\ if_cat[i] = xml[i] /\ inst[i] = Nil
    BY DEF Init
  <1>3. link \in [Ifaces -> LinkTypes] /\ if_cat \in [Ifaces -> ipa_if_cat]
    BY <1>1, TypesLemma DEF Init
  <1>4. listeners = <<Manager>> /\ listeners \in Seq(Ifaces \cup {Manager})
    BY DEF Init
  <1>5. TypeOK
    BY <1>1, <1>2, <1>3, <1>4, DispatcherAssumption DEF Init, TypeOK
  <1>6. ListOK
    <2>1. \A i \in Ifaces : ~Listening(i)
      BY <1>4, DispatcherAssumption DEF Listening
    <2> QED BY <1>2, <1>4, <2>1 DEF ListOK
  <1>7. WalkOK
    BY DEF Init, WalkOK
  <1> QED BY <1>5, <1>6, <1>7 DEF IInv

\* What the other threads do leaves the list and the walk alone.
LEMMA QuietOK ==
  ASSUME IInv, UNCHANGED <<objects, msg, at>>,
         thread' = thread \/ thread' \in {"fetch", "wait"}
  PROVE  ListOK' /\ WalkOK'
  <1>1. UNCHANGED <<listeners, inst, if_cat>>
    BY DEF objects
  <1>2. \A o : Listening(o)' <=> Listening(o)
    BY <1>1 DEF Listening
  <1>3. \A o : EventsOf(o)' = EventsOf(o)
    BY <1>1 DEF EventsOf
  <1>4. (PairOK(at) => PairOK(at)') /\ (Dangling => Dangling')
    BY <1>2, <1>3 DEF PairOK, Dangling
  <1> QED BY <1>1, <1>2, <1>4 DEF IInv, ListOK, WalkOK

LEMMA PostEvtOK ==
  ASSUME IInv, NEW e \in ExternalEvents, PostEvt(e)
  PROVE  /\ external' \in Seq(ExternalEvents) /\ thread' \in {"fetch", "wait", "walk", "crashed"}
         /\ UNCHANGED <<internal, msg, at, listeners, inst, if_cat>>
         /\ ListOK' /\ WalkOK'
  <1>1. external' \in Seq(ExternalEvents) /\ thread' \in {"fetch", "wait", "walk", "crashed"}
    BY DEF PostEvt, Woken, IInv, TypeOK
  <1>2. UNCHANGED <<internal, msg, at, objects>>
    BY DEF PostEvt
  <1>3. thread' = thread \/ thread' \in {"fetch", "wait"}
    BY DEF PostEvt, Woken
  <1>4. UNCHANGED <<listeners, inst, if_cat>>
    BY <1>2 DEF objects
  <1> QED BY <1>1, <1>2, <1>3, <1>4, QuietOK

LEMMA PostersOK ==
  ASSUME IInv, NEW i \in Ifaces,
         \/ \E t \in UpTypes(i) : LinkUp(i, t)
         \/ LinkDown(i) \/ AssignAddr(i) \/ PostAddr(i)
         \/ \E c \in Categories(i) : EditConfig(i, c)
  PROVE  IInv'
  <1>0. TypeOK
    BY DEF IInv
  <1>1. ASSUME NEW t \in UpTypes(i), LinkUp(i, t) PROVE IInv'
    <2>1. PostEvt(Event(t, i)) /\ Event(t, i) \in ExternalEvents
      BY <1>1, TypesLemma DEF LinkUp
    <2>2. changes' \in 0..MaxChanges
      BY <1>0, <1>1, DispatcherAssumption DEF LinkUp, Change, TypeOK
    <2>3. /\ link' \in [Ifaces -> LinkTypes]
          /\ \A j \in Ifaces : link'[j] \in UpTypes(j) \cup {DownType(j)}
      BY <1>0, <1>1, TypesLemma DEF LinkUp, TypeOK
    <2> QED BY <1>0, <1>1, <2>1, <2>2, <2>3, PostEvtOK DEF LinkUp, IInv, TypeOK
  <1>2. CASE LinkDown(i)
    <2>1. PostEvt(Event(DownType(i), i)) /\ Event(DownType(i), i) \in ExternalEvents
      BY <1>2, TypesLemma DEF LinkDown
    <2>2. changes' \in 0..MaxChanges
      BY <1>0, <1>2, DispatcherAssumption DEF LinkDown, Change, TypeOK
    <2>3. /\ link' \in [Ifaces -> LinkTypes]
          /\ \A j \in Ifaces : link'[j] \in UpTypes(j) \cup {DownType(j)}
          /\ addr' \subseteq Ifaces /\ news' \subseteq Ifaces
      BY <1>0, <1>2, TypesLemma DEF LinkDown, TypeOK
    <2> QED BY <1>0, <1>2, <2>1, <2>2, <2>3, PostEvtOK DEF LinkDown, IInv, TypeOK
  <1>3. CASE AssignAddr(i)
    <2>1. changes' \in 0..MaxChanges
      BY <1>0, <1>3, DispatcherAssumption DEF AssignAddr, Change, TypeOK
    <2>2. ListOK' /\ WalkOK'
      BY <1>3, QuietOK DEF AssignAddr
    <2>3. UNCHANGED <<listeners, inst, if_cat>>
      BY <1>3 DEF AssignAddr, objects
    <2> QED BY <1>0, <1>3, <2>1, <2>2, <2>3 DEF AssignAddr, IInv, TypeOK
  <1>4. CASE PostAddr(i)
    <2>1. PostEvt(Event("ADDR_ADD", i)) /\ Event("ADDR_ADD", i) \in ExternalEvents
      BY <1>4, TypesLemma DEF PostAddr
    <2> QED BY <1>0, <1>4, <2>1, PostEvtOK DEF PostAddr, IInv, TypeOK
  <1>5. ASSUME NEW c \in Categories(i), EditConfig(i, c) PROVE IInv'
    <2>1. PostEvt(CfgChange) /\ CfgChange \in ExternalEvents
      BY <1>5, TypesLemma DEF EditConfig
    <2>2. changes' \in 0..MaxChanges
      BY <1>0, <1>5, DispatcherAssumption DEF EditConfig, Change, TypeOK
    <2>3. xml' \in [Ifaces -> ipa_if_cat] /\ \A j \in Ifaces : xml'[j] \in Categories(j)
      BY <1>0, <1>5, TypesLemma DEF EditConfig, TypeOK
    <2>4. i \in Lans
      BY <1>0, <1>5 DEF EditConfig, TypeOK, Categories
    <2> QED BY <1>0, <1>5, <2>1, <2>2, <2>3, <2>4, PostEvtOK DEF EditConfig, IInv, TypeOK
  <1> QED BY <1>1, <1>2, <1>3, <1>4, <1>5

LEMMA FetchOK ==
  ASSUME IInv, FetchInternal \/ FetchExternal
  PROVE  IInv'
  <1>0. TypeOK /\ ListOK
    BY DEF IInv
  <1>1. PairOK(First)
    BY <1>0, FirstOK
  <1>2. /\ UNCHANGED <<kernel, objects>> /\ thread' = "walk" /\ at' = First
        /\ external' \in Seq(ExternalEvents) /\ internal' \in Seq(InternalEvents)
        /\ msg' \in ExternalEvents \cup InternalEvents
    <2>1. external \in Seq(ExternalEvents) /\ internal \in Seq(InternalEvents)
      BY <1>0 DEF TypeOK
    <2>2. CASE FetchInternal
      <3>1. Head(internal) \in InternalEvents /\ Tail(internal) \in Seq(InternalEvents)
        BY <2>1, <2>2 DEF FetchInternal
      <3> QED BY <2>1, <2>2, <3>1 DEF FetchInternal
    <2>3. CASE FetchExternal
      <3>1. Head(external) \in ExternalEvents /\ Tail(external) \in Seq(ExternalEvents)
        BY <2>1, <2>3 DEF FetchExternal
      <3> QED BY <2>1, <2>3, <3>1 DEF FetchExternal
    <2> QED BY <2>2, <2>3
  <1>3. UNCHANGED <<link, addr, news, xml, edited, changes, listeners, inst, if_cat>>
    BY <1>2 DEF kernel, objects
  <1>4. msg' # Nil
    BY <1>2, NilAssumption
  <1>5. \A o : (Listening(o)' <=> Listening(o)) /\ EventsOf(o)' = EventsOf(o)
    BY <1>3 DEF Listening, EventsOf
  <1>6. ListOK'
    BY <1>0, <1>3, <1>5 DEF ListOK
  <1>7. First' = First /\ PairOK(at)'
    BY <1>1, <1>2, <1>3, <1>5 DEF PairOK, First
  <1>8. TypeOK'
    BY <1>0, <1>2, <1>3, <1>1 DEF TypeOK, PairOK
  <1> QED BY <1>2, <1>4, <1>6, <1>7, <1>8 DEF IInv, WalkOK

LEMMA VisitOK ==
  ASSUME IInv, Visit
  PROVE  /\ IInv'
         /\ \A o : o = at.owner => (at' # Nil => PairOK(at)' \/ CradleEnds(o))
  <1>o. PICK o : o = at.owner
    OBVIOUS
  <1>0. /\ TypeOK /\ ListOK /\ thread = "walk" /\ at # Nil /\ PairOK(at)
        /\ at' = NextPair(at) /\ UNCHANGED <<kernel, thread, msg>>
    BY DEF IInv, WalkOK, Dangling, Visit
  <1>1. /\ o \in Ifaces \cup {Manager} /\ Listening(o)
        /\ at.k \in Nat \ {0} /\ at.k <= Len(EventsOf(o))
    BY <1>0, <1>o DEF PairOK
  <1>2. Len(EventsOf(o)) \in Nat
    BY <1>0, <1>1, OrdersOK DEF ListOK
  <1>3. /\ QueuesOK' /\ ObjectsOK' /\ ListOK'
        /\ \A x \in Ifaces \cup {Manager} : x # o => Stays(x)
        /\ Stays(o) \/ at.k = Len(EventsOf(o)) \/ CradleEnds(o)
    <2>1. CASE EventsOf(o)[at.k] = msg.type
      <3>1. Callback(o)
        BY <1>o, <2>1 DEF Visit
      <3>2. at.k \in 1..Len(EventsOf(o))
        BY <1>1, <1>2
      <3> QED BY <1>0, <1>1, <2>1, <3>1, <3>2, CallbackOK
    <2>2. CASE EventsOf(o)[at.k] # msg.type
      <3>1. UNCHANGED <<external, internal, objects>>
        BY <1>o, <2>2 DEF Visit
      <3> QED BY <1>0, <1>1, <3>1, UnchangedOK DEF AllStay
    <2> QED BY <2>1, <2>2
  <1>4. at' # Nil => PairOK(at)' \/ (Dangling' /\ at'.owner = o /\ CradleEnds(o))
    <2> SUFFICES ASSUME at' # Nil
                 PROVE  PairOK(at)' \/ (Dangling' /\ at'.owner = o /\ CradleEnds(o))
      OBVIOUS
    <2>1. PICK p : p = NextPair(at)
      OBVIOUS
    <2>2. /\ PairOK(p)
          /\ at.k >= Len(EventsOf(o)) => p.owner # o
      BY <1>0, <1>o, <2>1, NextPairOK
    <2>3. p.owner \in Ifaces \cup {Manager} /\ at' = p
      BY <1>0, <2>1, <2>2 DEF PairOK
    <2>4. CASE Stays(p.owner)
      <3>1. PairOK(p)'
        BY <2>2, <2>4, PairStays
      <3> QED BY <2>3, <3>1 DEF PairOK
    <2>5. CASE ~Stays(p.owner)
      <3>1. p.owner = o /\ CradleEnds(o)
        BY <1>1, <1>2, <1>3, <2>2, <2>3, <2>5
      <3>2. msg' = CfgChange /\ ~Listening(o)'
        BY <1>0, <3>1 DEF CradleEnds, Recategorized
      <3> QED BY <2>3, <3>1, <3>2 DEF Dangling, Listening
    <2> QED BY <2>4, <2>5
  <1>5. UNCHANGED <<link, addr, news, xml, edited, changes, thread, msg>>
    BY <1>0 DEF kernel
  <1>6. at' \in [owner : Ifaces \cup {Manager}, k : Nat \ {0}] \cup {Nil}
    BY <1>0, NextPairType
  <1>7. TypeOK'
    BY <1>0, <1>3, <1>5, <1>6 DEF TypeOK, QueuesOK, ObjectsOK
  <1> QED BY <1>0, <1>o, <1>3, <1>4, <1>5, <1>7 DEF IInv, WalkOK

LEMMA ReadFreedOK ==
  ASSUME IInv, ReadFreed
  PROVE  /\ IInv'
         /\ at' # Nil => at' = at \/ PairOK(at)'
  <1>0. /\ TypeOK /\ ListOK /\ UNCHANGED <<kernel, external, internal, msg, objects>>
        /\ thread' \in {"walk", "crashed"} /\ msg # Nil
    BY DEF IInv, WalkOK, ReadFreed
  <1>1. /\ UNCHANGED <<link, addr, news, xml, edited, changes, external, internal, msg>>
        /\ UNCHANGED <<listeners, inst, if_cat>>
    BY <1>0 DEF kernel, objects
  <1>2. \A o : (Listening(o)' <=> Listening(o)) /\ EventsOf(o)' = EventsOf(o)
    BY <1>1 DEF Listening, EventsOf
  <1>3. ASSUME NEW n \in 1..Len(listeners), at' = [owner |-> listeners[n], k |-> 1]
        PROVE  PairOK(at)'
    <2>1. listeners[n] \in Ifaces \cup {Manager} /\ Listening(listeners[n])
      BY <1>0 DEF TypeOK, Listening
    <2>2. Len(EventsOf(listeners[n])) \in Nat \ {0}
      BY <1>0, <2>1, OrdersOK DEF ListOK
    <2>3. PairOK(at')
      BY <1>3, <2>1, <2>2 DEF PairOK
    <2> QED BY <1>2, <2>3 DEF PairOK
  <1>4. thread' = "walk" => at' = Nil \/ PairOK(at)'
    BY <1>3 DEF ReadFreed
  <1>5. at' = Nil \/ at' = at \/ PairOK(at)'
    BY <1>3 DEF ReadFreed
  <1>6. TypeOK'
    BY <1>0, <1>1, <1>5 DEF TypeOK, PairOK
  <1>7. ListOK'
    BY <1>0, <1>1, <1>2 DEF ListOK
  <1> QED BY <1>0, <1>1, <1>4, <1>5, <1>6, <1>7 DEF IInv, WalkOK

LEMMA StepOK == IInv /\ [Next]_vars => IInv'
  <1> SUFFICES ASSUME IInv, [Next]_vars PROVE IInv'
    OBVIOUS
  <1>1. ASSUME NEW i \in Ifaces,
               \/ \E t \in UpTypes(i) : LinkUp(i, t)
               \/ LinkDown(i) \/ AssignAddr(i) \/ PostAddr(i)
               \/ \E c \in Categories(i) : EditConfig(i, c)
        PROVE  IInv'
    BY <1>1, PostersOK
  <1>2. CASE FetchInternal \/ FetchExternal
    BY <1>2, FetchOK
  <1>3. CASE Visit
    BY <1>3, VisitOK
  <1>6. CASE ReadFreed
    BY <1>6, ReadFreedOK
  <1>4. CASE Wait \/ EndWalk
    <2>1. UNCHANGED <<kernel, external, internal, at, objects>> /\ msg' \in {msg, Nil}
          /\ thread' \in {"fetch", "wait"}
      BY <1>4 DEF Wait, EndWalk
    <2>2. UNCHANGED <<link, addr, news, xml, edited, changes, listeners, inst, if_cat>>
      BY <2>1 DEF kernel, objects
    <2>3. \A o : Listening(o)' <=> Listening(o)
      BY <2>2 DEF Listening
    <2> QED BY <2>1, <2>2, <2>3 DEF IInv, TypeOK, ListOK, WalkOK
  <1>5. CASE UNCHANGED vars
    <2>1. UNCHANGED <<link, addr, news, xml, edited, changes, external, internal, thread,
                      msg, at, listeners, inst, if_cat>>
      BY <1>5 DEF vars, kernel, objects
    <2>2. \A o : (Listening(o)' <=> Listening(o)) /\ EventsOf(o)' = EventsOf(o)
      BY <2>1 DEF Listening, EventsOf
    <2>3. (PairOK(at)' <=> PairOK(at)) /\ (Dangling' <=> Dangling)
      BY <2>1, <2>2 DEF PairOK, Dangling
    <2> QED BY <2>1, <2>2, <2>3 DEF IInv, TypeOK, ListOK, WalkOK
  <1> QED BY <1>1, <1>2, <1>3, <1>4, <1>5, <1>6 DEF Next, Process

\* The strengthening: the list holds the manager and the objects that exist,
\* each once, and the pair to visit next is one of the list, unless the object
\* of a cradle ended by the event being walked.
THEOREM Inductive == Spec => []IInv
  <1>1. Init => IInv
    BY InitOK
  <1>2. IInv /\ [Next]_vars => IInv'
    BY StepOK
  <1> QED BY <1>1, <1>2, PTL DEF Spec

\* Queues, list, objects and categories are well formed: in particular an
\* event only ever names an interface of the class that handles it.
THEOREM TypeCorrect == Spec => []TypeOK
  <1>1. IInv => TypeOK
    BY DEF IInv
  <1> QED BY <1>1, Inductive, PTL

\* For any interfaces and any number of changes, ProcessEvt goes on to a pair
\* freed by the callback it made only if that deleted a cradle whose category
\* changed.
THEOREM FreedOnlyByCradles == Spec => OnlyCradlesFreeNext
  <1> DEFINE Safe == thread = "walk" /\ at' # Nil /\ at' # at =>
                       \/ \E n \in 1..Len(listeners') : listeners'[n] = at'.owner
                       \/ inst[at.owner].class = "Ecm" /\ Recategorized(at.owner)
  <1>1. IInv /\ [Next]_vars => [Safe]_vars
    <2> SUFFICES ASSUME IInv, Next, thread = "walk", at' # Nil, at' # at
                 PROVE  Safe
      OBVIOUS
    <2>1. PairOK(at)' => \E n \in 1..Len(listeners') : listeners'[n] = at'.owner
      BY DEF PairOK, Listening
    <2>2. CASE Visit
      <3>1. PICK o : o = at.owner
        OBVIOUS
      <3>2. PairOK(at)' \/ CradleEnds(o)
        BY <2>2, <3>1, VisitOK
      <3> QED BY <2>1, <3>1, <3>2 DEF CradleEnds
    <2>3. CASE ReadFreed
      BY <2>1, <2>3, ReadFreedOK
    <2>4. Visit \/ ReadFreed
      BY DEF Next, Process, FetchInternal, FetchExternal, Wait, EndWalk, LinkUp,
             LinkDown, AssignAddr, PostAddr, EditConfig, PostEvt
    <2> QED BY <2>2, <2>3, <2>4
  <1> QED BY <1>1, Inductive, PTL DEF Spec, OnlyCradlesFreeNext

-----------------------------------------------------------------------------
(* Objects follow links: what the events still to be handled say of an       *)
(* interface, its object and its last link event                             *)

IsLink(e, i) == e.iface = i /\ e.type \in UpTypes(i) \cup {DownType(i)}
IsUp(e, i) == e.iface = i /\ e.type \in UpTypes(i)
IsDown(e, i) == e = Event(DownType(i), i)
DeleteSelf(i) == Event("LAN_DELETE_SELF", i)
In(e, q) == \E n \in 1..Len(q) : q[n] = e

\* The walk has still to visit the pair of object o and event t.
Before(a, b) == \E m, n \in 1..Len(listeners) :
                  m < n /\ listeners[m] = a /\ listeners[n] = b
Ahead(o, t) ==
  /\ at # Nil
  /\ \E k \in 1..Len(EventsOf(o)) :
       /\ EventsOf(o)[k] = t
       /\ (at.owner = o /\ at.k <= k) \/ Before(at.owner, o)
Due(e, o) == thread = "walk" /\ msg = e /\ Ahead(o, e.type)

\* The link events of an interface still to be handled: the one being
\* processed, until the walk has come to its pair, and those of the queue
UpDue(i) == \E t \in UpTypes(i) : Due(Event(t, i), Manager)
DownDue(i) == inst[i] # Nil /\ Due(Event(DownType(i), i), i)
LinkDue(i) == UpDue(i) \/ DownDue(i)
Line(i) == IF LinkDue(i) THEN <<msg>> \o external ELSE external

Leaving(i) == inst[i] # Nil /\ ~inst[i].is_active
Stands(i) == inst[i] # Nil /\ inst[i].is_active
Excepted(i) == Edited(i) /\ link[i] = DownType(i)
ClassFor(t) ==
  CASE t = "USB_LINK_UP" -> LanKinds [] t = "LINK_UP" -> {"Lte"}
    [] t = "WLAN_AP_LINK_UP" -> {"Wlan"} [] OTHER -> {"Sta"}

\* The last link event says what the driver reported last (l), unless x.
Latest(q, i, l, x) ==
  \A n \in 1..Len(q) : IsLink(q[n], i) =>
    x \/ q[n].type = l \/ \E k \in 1..Len(q) : n < k /\ q[k] = Event(l, i)
\* An access point ends before a station starts.
Alternate(q, i) ==
  \A m, n \in 1..Len(q) : m < n /\ IsUp(q[m], i) /\ IsUp(q[n], i) =>
    q[m].type = q[n].type \/ \E k \in m..n : IsDown(q[k], i)
\* A link that comes up again finds an object of its class, or none.
Agrees(q, i, class) ==
  \A n \in 1..Len(q) : IsUp(q[n], i) =>
    class \in ClassFor(q[n].type) \/ \E k \in 1..n : IsDown(q[k], i)
Clean(q, i) == \A n \in 1..Len(q) : ~IsLink(q[n], i)

\* All link events of i are handled.
Settled(i) ==
  /\ Leaving(i) => link[i] = DownType(i) \/ inst[i].is_mode_switch
  /\ link[i] = DownType(i) => ~Stands(i) \/ Edited(i)
  /\ ~Leaving(i) /\ link[i] # DownType(i) =>
       inst[i] # Nil /\ inst[i].class \in ClassFor(link[i])

LineOK(i) ==
  /\ Latest(Line(i), i, link[i], Excepted(i))
  /\ Alternate(Line(i), i)
  /\ Stands(i) => Agrees(Line(i), i, inst[i].class)
  /\ Clean(Line(i), i) => Settled(i)

\* An object that went down has the event that deletes it before it, and the
\* queue that is taken first is empty while a link event is handled.
LeavingOK(i) ==
  /\ Leaving(i) => /\ inst[i].class \in LanClasses
                   /\ In(DeleteSelf(i), internal) \/ Due(DeleteSelf(i), i)
  /\ Stands(i) => /\ ~In(DeleteSelf(i), internal)
                  /\ ~(thread = "walk" /\ msg = DeleteSelf(i))
  /\ LinkDue(i) => internal = <<>>

\* The category of a wireless interface is unknown while it has no object that
\* serves; that of the others is as in the file, unless that was edited.
CategoryOK(i) ==
  /\ i \in Wlans /\ ~Stands(i) => if_cat[i] = "UNKNOWN_IF"
  /\ i \in Lans /\ ~Edited(i) =>
       /\ if_cat[i] = xml[i]
       /\ inst[i] # Nil => inst[i].ipa_if_cate = xml[i]
  /\ inst[i] # Nil /\ inst[i].is_mode_switch => Edited(i)

AddrOK(i) ==
  i \in addr /\ Stands(i) =>
    \/ inst[i].has_addr \/ i \in news
    \/ In(Event("ADDR_ADD", i), external)
    \/ Due(Event("ADDR_ADD", i), i)

WaitOK == thread = "wait" => external = <<>> /\ internal = <<>>
IfaceOK(i) == LineOK(i) /\ LeavingOK(i) /\ CategoryOK(i) /\ AddrOK(i)
FollowInv == IInv /\ WaitOK /\ \A i \in Ifaces : IfaceOK(i)
-----------------------------------------------------------------------------
\* Kinds of events
LEMMA IfaceTypes ==
  ASSUME NEW i \in Ifaces
  PROVE  /\ i \in Lans => UpTypes(i) = {"USB_LINK_UP"} /\ DownType(i) = "LINK_DOWN"
         /\ i \in Ltes => UpTypes(i) = {"LINK_UP"} /\ DownType(i) = "LINK_DOWN"
         /\ i \in Wlans => /\ UpTypes(i) = {"WLAN_AP_LINK_UP", "WLAN_STA_LINK_UP"}
                           /\ DownType(i) = "WLAN_LINK_DOWN"
         /\ i \notin Wlans => i \in Lans \cup Ltes
         /\ DownType(i) \notin UpTypes(i)
         /\ {"ADDR_ADD", "CFG_CHANGE", "LAN_DELETE_SELF"}
              \cap (UpTypes(i) \cup {DownType(i)}) = {}
  BY DispatcherAssumption DEF UpTypes, DownType, Ifaces

LEMMA EventIs ==
  ASSUME NEW e \in ExternalEvents \cup InternalEvents
  PROVE  e = Event(e.type, e.iface)
  <1>1. CASE e = CfgChange
    BY <1>1 DEF CfgChange, Event
  <1>2. CASE \E i \in Ifaces : e = Event("ADDR_ADD", i)
    BY <1>2 DEF Event
  <1>3. CASE \E i \in Ifaces : e = Event(DownType(i), i)
    BY <1>3 DEF Event
  <1>4. CASE \E i \in Ifaces : \E t \in UpTypes(i) : e = Event(t, i)
    BY <1>4 DEF Event
  <1>5. CASE e \in InternalEvents
    BY <1>5 DEF InternalEvents, Event
  <1> QED BY <1>1, <1>2, <1>3, <1>4, <1>5 DEF ExternalEvents

LEMMA EventParts ==
  ASSUME NEW t, NEW i
  PROVE  Event(t, i).type = t /\ Event(t, i).iface = i
  BY DEF Event

LEMMA LinkKinds ==
  ASSUME NEW e \in ExternalEvents \cup InternalEvents, NEW i \in Ifaces
  PROVE  /\ IsLink(e, i) <=> IsUp(e, i) \/ IsDown(e, i)
         /\ ~(IsUp(e, i) /\ IsDown(e, i))
         /\ IsLink(e, i) => e = Event(e.type, i) /\ e \in ExternalEvents
  <1>1. e = Event(e.type, e.iface)
    BY EventIs
  <1>2. IsDown(e, i) => e.type = DownType(i) /\ e.iface = i
    BY EventParts DEF IsDown
  <1>3. e \in InternalEvents => e.type = "LAN_DELETE_SELF"
    BY DEF InternalEvents, Event
  <1> QED BY <1>1, <1>2, <1>3, IfaceTypes DEF IsLink, IsUp, IsDown

LEMMA EventKinds ==
  ASSUME NEW i \in Ifaces, NEW j \in Ifaces \cup {Nil}, NEW t
  PROVE  /\ j # i => ~IsLink(Event(t, j), i)
         /\ t \in {"ADDR_ADD", "CFG_CHANGE", "LAN_DELETE_SELF"} => ~IsLink(Event(t, j), i)
         /\ IsUp(Event(t, i), i) <=> t \in UpTypes(i)
         /\ IsDown(Event(t, i), i) <=> t = DownType(i)
  <1>1. Event(t, j).type = t /\ Event(t, j).iface = j
    BY EventParts
  <1>2. Event(t, i).type = t /\ Event(t, i).iface = i /\ Event(DownType(i), i).type = DownType(i)
    BY EventParts
  <1> QED BY <1>1, <1>2, IfaceTypes DEF IsLink, IsUp, IsDown

\* An object serves the link-up events of its interface, of which there are
\* several types for a wireless interface only.
LEMMA OneClass ==
  ASSUME NEW i \in Ifaces, i \notin Wlans, NEW x, Kind(i, x), NEW t \in UpTypes(i)
  PROVE  x.class \in ClassFor(t)
  BY IfaceTypes, DispatcherAssumption DEF Kind, LanKinds, ClassFor, Ifaces

-----------------------------------------------------------------------------
\* Lines of events
LEMMA AppendIs ==
  ASSUME NEW q \in Seq(ExternalEvents), NEW e \in ExternalEvents
  PROVE  /\ Append(q, e) \in Seq(ExternalEvents) /\ Len(q) \in Nat
         /\ Len(Append(q, e)) = Len(q) + 1
         /\ \A n \in 1..Len(q) : Append(q, e)[n] = q[n]
         /\ Append(q, e)[Len(q) + 1] = e
  OBVIOUS

\* The line after an event of another kind
LEMMA AppendOther ==
  ASSUME NEW q \in Seq(ExternalEvents), NEW e \in ExternalEvents, NEW i \in Ifaces,
         ~IsLink(e, i), NEW l, NEW x, NEW class
  PROVE  /\ Latest(q, i, l, x) => Latest(Append(q, e), i, l, x)
         /\ Alternate(q, i) => Alternate(Append(q, e), i)
         /\ Agrees(q, i, class) => Agrees(Append(q, e), i, class)
         /\ Clean(Append(q, e), i) => Clean(q, i)
  <1> DEFINE r == Append(q, e)
             N == Len(q)
  <1>1. /\ N \in Nat /\ Len(r) = N + 1 /\ r[N + 1] = e
        /\ \A n \in 1..N : r[n] = q[n]
    BY AppendIs
  <1>2. ~IsUp(e, i) /\ ~IsDown(e, i)
    BY LinkKinds
  <1> HIDE DEF r, N
  <1>3. ASSUME Latest(q, i, l, x) PROVE Latest(r, i, l, x)
    <2> SUFFICES ASSUME NEW n \in 1..Len(r), IsLink(r[n], i), ~x, r[n].type # l
                 PROVE  \E k \in 1..Len(r) : n < k /\ r[k] = Event(l, i)
      BY DEF Latest
    <2>1. n \in 1..N /\ r[n] = q[n]
      BY <1>1
    <2>2. PICK k \in 1..N : n < k /\ q[k] = Event(l, i)
      BY <1>3, <2>1 DEF Latest, N
    <2> QED BY <1>1, <2>2
  <1>4. ASSUME Alternate(q, i) PROVE Alternate(r, i)
    <2> SUFFICES ASSUME NEW m \in 1..Len(r), NEW n \in 1..Len(r), m < n,
                        IsUp(r[m], i), IsUp(r[n], i), r[m].type # r[n].type
                 PROVE  \E k \in m..n : IsDown(r[k], i)
      BY DEF Alternate
    <2>1. m \in 1..N /\ n \in 1..N /\ r[m] = q[m] /\ r[n] = q[n]
      BY <1>1, <1>2
    <2>2. PICK k \in m..n : IsDown(q[k], i)
      BY <1>4, <2>1 DEF Alternate, N
    <2> QED BY <1>1, <2>1, <2>2
  <1>5. ASSUME Agrees(q, i, class) PROVE Agrees(r, i, class)
    <2> SUFFICES ASSUME NEW n \in 1..Len(r), IsUp(r[n], i), class \notin ClassFor(r[n].type)
                 PROVE  \E k \in 1..n : IsDown(r[k], i)
      BY DEF Agrees
    <2>1. n \in 1..N /\ r[n] = q[n]
      BY <1>1, <1>2
    <2>2. PICK k \in 1..n : IsDown(q[k], i)
      BY <1>5, <2>1 DEF Agrees, N
    <2> QED BY <1>1, <2>1, <2>2
  <1>6. Clean(r, i) => Clean(q, i)
    BY <1>1 DEF Clean, N
  <1> QED BY <1>3, <1>4, <1>5, <1>6 DEF r

\* The line after the link event a driver reports
LEMMA AppendLink ==
  ASSUME NEW q \in Seq(ExternalEvents), NEW i \in Ifaces,
         NEW t \in UpTypes(i) \cup {DownType(i)}, NEW x
  PROVE  /\ Event(t, i) \in ExternalEvents
         /\ Latest(Append(q, Event(t, i)), i, t, x)
         /\ ~Clean(Append(q, Event(t, i)), i)
         /\ t = DownType(i) =>
              /\ Alternate(q, i) => Alternate(Append(q, Event(t, i)), i)
              /\ \A class : Agrees(q, i, class) => Agrees(Append(q, Event(t, i)), i, class)
  <1> DEFINE e == Event(t, i)
             r == Append(q, e)
             N == Len(q)
  <1>0. e \in ExternalEvents
    BY TypesLemma
  <1>1. /\ N \in Nat /\ Len(r) = N + 1 /\ r[N + 1] = e
        /\ \A n \in 1..N : r[n] = q[n]
    BY <1>0, AppendIs
  <1>2. e.type = t /\ e.iface = i
    BY EventParts
  <1>3. IsLink(e, i) /\ (t = DownType(i) => ~IsUp(e, i))
    BY <1>2, IfaceTypes DEF IsLink, IsUp
  <1> HIDE DEF r, N
  <1>4. Latest(r, i, t, x)
    <2> SUFFICES ASSUME NEW n \in 1..Len(r), IsLink(r[n], i), r[n].type # t
                 PROVE  \E k \in 1..Len(r) : n < k /\ r[k] = e
      BY DEF Latest
    <2>1. n \in 1..N
      BY <1>1, <1>2
    <2> QED BY <1>1, <2>1
  <1>5. ~Clean(r, i)
    BY <1>1, <1>3 DEF Clean
  <1>6. ASSUME t = DownType(i), Alternate(q, i) PROVE Alternate(r, i)
    <2> SUFFICES ASSUME NEW m \in 1..Len(r), NEW n \in 1..Len(r), m < n,
                        IsUp(r[m], i), IsUp(r[n], i), r[m].type # r[n].type
                 PROVE  \E k \in m..n : IsDown(r[k], i)
      BY DEF Alternate
    <2>1. m \in 1..N /\ n \in 1..N /\ r[m] = q[m] /\ r[n] = q[n]
      BY <1>1, <1>3, <1>6
    <2>2. PICK k \in m..n : IsDown(q[k], i)
      BY <1>6, <2>1 DEF Alternate, N
    <2> QED BY <1>1, <2>1, <2>2
  <1>7. ASSUME t = DownType(i), NEW class, Agrees(q, i, class) PROVE Agrees(r, i, class)
    <2> SUFFICES ASSUME NEW n \in 1..Len(r), IsUp(r[n], i), class \notin ClassFor(r[n].type)
                 PROVE  \E k \in 1..n : IsDown(r[k], i)
      BY DEF Agrees
    <2>1. n \in 1..N /\ r[n] = q[n]
      BY <1>1, <1>3, <1>7
    <2>2. PICK k \in 1..n : IsDown(q[k], i)
      BY <1>7, <2>1 DEF Agrees, N
    <2> QED BY <1>1, <2>1, <2>2
  <1> QED BY <1>0, <1>4, <1>5, <1>6, <1>7 DEF r

\* A link that comes up from l, up or down
LEMMA AppendUp ==
  ASSUME NEW q \in Seq(ExternalEvents), NEW i \in Ifaces, NEW t \in UpTypes(i),
         NEW l \in {DownType(i), t}, Latest(q, i, l, FALSE), Alternate(q, i)
  PROVE  /\ Alternate(Append(q, Event(t, i)), i)
         /\ \A class : /\ Agrees(q, i, class)
                       /\ Clean(q, i) => class \in ClassFor(t)
                       => Agrees(Append(q, Event(t, i)), i, class)
  <1> DEFINE e == Event(t, i)
             r == Append(q, e)
             N == Len(q)
  <1>0. e \in ExternalEvents
    BY TypesLemma
  <1>1. /\ N \in Nat /\ Len(r) = N + 1 /\ r[N + 1] = e
        /\ \A n \in 1..N : r[n] = q[n]
    BY <1>0, AppendIs
  <1>2. e.type = t /\ e.iface = i /\ IsUp(e, i) /\ ~IsDown(e, i)
    BY EventParts, <1>0, LinkKinds DEF IsUp
  <1>3. Event(l, i).type = l /\ Event(l, i).iface = i
    BY EventParts
  <1>4. \A n \in 1..N : q[n] \in ExternalEvents
    OBVIOUS
  <1> HIDE DEF r, N
  \* From an event on there is one of type t, or the link goes down.
  <1>5. ASSUME NEW m \in 1..N, IsUp(q[m], i)
        PROVE  \E k \in m..N : IsDown(q[k], i) \/ (IsUp(q[k], i) /\ q[k].type = t)
    <2>1. IsLink(q[m], i)
      BY <1>5 DEF IsUp, IsLink
    <2>2. CASE q[m].type = l
      <3>1. l = t
        BY <1>5, <2>2, IfaceTypes DEF IsUp
      <3> QED BY <1>1, <1>5, <2>2, <3>1
    <2>3. CASE q[m].type # l
      <3>1. PICK k \in 1..N : m < k /\ q[k] = Event(l, i)
        BY <2>1, <2>3 DEF Latest, N
      <3>2. IsDown(q[k], i) \/ (IsUp(q[k], i) /\ q[k].type = t)
        BY <3>1, <1>3 DEF IsDown, IsUp
      <3>3. k \in m..N
        BY <3>1, <1>1
      <3> QED BY <3>2, <3>3
    <2> QED BY <2>2, <2>3
  <1>6. Alternate(r, i)
    <2> SUFFICES ASSUME NEW m \in 1..Len(r), NEW n \in 1..Len(r), m < n,
                        IsUp(r[m], i), IsUp(r[n], i), r[m].type # r[n].type
                 PROVE  \E k \in m..n : IsDown(r[k], i)
      BY DEF Alternate
    <2>1. m \in 1..N /\ r[m] = q[m]
      BY <1>1
    <2>2. CASE n \in 1..N
      <3>1. PICK k \in m..n : IsDown(q[k], i)
        BY <1>1, <2>1, <2>2 DEF Alternate, N
      <3> QED BY <1>1, <2>1, <2>2, <3>1
    <2>3. CASE n = N + 1
      <3>1. r[n] = e /\ q[m].type # t
        BY <1>1, <1>2, <2>1, <2>3
      <3>2. PICK k \in m..N : IsDown(q[k], i) \/ (IsUp(q[k], i) /\ q[k].type = t)
        BY <1>5, <2>1
      <3>3. k \in 1..N /\ r[k] = q[k] /\ k \in m..n
        BY <3>2, <2>1, <2>3, <1>1
      <3>4. CASE IsDown(q[k], i)
        BY <3>3, <3>4
      <3>5. CASE IsUp(q[k], i) /\ q[k].type = t
        <4>1. m < k
          BY <3>1, <3>2, <3>5
        <4>2. PICK d \in m..k : IsDown(q[d], i)
          BY <4>1, <3>1, <3>3, <3>5, <2>1 DEF Alternate, N
        <4> QED BY <4>2, <3>3, <2>1, <1>1
      <3> QED BY <3>2, <3>4, <3>5
    <2> QED BY <1>1, <2>2, <2>3
  <1>7. ASSUME NEW class, Agrees(q, i, class), Clean(q, i) => class \in ClassFor(t)
        PROVE  Agrees(r, i, class)
    <2> SUFFICES ASSUME NEW n \in 1..Len(r), IsUp(r[n], i), class \notin ClassFor(r[n].type)
                 PROVE  \E k \in 1..n : IsDown(r[k], i)
      BY DEF Agrees
    <2>1. CASE n \in 1..N
      <3>1. PICK k \in 1..n : IsDown(q[k], i)
        BY <1>1, <1>7, <2>1 DEF Agrees, N
      <3> QED BY <1>1, <2>1, <3>1
    <2>2. CASE n = N + 1
      <3>1. r[n] = e /\ class \notin ClassFor(t)
        BY <1>1, <1>2, <2>2
      <3>2. PICK m \in 1..N : IsLink(q[m], i)
        BY <1>7, <3>1 DEF Clean, N
      <3>3. PICK k \in m..N : IsDown(q[k], i) \/ (IsUp(q[k], i) /\ q[k].type = t)
        <4>1. IsUp(q[m], i) \/ IsDown(q[m], i)
          BY <3>2, <1>4, LinkKinds
        <4>2. CASE IsDown(q[m], i)
          <5>1. m \in m..N
            BY <1>1
          <5> QED BY <4>2, <5>1
        <4> QED BY <4>1, <4>2, <1>5
      <3>4. k \in 1..N /\ r[k] = q[k]
        BY <3>3, <1>1
      <3>5. CASE IsDown(q[k], i)
        BY <3>4, <3>5, <2>2, <1>1
      <3>6. CASE IsUp(q[k], i) /\ q[k].type = t
        <4>1. PICK d \in 1..k : IsDown(q[d], i)
          BY <1>7, <3>1, <3>4, <3>6 DEF Agrees, N
        <4> QED BY <4>1, <3>4, <2>2, <1>1
      <3> QED BY <3>3, <3>5, <3>6
    <2> QED BY <1>1, <2>1, <2>2
  <1> QED BY <1>6, <1>7 DEF r

LEMMA ConsIs ==
  ASSUME NEW m \in ExternalEvents, NEW q \in Seq(ExternalEvents)
  PROVE  /\ <<m>> \o q \in Seq(ExternalEvents) /\ Len(q) \in Nat
         /\ Len(<<m>> \o q) = Len(q) + 1 /\ (<<m>> \o q)[1] = m
         /\ \A n \in 1..Len(q) : (<<m>> \o q)[n + 1] = q[n]
         /\ \A n \in 2..(Len(q) + 1) : n - 1 \in 1..Len(q) /\ (<<m>> \o q)[n] = q[n - 1]
         /\ \A e \in ExternalEvents : Append(<<m>> \o q, e) = <<m>> \o Append(q, e)
  <1>1. <<m>> \in Seq(ExternalEvents)
    OBVIOUS
  <1>2. ASSUME NEW e \in ExternalEvents
        PROVE  Append(<<m>> \o q, e) = <<m>> \o Append(q, e)
    <2>1. <<e>> \in Seq(ExternalEvents)
      OBVIOUS
    <2>2. <<m>> \o q \in Seq(ExternalEvents)
      BY <1>1
    <2>3. Append(q, e) = q \o <<e>>
      BY AppendIsConcat
    <2>4. Append(<<m>> \o q, e) = (<<m>> \o q) \o <<e>>
      BY <2>2, AppendIsConcat
    <2> QED BY <1>1, <2>1, <2>3, <2>4, ConcatAssociative
  <1> QED BY <1>2

LEMMA HeadTailIs ==
  ASSUME NEW q \in Seq(ExternalEvents), q # <<>>
  PROVE  /\ Head(q) \in ExternalEvents /\ Tail(q) \in Seq(ExternalEvents)
         /\ q = <<Head(q)>> \o Tail(q)
  <1>1. Head(q) \in ExternalEvents /\ Tail(q) \in Seq(ExternalEvents) /\ Len(q) \in Nat \ {0}
    OBVIOUS
  <1> DEFINE r == <<Head(q)>> \o Tail(q)
  <1>2. /\ r \in Seq(ExternalEvents) /\ Len(r) = Len(q) /\ r[1] = q[1]
        /\ \A n \in 2..Len(q) : r[n] = q[n]
    BY <1>1, ConsIs
  <1>3. \A n \in 1..Len(q) : r[n] = q[n]
    BY <1>1, <1>2
  <1>4. r = q
    BY <1>2, <1>3, SeqEqual
  <1> QED BY <1>1, <1>4

\* The line without its first event
LEMMA TailOK ==
  ASSUME NEW m \in ExternalEvents, NEW q \in Seq(ExternalEvents), NEW i \in Ifaces,
         NEW l \in UpTypes(i) \cup {DownType(i)}, NEW x
  PROVE  /\ Latest(<<m>> \o q, i, l, x) => Latest(q, i, l, x)
         /\ Alternate(<<m>> \o q, i) => Alternate(q, i)
         /\ ~IsDown(m, i) =>
              \A class : Agrees(<<m>> \o q, i, class) => Agrees(q, i, class)
         /\ Clean(q, i) /\ ~IsLink(m, i) => Clean(<<m>> \o q, i)
         /\ Alternate(<<m>> \o q, i) /\ IsUp(m, i) =>
              \A class \in ClassFor(m.type) : Agrees(q, i, class)
  <1> DEFINE r == <<m>> \o q
             N == Len(q)
  <1>1. /\ N \in Nat /\ Len(r) = N + 1 /\ r[1] = m
        /\ \A n \in 1..N : r[n + 1] = q[n]
        /\ \A n \in 2..(N + 1) : n - 1 \in 1..N /\ r[n] = q[n - 1]
    BY ConsIs
  <1>2. ASSUME NEW n \in 1..N PROVE n + 1 \in 1..Len(r) /\ r[n + 1] = q[n]
    BY <1>1
  <1>3. IsUp(m, i) => ~IsDown(m, i)
    BY LinkKinds
  <1> HIDE DEF r, N
  <1>4. ASSUME Latest(r, i, l, x) PROVE Latest(q, i, l, x)
    <2> SUFFICES ASSUME NEW n \in 1..N, IsLink(q[n], i), ~x, q[n].type # l
                 PROVE  \E k \in 1..N : n < k /\ q[k] = Event(l, i)
      BY DEF Latest, N
    <2>1. PICK k \in 1..Len(r) : n + 1 < k /\ r[k] = Event(l, i)
      BY <1>2, <1>4 DEF Latest
    <2>2. k - 1 \in 1..N /\ n < k - 1 /\ q[k - 1] = Event(l, i)
      BY <1>1, <2>1
    <2> QED BY <2>2
  <1>5. ASSUME Alternate(r, i) PROVE Alternate(q, i)
    <2> SUFFICES ASSUME NEW a \in 1..N, NEW b \in 1..N, a < b,
                        IsUp(q[a], i), IsUp(q[b], i), q[a].type # q[b].type
                 PROVE  \E k \in a..b : IsDown(q[k], i)
      BY DEF Alternate, N
    <2>1. PICK k \in (a + 1)..(b + 1) : IsDown(r[k], i)
      <3>1. a + 1 < b + 1
        BY <1>1
      <3> QED BY <1>2, <1>5, <3>1 DEF Alternate
    <2>2. k - 1 \in a..b /\ q[k - 1] = r[k]
      BY <1>1, <2>1
    <2> QED BY <2>1, <2>2
  <1>6. ASSUME NEW class, Agrees(r, i, class), ~IsDown(m, i) PROVE Agrees(q, i, class)
    <2> SUFFICES ASSUME NEW n \in 1..N, IsUp(q[n], i), class \notin ClassFor(q[n].type)
                 PROVE  \E k \in 1..n : IsDown(q[k], i)
      BY DEF Agrees, N
    <2>1. PICK k \in 1..(n + 1) : IsDown(r[k], i)
      BY <1>2, <1>6 DEF Agrees
    <2>2. k - 1 \in 1..n /\ q[k - 1] = r[k]
      BY <1>1, <1>6, <2>1
    <2> QED BY <2>1, <2>2
  <1>7. Clean(q, i) /\ ~IsLink(m, i) => Clean(r, i)
    BY <1>1 DEF Clean, N
  <1>8. ASSUME Alternate(r, i), IsUp(m, i), NEW class \in ClassFor(m.type)
        PROVE  Agrees(q, i, class)
    <2> SUFFICES ASSUME NEW n \in 1..N, IsUp(q[n], i), class \notin ClassFor(q[n].type)
                 PROVE  \E k \in 1..n : IsDown(q[k], i)
      BY DEF Agrees, N
    <2>1. PICK k \in 1..(n + 1) : IsDown(r[k], i)
      <3>1. m.type # q[n].type /\ 1 < n + 1 /\ 1 \in 1..Len(r)
        BY <1>1
      <3> QED BY <1>1, <1>2, <1>8, <3>1 DEF Alternate
    <2>2. k - 1 \in 1..n /\ q[k - 1] = r[k]
      BY <1>1, <1>3, <1>8, <2>1
    <2> QED BY <2>1, <2>2
  <1> QED BY <1>4, <1>5, <1>6, <1>7, <1>8 DEF r

\* What the first event of the line says
LEMMA HeadLatest ==
  ASSUME NEW m \in ExternalEvents, NEW q \in Seq(ExternalEvents), NEW i \in Ifaces,
         NEW l \in UpTypes(i) \cup {DownType(i)}, NEW x,
         Latest(<<m>> \o q, i, l, x), IsLink(m, i), Clean(q, i)
  PROVE  x \/ m.type = l
  <1> SUFFICES ASSUME ~x, m.type # l PROVE FALSE
    OBVIOUS
  <1> DEFINE r == <<m>> \o q
             N == Len(q)
  <1>1. /\ N \in Nat /\ Len(r) = N + 1 /\ r[1] = m
        /\ \A n \in 2..(N + 1) : n - 1 \in 1..N /\ r[n] = q[n - 1]
        /\ Latest(r, i, l, x)
    BY ConsIs
  <1> HIDE DEF r, N
  <1>2. PICK k \in 1..Len(r) : 1 < k /\ r[k] = Event(l, i)
    BY <1>1 DEF Latest
  <1>3. k - 1 \in 1..N /\ q[k - 1] = Event(l, i)
    BY <1>1, <1>2
  <1>4. ~IsLink(Event(l, i), i)
    BY <1>3 DEF Clean, N
  <1> QED BY <1>4, EventParts DEF IsLink

LEMMA HeadAgrees ==
  ASSUME NEW m \in ExternalEvents, NEW q \in Seq(ExternalEvents), NEW i \in Ifaces,
         NEW class, Agrees(<<m>> \o q, i, class), IsUp(m, i)
  PROVE  class \in ClassFor(m.type)
  <1> DEFINE r == <<m>> \o q
  <1>1. 1 \in 1..Len(r) /\ r[1] = m /\ Agrees(r, i, class)
    BY ConsIs
  <1>2. ~IsDown(m, i)
    BY LinkKinds
  <1> HIDE DEF r
  <1> QED BY <1>1, <1>2 DEF Agrees

\* An interface of one link-up type
LEMMA OneType ==
  ASSUME NEW i \in Ifaces, i \notin Wlans, NEW q, NEW x, Kind(i, x)
  PROVE  Alternate(q, i) /\ Agrees(q, i, x.class)
  <1>1. \A m, n \in 1..Len(q) : IsUp(q[m], i) /\ IsUp(q[n], i) => q[m].type = q[n].type
    BY IfaceTypes DEF IsUp
  <1>2. \A n \in 1..Len(q) : IsUp(q[n], i) => x.class \in ClassFor(q[n].type)
    BY OneClass DEF IsUp
  <1> QED BY <1>1, <1>2 DEF Alternate, Agrees

-----------------------------------------------------------------------------
\* What is due
LEMMA DueFacts ==
  ASSUME IInv, NEW i \in Ifaces
  PROVE  /\ LinkDue(i) => thread = "walk" /\ msg \in ExternalEvents /\ IsLink(msg, i)
         /\ UpDue(i) => IsUp(msg, i)
         /\ DownDue(i) => IsDown(msg, i)
         /\ Line(i) \in Seq(ExternalEvents)
  <1>1. UpDue(i) => thread = "walk" /\ IsUp(msg, i)
    BY EventParts DEF UpDue, Due, IsUp
  <1>2. DownDue(i) => thread = "walk" /\ IsDown(msg, i)
    BY DEF DownDue, Due, IsDown
  <1>3. thread = "walk" => msg \in ExternalEvents \cup InternalEvents
    BY DEF IInv, WalkOK, TypeOK
  <1>4. LinkDue(i) => thread = "walk" /\ msg \in ExternalEvents /\ IsLink(msg, i)
    BY <1>1, <1>2, <1>3, LinkKinds DEF LinkDue
  <1>5. Line(i) \in Seq(ExternalEvents)
    BY <1>4, ConsIs DEF Line, IInv, TypeOK
  <1> QED BY <1>1, <1>2, <1>4, <1>5

\* What is due while nothing is walked, and of an event of another kind
LEMMA NotDue ==
  ASSUME IInv, NEW i \in Ifaces,
         thread # "walk" \/ ~IsLink(msg, i) \/ at = Nil
  PROVE  ~LinkDue(i) /\ Line(i) = external
  <1>1. at = Nil => ~LinkDue(i)
    BY DEF LinkDue, UpDue, DownDue, Due, Ahead
  <1> QED BY <1>1, DueFacts DEF Line

LEMMA DueSame ==
  ASSUME UNCHANGED <<msg, at, listeners, inst>>, thread' = "walk" <=> thread = "walk",
         NEW i
  PROVE  /\ \A e, o : Due(e, o)' <=> Due(e, o)
         /\ LinkDue(i)' <=> LinkDue(i)
         /\ (Leaving(i)' <=> Leaving(i)) /\ (Stands(i)' <=> Stands(i))
  <1>1. \A a, b : Before(a, b)' <=> Before(a, b)
    BY DEF Before
  <1>2. \A o : EventsOf(o)' = EventsOf(o)
    BY DEF EventsOf
  <1>3. \A o, t : Ahead(o, t)' <=> Ahead(o, t)
    BY <1>1, <1>2 DEF Ahead
  <1>4. \A e, o : Due(e, o)' <=> Due(e, o)
    BY <1>3 DEF Due
  <1> QED BY <1>4 DEF LinkDue, UpDue, DownDue, Leaving, Stands

\* The object of an interface, but for its address
SameObject(i) ==
  /\ inst'[i] = Nil <=> inst[i] = Nil
  /\ inst[i] # Nil => /\ inst'[i].class = inst[i].class
                      /\ inst'[i].is_active = inst[i].is_active
                      /\ inst'[i].is_mode_switch = inst[i].is_mode_switch
                      /\ inst'[i].ipa_if_cate = inst[i].ipa_if_cate

LEMMA LineKept ==
  ASSUME IInv, NEW i \in Ifaces, LineOK(i), link'[i] = link[i],
         Edited(i) => Edited(i)', SameObject(i),
         \/ Line(i)' = Line(i)
         \/ \E e \in ExternalEvents : ~IsLink(e, i) /\ Line(i)' = Append(Line(i), e)
  PROVE  LineOK(i)'
  <1> DEFINE q == Line(i)
             r == Line(i)'
             l == link[i]
             x == Excepted(i)
  <1>1. q \in Seq(ExternalEvents)
    BY DueFacts
  <1>2. Excepted(i) => Excepted(i)'
    BY DEF Excepted
  <1>3. /\ (Stands(i)' <=> Stands(i)) /\ (Leaving(i)' <=> Leaving(i))
        /\ Stands(i) \/ Leaving(i) => inst'[i].class = inst[i].class
    BY DEF SameObject, Stands, Leaving
  <1>4. Settled(i) => Settled(i)'
    BY <1>3 DEF Settled, SameObject, Leaving
  <1>5. /\ Latest(q, i, l, x) => Latest(r, i, l, x)
        /\ Alternate(q, i) => Alternate(r, i)
        /\ \A class : Agrees(q, i, class) => Agrees(r, i, class)
        /\ Clean(r, i) => Clean(q, i)
    <2>1. CASE r = q
      BY <2>1
    <2>2. ASSUME NEW e \in ExternalEvents, ~IsLink(e, i), r = Append(q, e)
          PROVE  /\ Latest(q, i, l, x) => Latest(r, i, l, x)
                 /\ Alternate(q, i) => Alternate(r, i)
                 /\ \A class : Agrees(q, i, class) => Agrees(r, i, class)
                 /\ Clean(r, i) => Clean(q, i)
      <3> HIDE DEF q, r, l, x
      <3> QED BY <1>1, <2>2, AppendOther
    <2> QED BY <2>1, <2>2
  <1>6. Latest(r, i, l, x) => Latest(r, i, l, Excepted(i)')
    <2>1. x => Excepted(i)'
      BY <1>2
    <2> HIDE DEF q, r, l, x
    <2> QED BY <2>1 DEF Latest
  <1>7. /\ Latest(q, i, l, x) /\ Alternate(q, i)
        /\ Stands(i) => Agrees(q, i, inst[i].class)
        /\ Clean(q, i) => Settled(i)
    BY DEF LineOK
  <1>8. /\ Latest(r, i, link'[i], Excepted(i)') /\ Alternate(r, i)
        /\ Stands(i)' => Agrees(r, i, inst'[i].class)
        /\ Clean(r, i) => Settled(i)'
    <2>1. /\ Latest(r, i, l, x) /\ Alternate(r, i)
          /\ Stands(i) => Agrees(r, i, inst[i].class)
          /\ Clean(r, i) => Settled(i)
      BY <1>5, <1>7
    <2>2. Latest(r, i, l, Excepted(i)')
      BY <1>6, <2>1
    <2> HIDE DEF q, r, x
    <2> QED BY <1>3, <1>4, <2>1, <2>2
  <1> QED BY <1>8 DEF LineOK

-----------------------------------------------------------------------------
\* The threads that post

LEMMA LinePosted ==
  ASSUME IInv, NEW e \in ExternalEvents, PostEvt(e), NEW i \in Ifaces
  PROVE  /\ UNCHANGED <<internal, msg, at, listeners, inst, if_cat>>
         /\ thread' = "walk" <=> thread = "walk"
         /\ thread' # "wait"
         /\ external' = Append(external, e)
         /\ \A f, o : Due(f, o)' <=> Due(f, o)
         /\ LinkDue(i)' <=> LinkDue(i)
         /\ (Leaving(i)' <=> Leaving(i)) /\ (Stands(i)' <=> Stands(i))
         /\ Line(i)' = Append(Line(i), e)
  <1>1. UNCHANGED <<internal, msg, at, listeners, inst, if_cat>>
    BY DEF PostEvt, objects
  <1>2. /\ thread' = "walk" <=> thread = "walk"
        /\ thread' # "wait" /\ external' = Append(external, e)
    BY DEF PostEvt, Woken
  <1>3. /\ \A f, o : Due(f, o)' <=> Due(f, o)
        /\ LinkDue(i)' <=> LinkDue(i)
        /\ (Leaving(i)' <=> Leaving(i)) /\ (Stands(i)' <=> Stands(i))
    BY <1>1, <1>2, DueSame
  <1>4. external \in Seq(ExternalEvents)
    BY DEF IInv, TypeOK
  <1>5. Line(i)' = Append(Line(i), e)
    <2>1. CASE LinkDue(i)
      <3>1. msg \in ExternalEvents
        BY <2>1, DueFacts
      <3>2. Line(i)' = <<msg>> \o Append(external, e) /\ Line(i) = <<msg>> \o external
        BY <1>1, <1>2, <1>3, <2>1 DEF Line
      <3> QED BY <3>1, <3>2, <1>4, ConsIs
    <2>2. CASE ~LinkDue(i)
      BY <1>2, <1>3, <2>2 DEF Line
    <2> QED BY <2>1, <2>2
  <1> QED BY <1>1, <1>2, <1>3, <1>5

\* What posting an event leaves as it is
LEMMA PostedFrame ==
  ASSUME IInv, NEW e \in ExternalEvents, PostEvt(e), NEW i \in Ifaces, IfaceOK(i),
         xml'[i] = xml[i] \/ Edited(i)', Edited(i) => Edited(i)'
  PROVE  /\ LeavingOK(i)' /\ CategoryOK(i)' /\ WaitOK'
         /\ (i \in addr' => i \in addr) /\ (i \in news /\ i \in addr' => i \in news')
              => AddrOK(i)'
         /\ ~IsLink(e, i) /\ link'[i] = link[i] => LineOK(i)'
  <1>1. /\ UNCHANGED <<internal, msg, at, listeners, inst, if_cat>>
        /\ thread' = "walk" <=> thread = "walk"
        /\ thread' # "wait" /\ external' = Append(external, e)
        /\ \A f, o : Due(f, o)' <=> Due(f, o)
        /\ LinkDue(i)' <=> LinkDue(i)
        /\ (Leaving(i)' <=> Leaving(i)) /\ (Stands(i)' <=> Stands(i))
        /\ Line(i)' = Append(Line(i), e)
    BY LinePosted
  <1>2. Edited(i) => Edited(i)'
    OBVIOUS
  <1>3. SameObject(i)
    BY <1>1 DEF SameObject
  <1>4. LeavingOK(i)'
    BY <1>1 DEF IfaceOK, LeavingOK, In
  <1>5. CategoryOK(i)'
    BY <1>1, <1>2 DEF IfaceOK, CategoryOK
  <1>6. WaitOK'
    BY <1>1 DEF WaitOK
  <1>7. In(Event("ADDR_ADD", i), external) => In(Event("ADDR_ADD", i), external')
    <2>1. external \in Seq(ExternalEvents)
      BY DEF IInv, TypeOK
    <2>2. /\ Len(external) \in Nat /\ Len(external') = Len(external) + 1
          /\ \A n \in 1..Len(external) : external'[n] = external[n]
      BY <1>1, <2>1, AppendIs
    <2> QED BY <2>2 DEF In
  <1>8. AddrOK(i) => \/ i \notin addr \/ ~Stands(i) \/ inst[i].has_addr \/ i \in news
                     \/ In(Event("ADDR_ADD", i), external')
                     \/ Due(Event("ADDR_ADD", i), i)
    BY <1>7 DEF AddrOK
  <1>9. (i \in addr' => i \in addr) /\ (i \in news /\ i \in addr' => i \in news')
          => AddrOK(i)'
    BY <1>1, <1>8 DEF IfaceOK, AddrOK
  <1>10. ~IsLink(e, i) /\ link'[i] = link[i] => LineOK(i)'
    BY <1>1, <1>2, <1>3, LineKept DEF IfaceOK
  <1> QED BY <1>4, <1>5, <1>6, <1>9, <1>10

LEMMA LinkUpFollows ==
  ASSUME FollowInv, NEW j \in Ifaces, NEW t \in UpTypes(j), LinkUp(j, t), NEW i \in Ifaces
  PROVE  IfaceOK(i)' /\ WaitOK'
  <1> DEFINE e == Event(t, j)
  <1>0. IInv /\ IfaceOK(i) /\ e \in ExternalEvents /\ PostEvt(e)
    BY TypesLemma DEF FollowInv, LinkUp
  <1>1. UNCHANGED <<addr, news, xml>> /\ (Edited(i)' <=> Edited(i))
    BY DEF LinkUp, Edited
  <1> HIDE DEF e
  <1>2. /\ LeavingOK(i)' /\ CategoryOK(i)' /\ WaitOK' /\ AddrOK(i)'
        /\ ~IsLink(e, i) /\ link'[i] = link[i] => LineOK(i)'
    BY <1>0, <1>1, PostedFrame
  <1>3. CASE i # j
    <2>1. ~IsLink(e, i) /\ link'[i] = link[i]
      BY <1>3, EventKinds DEF e, LinkUp, FollowInv, IInv, TypeOK
    <2> QED BY <1>2, <2>1 DEF IfaceOK
  <1>4. CASE i = j
    <2> DEFINE q == Line(i)
    <2>1. /\ Line(i)' = Append(q, e) /\ inst' = inst
          /\ (Leaving(i)' <=> Leaving(i)) /\ (Stands(i)' <=> Stands(i))
          /\ q \in Seq(ExternalEvents)
      BY <1>0, LinePosted, DueFacts
    <2>2. link[i] \in {DownType(i), t} /\ link'[i] = t
      BY <1>4 DEF LinkUp, FollowInv, IInv, TypeOK
    <2>3. /\ Latest(q, i, link[i], Excepted(i)) /\ Alternate(q, i)
          /\ Stands(i) => Agrees(q, i, inst[i].class)
          /\ Clean(q, i) => Settled(i)
      BY <1>0 DEF IfaceOK, LineOK
    <2>4. /\ Latest(Append(q, e), i, t, Excepted(i)')
          /\ ~Clean(Append(q, e), i)
      BY <2>1, <1>4, AppendLink DEF e
    <2>5. /\ Alternate(Append(q, e), i)
          /\ Stands(i) => Agrees(Append(q, e), i, inst[i].class)
      <3>1. CASE i \notin Wlans
        <4>1. Stands(i) => Kind(i, inst[i])
          BY <1>0 DEF Stands, IInv, ListOK
        <4>3. \E x : Kind(i, x)
          <5>1. Kind(i, [class |-> IF i \in Lans THEN "Lan" ELSE "Lte",
                         ipa_if_cate |-> IF i \in Lans THEN "LAN_IF" ELSE "WAN_IF",
                         is_mode_switch |-> FALSE])
            BY <3>1 DEF Kind, Ifaces, ClassOf, LanKinds
          <5> QED BY <5>1
        <4> HIDE DEF q
        <4> QED BY <3>1, <4>1, <4>3, OneType
      <3>2. CASE i \in Wlans
        <4>1. ~Edited(i)
          <5>1. edited \subseteq Lans
            BY <1>0 DEF IInv, TypeOK
          <5> QED BY <3>2, <5>1, DispatcherAssumption DEF Edited
        <4>2. ~Excepted(i)
          BY <4>1 DEF Excepted
        <4>3. Latest(q, i, link[i], FALSE)
          <5> HIDE DEF q
          <5> QED BY <2>3, <4>2 DEF Latest
        <4>4. Clean(q, i) /\ Stands(i) => inst[i].class \in ClassFor(t)
          BY <2>2, <2>3, <4>1 DEF Settled, Stands, Leaving
        <4> HIDE DEF q
        <4>5. /\ Alternate(Append(q, e), i)
              /\ Agrees(q, i, inst[i].class) /\ (Clean(q, i) => inst[i].class \in ClassFor(t))
                   => Agrees(Append(q, e), i, inst[i].class)
          BY <1>4, <2>1, <2>2, <2>3, <4>3, AppendUp DEF e
        <4> QED BY <2>3, <4>4, <4>5
      <3> QED BY <3>1, <3>2
    <2>6. LineOK(i)'
      <3> HIDE DEF q
      <3> QED BY <2>1, <2>2, <2>4, <2>5 DEF LineOK
    <2> QED BY <1>2, <2>6 DEF IfaceOK
  <1> QED BY <1>3, <1>4

LEMMA LinkDownFollows ==
  ASSUME FollowInv, NEW j \in Ifaces, LinkDown(j), NEW i \in Ifaces
  PROVE  IfaceOK(i)' /\ WaitOK'
  <1> DEFINE e == Event(DownType(j), j)
  <1>0. IInv /\ IfaceOK(i) /\ e \in ExternalEvents /\ PostEvt(e)
    BY TypesLemma DEF FollowInv, LinkDown
  <1>1. /\ xml' = xml /\ addr' \in {addr, addr \ {j}} /\ news' = news \cap addr'
        /\ Edited(i)' <=> Edited(i)
    BY DEF LinkDown, Edited
  <1> HIDE DEF e
  <1>2. /\ LeavingOK(i)' /\ CategoryOK(i)' /\ WaitOK' /\ AddrOK(i)'
        /\ ~IsLink(e, i) /\ link'[i] = link[i] => LineOK(i)'
    BY <1>0, <1>1, PostedFrame
  <1>3. CASE i # j
    <2>1. ~IsLink(e, i) /\ link'[i] = link[i]
      BY <1>3, EventKinds DEF e, LinkDown, FollowInv, IInv, TypeOK
    <2> QED BY <1>2, <2>1 DEF IfaceOK
  <1>4. CASE i = j
    <2> DEFINE q == Line(i)
    <2>1. /\ Line(i)' = Append(q, e) /\ inst' = inst
          /\ (Leaving(i)' <=> Leaving(i)) /\ (Stands(i)' <=> Stands(i))
          /\ q \in Seq(ExternalEvents)
      BY <1>0, LinePosted, DueFacts
    <2>2. link'[i] = DownType(i)
      BY <1>4 DEF LinkDown, FollowInv, IInv, TypeOK
    <2>3. Alternate(q, i) /\ (Stands(i) => Agrees(q, i, inst[i].class))
      BY <1>0 DEF IfaceOK, LineOK
    <2>4. /\ Latest(Append(q, e), i, DownType(i), Excepted(i)')
          /\ ~Clean(Append(q, e), i)
          /\ Alternate(q, i) => Alternate(Append(q, e), i)
          /\ \A class : Agrees(q, i, class) => Agrees(Append(q, e), i, class)
      BY <2>1, <1>4, AppendLink DEF e
    <2>5. LineOK(i)'
      <3> HIDE DEF q
      <3> QED BY <2>1, <2>2, <2>3, <2>4 DEF LineOK
    <2> QED BY <1>2, <2>5 DEF IfaceOK
  <1> QED BY <1>3, <1>4

LEMMA AddressFollows ==
  ASSUME FollowInv, NEW j \in Ifaces, AssignAddr(j) \/ PostAddr(j), NEW i \in Ifaces
  PROVE  IfaceOK(i)' /\ WaitOK'
  <1>0. IInv /\ WaitOK /\ IfaceOK(i)
    BY DEF FollowInv
  <1>1. CASE AssignAddr(j)
    <2>1. UNCHANGED <<link, xml, edited, external, internal, thread, msg, at, listeners,
                      inst, if_cat>>
      BY <1>1 DEF AssignAddr, objects
    <2>2. /\ \A f, o : Due(f, o)' <=> Due(f, o)
          /\ LinkDue(i)' <=> LinkDue(i)
          /\ (Leaving(i)' <=> Leaving(i)) /\ (Stands(i)' <=> Stands(i))
      BY <2>1, DueSame
    <2>3. Line(i)' = Line(i)
      BY <2>1, <2>2 DEF Line
    <2>4. LineOK(i)'
      <3>1. SameObject(i) /\ (Edited(i)' <=> Edited(i))
        BY <2>1 DEF SameObject, Edited
      <3> QED BY <1>0, <2>1, <2>3, <3>1, LineKept DEF IfaceOK
    <2>5. LeavingOK(i)' /\ CategoryOK(i)'
      BY <1>0, <2>1, <2>2 DEF IfaceOK, LeavingOK, CategoryOK, Edited
    <2>6. WaitOK'
      BY <1>0, <2>1 DEF WaitOK
    <2>7. AddrOK(i)'
      BY <1>0, <1>1, <2>1, <2>2 DEF IfaceOK, AddrOK, AssignAddr, In
    <2> QED BY <2>4, <2>5, <2>6, <2>7 DEF IfaceOK
  <1>2. CASE PostAddr(j)
    <2> DEFINE e == Event("ADDR_ADD", j)
    <2>0. /\ e \in ExternalEvents /\ PostEvt(e) /\ UNCHANGED <<link, addr, xml>>
          /\ (Edited(i)' <=> Edited(i))
      BY <1>2, TypesLemma DEF PostAddr, Edited
    <2>1. ~IsLink(e, i)
      BY EventKinds
    <2> HIDE DEF e
    <2>2. /\ LeavingOK(i)' /\ CategoryOK(i)' /\ WaitOK' /\ LineOK(i)'
          /\ (i \in news /\ i \in addr' => i \in news') => AddrOK(i)'
      BY <1>0, <2>0, <2>1, PostedFrame
    <2>3. AddrOK(i)'
      <3>1. CASE i # j
        BY <1>2, <2>2, <3>1 DEF PostAddr
      <3>2. CASE i = j
        <4>1. external' = Append(external, e) /\ external \in Seq(ExternalEvents)
          BY <2>0, <1>0 DEF PostEvt, IInv, TypeOK
        <4>2. Len(external') \in 1..Len(external') /\ external'[Len(external')] = e
          BY <4>1, <2>0, AppendIs
        <4>3. In(e, external')
          BY <4>2 DEF In
        <4> QED BY <4>3, <3>2 DEF AddrOK, e
      <3> QED BY <3>1, <3>2
    <2> QED BY <2>2, <2>3 DEF IfaceOK
  <1> QED BY <1>1, <1>2

LEMMA EditFollows ==
  ASSUME FollowInv, NEW j \in Ifaces, NEW c \in Categories(j), EditConfig(j, c),
         NEW i \in Ifaces
  PROVE  IfaceOK(i)' /\ WaitOK'
  <1>0. IInv /\ IfaceOK(i) /\ CfgChange \in ExternalEvents /\ PostEvt(CfgChange)
    BY TypesLemma DEF FollowInv, EditConfig
  <1>1. UNCHANGED <<link, addr, news>>
    BY DEF EditConfig
  <1>2. ~IsLink(CfgChange, i)
    BY EventKinds DEF CfgChange
  <1>3. (xml'[i] = xml[i] \/ Edited(i)') /\ (Edited(i) => Edited(i)')
    <2>1. xml' = [xml EXCEPT ![j] = c] /\ edited' = edited \cup {j}
      BY DEF EditConfig
    <2> QED BY <2>1 DEF Edited
  <1> QED BY <1>0, <1>1, <1>2, <1>3, PostedFrame DEF IfaceOK

-----------------------------------------------------------------------------
\* The next event

LEMMA Registered ==
  ASSUME IInv, NEW i \in Ifaces
  PROVE  /\ \A t \in UpTypes(i) : \E k \in 1..Len(EventsOf(Manager)) : EventsOf(Manager)[k] = t
         /\ inst[i] # Nil =>
              /\ Listening(i)
              /\ \E k \in 1..Len(EventsOf(i)) : EventsOf(i)[k] = "ADDR_ADD"
              /\ \E k \in 1..Len(EventsOf(i)) : EventsOf(i)[k] = DownType(i)
              /\ inst[i].class \in LanClasses =>
                   \E k \in 1..Len(EventsOf(i)) : EventsOf(i)[k] = "LAN_DELETE_SELF"
  <1>1. ASSUME NEW t \in UpTypes(i)
        PROVE  \E k \in 1..Len(EventsOf(Manager)) : EventsOf(Manager)[k] = t
    <2>1. t \in {"LINK_UP", "WLAN_AP_LINK_UP", "WLAN_STA_LINK_UP", "USB_LINK_UP"}
      BY DEF UpTypes
    <2>2. EventsOf(Manager) = <<"CFG_CHANGE", "LINK_UP", "WLAN_AP_LINK_UP",
                                "WLAN_STA_LINK_UP", "USB_LINK_UP">>
      BY DEF EventsOf, ManagerOrder
    <2>3. /\ Len(EventsOf(Manager)) = 5 /\ EventsOf(Manager)[2] = "LINK_UP"
          /\ EventsOf(Manager)[3] = "WLAN_AP_LINK_UP"
          /\ EventsOf(Manager)[4] = "WLAN_STA_LINK_UP"
          /\ EventsOf(Manager)[5] = "USB_LINK_UP"
      BY <2>2
    <2>4. 2 \in 1..5 /\ 3 \in 1..5 /\ 4 \in 1..5 /\ 5 \in 1..5
      OBVIOUS
    <2> QED BY <2>1, <2>3, <2>4
  <1>2. ASSUME inst[i] # Nil
        PROVE  /\ Listening(i)
               /\ \E k \in 1..Len(EventsOf(i)) : EventsOf(i)[k] = "ADDR_ADD"
               /\ \E k \in 1..Len(EventsOf(i)) : EventsOf(i)[k] = DownType(i)
               /\ inst[i].class \in LanClasses =>
                    \E k \in 1..Len(EventsOf(i)) : EventsOf(i)[k] = "LAN_DELETE_SELF"
    <2>1. Listening(i) /\ Kind(i, inst[i])
      BY <1>2 DEF IInv, ListOK
    <2>2. EventsOf(i) = Order(inst[i].class)
      BY DispatcherAssumption DEF EventsOf
    <2>3. CASE inst[i].class = "Lan"
      <3>1. DownType(i) = "LINK_DOWN"
        BY <2>1, <2>3, DispatcherAssumption DEF Kind, LanKinds, DownType
      <3>2. EventsOf(i) = <<"ADDR_ADD", "CFG_CHANGE", "LINK_DOWN", "LAN_DELETE_SELF">>
        BY <2>2, <2>3 DEF Order, LanOrder
      <3>3. /\ Len(EventsOf(i)) = 4 /\ EventsOf(i)[1] = "ADDR_ADD"
            /\ EventsOf(i)[3] = "LINK_DOWN" /\ EventsOf(i)[4] = "LAN_DELETE_SELF"
            /\ 1 \in 1..4 /\ 3 \in 1..4 /\ 4 \in 1..4
        BY <3>2
      <3> QED BY <2>1, <3>1, <3>3
    <2>4. CASE inst[i].class \in {"Eth", "Wlan"}
      <3>1. DownType(i) = IF inst[i].class = "Eth" THEN "LINK_DOWN" ELSE "WLAN_LINK_DOWN"
        BY <2>1, <2>4, DispatcherAssumption DEF Kind, LanKinds, DownType, Ifaces
      <3>2. EventsOf(i) = <<"ADDR_ADD", DownType(i), "LAN_DELETE_SELF">>
        BY <2>2, <2>4, <3>1 DEF Order, EthOrder, WlanOrder
      <3>3. /\ Len(EventsOf(i)) = 3 /\ EventsOf(i)[1] = "ADDR_ADD"
            /\ EventsOf(i)[2] = DownType(i) /\ EventsOf(i)[3] = "LAN_DELETE_SELF"
            /\ 1 \in 1..3 /\ 2 \in 1..3 /\ 3 \in 1..3
        BY <3>2
      <3> QED BY <2>1, <3>3
    <2>5. CASE inst[i].class \in WanClasses
      <3>1. DownType(i) = IF inst[i].class = "Sta" THEN "WLAN_LINK_DOWN" ELSE "LINK_DOWN"
        BY <2>1, <2>5, DispatcherAssumption
           DEF Kind, LanKinds, WanClasses, DownType, Ifaces
      <3>2. EventsOf(i) = <<"ADDR_ADD", "CFG_CHANGE", DownType(i)>>
        BY <2>2, <2>5, <3>1 DEF Order, WanOrder, StaOrder, WanClasses
      <3>3. /\ Len(EventsOf(i)) = 3 /\ EventsOf(i)[1] = "ADDR_ADD"
            /\ EventsOf(i)[3] = DownType(i) /\ 1 \in 1..3 /\ 3 \in 1..3
        BY <3>2
      <3> QED BY <2>1, <2>5, <3>3 DEF LanClasses, WanClasses
    <2>6. inst[i].class \in LanClasses \cup WanClasses
      BY <2>1 DEF Kind, LanKinds, LanClasses, WanClasses
    <2> QED BY <2>3, <2>4, <2>5, <2>6 DEF LanClasses
  <1> QED BY <1>1, <1>2

\* A walk that starts has every pair before it.
LEMMA FirstAhead ==
  ASSUME IInv, at' = First, UNCHANGED <<listeners, inst>>,
         NEW o \in Ifaces \cup {Manager}, Listening(o), NEW t,
         \E k \in 1..Len(EventsOf(o)) : EventsOf(o)[k] = t
  PROVE  Ahead(o, t)'
  <1>1. EventsOf(o)' = EventsOf(o)
    BY DEF EventsOf
  <1>2. at' = [owner |-> Manager, k |-> 1] /\ at' # Nil
    <2>1. listeners[1] = Manager
      BY DEF IInv, ListOK
    <2>2. at' = [owner |-> Manager, k |-> 1]
      BY <2>1 DEF First
    <2>3. [owner |-> Manager, k |-> 1] \in [owner : Ifaces \cup {Manager}, k : Nat \ {0}]
      OBVIOUS
    <2> QED BY <2>2, <2>3, NilNoPair
  <1>3. at'.owner = Manager /\ at'.k = 1
    BY <1>2
  <1>4. PICK k \in 1..Len(EventsOf(o)) : EventsOf(o)[k] = t
    OBVIOUS
  <1>5. o # Manager => Before(Manager, o)'
    <2> SUFFICES ASSUME o # Manager PROVE Before(Manager, o)'
      OBVIOUS
    <2>1. listeners[1] = Manager /\ Len(listeners) \in Nat \ {0}
      BY DEF IInv, TypeOK, ListOK
    <2>2. PICK n \in 1..Len(listeners) : listeners[n] = o
      BY DEF Listening
    <2>3. 1 \in 1..Len(listeners) /\ 1 < n
      BY <2>1, <2>2
    <2> QED BY <2>1, <2>2, <2>3 DEF Before
  <1>6. (at'.owner = o /\ at'.k <= k) \/ Before(at.owner, o)'
    BY <1>3, <1>4, <1>5 DEF Before
  <1> QED BY <1>1, <1>2, <1>4, <1>6 DEF Ahead

LEMMA LinkDueNext ==
  ASSUME NEW i \in Ifaces, LinkDue(i)'
  PROVE  thread' = "walk" /\ IsLink(msg', i)
  BY EventParts DEF LinkDue, UpDue, DownDue, Due, IsLink

LEMMA SelfIsNoOther ==
  ASSUME NEW i, NEW e \in ExternalEvents
  PROVE  e # DeleteSelf(i)
  <1>1. e.type # "LAN_DELETE_SELF"
    <2>1. CASE e = CfgChange
      BY <2>1 DEF CfgChange, Event
    <2>2. ASSUME NEW j \in Ifaces, NEW t \in UpTypes(j) \cup {DownType(j), "ADDR_ADD"},
                 e = Event(t, j)
          PROVE  e.type # "LAN_DELETE_SELF"
      BY <2>2, EventParts, IfaceTypes
    <2> QED BY <2>1, <2>2 DEF ExternalEvents
  <1> QED BY <1>1, EventParts DEF DeleteSelf

LEMMA InTail ==
  ASSUME NEW S, NEW q \in Seq(S), q # <<>>, NEW e
  PROVE  In(e, q) <=> Head(q) = e \/ In(e, Tail(q))
  <1>1. /\ Len(q) \in Nat \ {0} /\ Head(q) = q[1] /\ Len(Tail(q)) = Len(q) - 1
        /\ \A n \in 1..(Len(q) - 1) : Tail(q)[n] = q[n + 1]
    OBVIOUS
  <1>2. ASSUME NEW n \in 1..Len(q), q[n] = e, n # 1 PROVE In(e, Tail(q))
    <2>1. n - 1 \in 1..(Len(q) - 1) /\ (n - 1) + 1 = n
      BY <1>1, <1>2
    <2>2. Tail(q)[n - 1] = e /\ n - 1 \in 1..Len(Tail(q))
      BY <1>1, <1>2, <2>1
    <2> QED BY <2>2 DEF In
  <1>3. ASSUME NEW n \in 1..Len(Tail(q)), Tail(q)[n] = e PROVE In(e, q)
    <2>1. n + 1 \in 1..Len(q) /\ q[n + 1] = e
      BY <1>1, <1>3
    <2> QED BY <2>1 DEF In
  <1>4. Head(q) = e => In(e, q)
    <2>1. 1 \in 1..Len(q)
      BY <1>1
    <2> QED BY <1>1, <2>1 DEF In
  <1> QED BY <1>1, <1>2, <1>3, <1>4 DEF In

LEMMA InAppend ==
  ASSUME NEW S, NEW q \in Seq(S), NEW f \in S, NEW e
  PROVE  In(e, Append(q, f)) <=> e = f \/ In(e, q)
  <1>1. /\ Len(q) \in Nat /\ Len(Append(q, f)) = Len(q) + 1
        /\ \A n \in 1..Len(q) : Append(q, f)[n] = q[n]
        /\ Append(q, f)[Len(q) + 1] = f
    OBVIOUS
  <1>2. Len(q) + 1 \in 1..(Len(q) + 1)
    BY <1>1
  <1>3. \A n \in 1..(Len(q) + 1) : n \in 1..Len(q) \/ n = Len(q) + 1
    BY <1>1
  <1>4. \A n \in 1..Len(q) : n \in 1..(Len(q) + 1)
    BY <1>1
  <1> QED BY <1>1, <1>2, <1>3, <1>4 DEF In

LEMMA FetchInternalFollows ==
  ASSUME FollowInv, FetchInternal, NEW i \in Ifaces
  PROVE  IfaceOK(i)' /\ WaitOK'
  <1>0. IInv /\ WaitOK /\ IfaceOK(i) /\ internal \in Seq(InternalEvents) /\ internal # <<>>
    BY DEF FollowInv, IInv, TypeOK, FetchInternal
  <1>1. /\ UNCHANGED <<link, addr, news, xml, edited, external, listeners, inst, if_cat>>
        /\ thread = "fetch" /\ thread' = "walk" /\ at' = First
        /\ msg' = Head(internal) /\ internal' = Tail(internal)
    BY DEF FetchInternal, kernel, objects
  <1>2. msg' \in InternalEvents
    BY <1>0, <1>1
  <1>3. ~LinkDue(i)' /\ ~LinkDue(i) /\ Line(i) = external /\ Line(i)' = external
    <2>1. ~IsLink(msg', i)
      BY <1>2, EventKinds DEF InternalEvents, Ifaces
    <2> QED BY <1>0, <1>1, <2>1, NotDue, LinkDueNext DEF Line
  <1>4. /\ Leaving(i)' <=> Leaving(i)
        /\ Stands(i)' <=> Stands(i)
        /\ SameObject(i) /\ (Edited(i)' <=> Edited(i))
    BY <1>1 DEF Leaving, Stands, SameObject, Edited
  <1>5. LineOK(i)'
    BY <1>0, <1>1, <1>3, <1>4, LineKept DEF IfaceOK
  <1>6. In(DeleteSelf(i), internal)
          <=> msg' = DeleteSelf(i) \/ In(DeleteSelf(i), internal')
    BY <1>0, <1>1, InTail
  <1>7. LeavingOK(i)'
    <2>1. ASSUME Leaving(i)
          PROVE  /\ inst[i].class \in LanClasses
                 /\ In(DeleteSelf(i), internal)' \/ Due(DeleteSelf(i), i)'
      <3>1. inst[i].class \in LanClasses /\ In(DeleteSelf(i), internal)
        BY <1>0, <1>1, <2>1 DEF IfaceOK, LeavingOK, Due
      <3>2. /\ Listening(i)
            /\ \E k \in 1..Len(EventsOf(i)) : EventsOf(i)[k] = "LAN_DELETE_SELF"
        BY <1>0, <2>1, <3>1, Registered DEF Leaving
      <3>3. Ahead(i, "LAN_DELETE_SELF")'
        BY <1>0, <1>1, <3>2, FirstAhead
      <3>4. msg' = DeleteSelf(i) => Due(DeleteSelf(i), i)'
        BY <1>1, <3>3, EventParts DEF Due, DeleteSelf
      <3> QED BY <1>6, <3>1, <3>4 DEF In
    <2>2. Stands(i) => ~In(DeleteSelf(i), internal)
      BY <1>0 DEF IfaceOK, LeavingOK
    <2>3. In(DeleteSelf(i), internal)' <=> In(DeleteSelf(i), internal')
      BY DEF In, DeleteSelf, Event
    <2> QED BY <1>1, <1>3, <1>4, <1>6, <2>1, <2>2, <2>3 DEF LeavingOK
  <1>8. CategoryOK(i)'
    BY <1>0, <1>1, <1>4 DEF IfaceOK, CategoryOK
  <1>9. AddrOK(i)'
    BY <1>0, <1>1, <1>4 DEF IfaceOK, AddrOK, Due, In
  <1> QED BY <1>1, <1>5, <1>7, <1>8, <1>9 DEF IfaceOK, WaitOK

LEMMA FetchExternalFollows ==
  ASSUME FollowInv, FetchExternal, NEW i \in Ifaces
  PROVE  IfaceOK(i)' /\ WaitOK'
  <1> DEFINE m == Head(external)
             q == Tail(external)
  <1>0. IInv /\ WaitOK /\ IfaceOK(i) /\ external \in Seq(ExternalEvents) /\ external # <<>>
    BY DEF FollowInv, IInv, TypeOK, FetchExternal
  <1>1. /\ UNCHANGED <<link, addr, news, xml, edited, internal, listeners, inst, if_cat>>
        /\ thread = "fetch" /\ thread' = "walk" /\ at' = First
        /\ msg' = m /\ external' = q /\ internal = <<>>
    BY DEF FetchExternal, kernel, objects
  <1>2. /\ m \in ExternalEvents /\ q \in Seq(ExternalEvents) /\ external = <<m>> \o q
    BY <1>0, HeadTailIs
  <1>3. ~LinkDue(i) /\ Line(i) = <<m>> \o q
    BY <1>0, <1>1, <1>2, NotDue
  <1>4. /\ Leaving(i)' <=> Leaving(i)
        /\ Stands(i)' <=> Stands(i)
        /\ SameObject(i) /\ (Edited(i)' <=> Edited(i))
    BY <1>1 DEF Leaving, Stands, SameObject, Edited
  <1> HIDE DEF m, q
  <1>5. ~Leaving(i)
    BY <1>0, <1>1 DEF IfaceOK, LeavingOK, Due, In
  <1>6. /\ \A t : Due(Event(t, i), Manager)' <=> m = Event(t, i) /\ Ahead(Manager, t)'
        /\ \A t : Due(Event(t, i), i)' <=> m = Event(t, i) /\ Ahead(i, t)'
    BY <1>1, EventParts DEF Due
  <1>7. LinkDue(i)' <=> IsUp(m, i) \/ (IsDown(m, i) /\ inst[i] # Nil)
    <2>1. ASSUME IsUp(m, i) PROVE UpDue(i)'
      <3>1. PICK t \in UpTypes(i) : m = Event(t, i)
        BY <1>2, <2>1, LinkKinds DEF IsUp
      <3>2. Listening(Manager)
        BY <1>0, FirstOK DEF IInv, PairOK, First, ListOK
      <3>3. Ahead(Manager, t)'
        BY <1>0, <1>1, <3>1, <3>2, Registered, FirstAhead
      <3> QED BY <1>6, <3>1, <3>3 DEF UpDue, Event, UpTypes
    <2>2. ASSUME IsDown(m, i), inst[i] # Nil PROVE DownDue(i)'
      <3>1. Ahead(i, DownType(i))'
        BY <1>0, <1>1, <2>2, Registered, FirstAhead
      <3> QED BY <1>1, <1>6, <2>2, <3>1 DEF DownDue, IsDown, Event, DownType
    <2>3. UpDue(i)' => IsUp(m, i)
      BY <1>1, EventParts DEF UpDue, Due, IsUp
    <2>4. DownDue(i)' => IsDown(m, i) /\ inst[i] # Nil
      BY <1>1 DEF DownDue, Due, IsDown
    <2> QED BY <2>1, <2>2, <2>3, <2>4 DEF LinkDue
  <1>8. LineOK(i)'
    <2>1. CASE LinkDue(i)'
      <3>1. Line(i)' = Line(i)
        BY <1>1, <1>3, <2>1 DEF Line
      <3> QED BY <1>0, <1>1, <1>4, <3>1, LineKept DEF IfaceOK
    <2>2. CASE ~LinkDue(i)'
      <3>1. Line(i)' = q
        BY <1>1, <2>2 DEF Line
      <3>2. /\ Latest(<<m>> \o q, i, link[i], Excepted(i)) /\ Alternate(<<m>> \o q, i)
            /\ Stands(i) => Agrees(<<m>> \o q, i, inst[i].class)
            /\ Clean(<<m>> \o q, i) => Settled(i)
        BY <1>0, <1>3 DEF IfaceOK, LineOK
      <3>3. link[i] \in UpTypes(i) \cup {DownType(i)}
        BY <1>0 DEF IInv, TypeOK
      <3>4. ~IsUp(m, i) /\ (IsDown(m, i) => inst[i] = Nil)
        BY <1>7, <2>2
      <3>5. /\ Latest(q, i, link[i], Excepted(i)) /\ Alternate(q, i)
            /\ ~IsLink(m, i) /\ Clean(q, i) => Settled(i)
            /\ IsLink(m, i) /\ Clean(q, i) => Excepted(i) \/ m.type = link[i]
        <4>1. Latest(q, i, link[i], Excepted(i)) /\ Alternate(q, i)
          BY <1>2, <3>2, <3>3, TailOK
        <4>2. ~IsLink(m, i) /\ Clean(q, i) => Clean(<<m>> \o q, i)
          BY <1>2, <3>3, TailOK
        <4>3. IsLink(m, i) /\ Clean(q, i) => Excepted(i) \/ m.type = link[i]
          <5>1. SUFFICES ASSUME IsLink(m, i), Clean(q, i), ~Excepted(i)
                         PROVE  m.type = link[i]
            OBVIOUS
          <5>2. Latest(<<m>> \o q, i, link[i], FALSE)
            BY <3>2, <5>1 DEF Latest
          <5>3. m \in ExternalEvents /\ q \in Seq(ExternalEvents)
            BY <1>2
          <5> HIDE DEF m, q
          <5>4. FALSE \/ m.type = link[i]
            BY <3>3, <5>1, <5>2, <5>3, HeadLatest
          <5> QED BY <5>4
        <4> QED BY <3>2, <4>1, <4>2, <4>3
      <3>6. Stands(i) => Agrees(q, i, inst[i].class)
        BY <1>2, <3>2, <3>3, <3>4, TailOK DEF Stands
      <3>7. Clean(q, i) => Settled(i)
        <4>1. IsLink(m, i) => IsDown(m, i) /\ m.type = DownType(i)
          BY <1>2, <3>4, LinkKinds, EventParts DEF IsDown
        <4>2. IsLink(m, i) /\ Clean(q, i) => link[i] = DownType(i)
          BY <3>5, <4>1 DEF Excepted
        <4>3. IsLink(m, i) => ~Stands(i)
          BY <3>4, <4>1 DEF Stands
        <4> QED BY <1>5, <3>5, <4>2, <4>3 DEF Settled
      <3>8. Settled(i) => Settled(i)'
        BY <1>1, <1>4 DEF Settled
      <3>9. Excepted(i)' = Excepted(i)
        BY <1>1 DEF Excepted, Edited
      <3> QED BY <1>1, <1>4, <3>1, <3>5, <3>6, <3>7, <3>8, <3>9 DEF LineOK
    <2> QED BY <2>1, <2>2
  <1>9. LeavingOK(i)'
    <2>1. m # DeleteSelf(i)
      BY <1>2, SelfIsNoOther
    <2> QED BY <1>0, <1>1, <1>4, <1>5, <2>1 DEF LeavingOK, In
  <1>10. CategoryOK(i)'
    BY <1>0, <1>1, <1>4 DEF IfaceOK, CategoryOK
  <1>11. AddrOK(i)'
    <2>1. In(Event("ADDR_ADD", i), external)
            <=> m = Event("ADDR_ADD", i) \/ In(Event("ADDR_ADD", i), q)
      BY <1>0, InTail DEF m, q
    <2>2. inst[i] # Nil => Ahead(i, "ADDR_ADD")'
      BY <1>0, <1>1, Registered, FirstAhead
    <2>3. inst[i] # Nil /\ m = Event("ADDR_ADD", i) => Due(Event("ADDR_ADD", i), i)'
      BY <1>6, <2>2 DEF Event
    <2> QED BY <1>0, <1>1, <1>4, <2>1, <2>3 DEF IfaceOK, AddrOK, Due, Stands, In
  <1> QED BY <1>1, <1>8, <1>9, <1>10, <1>11 DEF IfaceOK, WaitOK

LEMMA RestFollows ==
  ASSUME FollowInv, Wait \/ EndWalk, NEW i \in Ifaces
  PROVE  IfaceOK(i)' /\ WaitOK'
  <1>0. IInv /\ WaitOK /\ IfaceOK(i)
    BY DEF FollowInv
  <1>1. /\ UNCHANGED <<link, addr, news, xml, edited, external, internal, listeners,
                       inst, if_cat>>
        /\ thread # "walk" \/ at = Nil
        /\ thread' # "walk"
        /\ thread' = "wait" => external = <<>> /\ internal = <<>>
    BY DEF Wait, EndWalk, kernel, objects
  <1>2. ~LinkDue(i) /\ ~LinkDue(i)' /\ Line(i) = external /\ Line(i)' = external
    BY <1>0, <1>1, NotDue, LinkDueNext DEF Line
  <1>3. /\ Leaving(i)' <=> Leaving(i)
        /\ Stands(i)' <=> Stands(i)
        /\ SameObject(i) /\ (Edited(i)' <=> Edited(i))
    BY <1>1 DEF Leaving, Stands, SameObject, Edited
  <1>4. \A e, o : ~Due(e, o)
    BY <1>1 DEF Due, Ahead
  <1>5. LineOK(i)'
    BY <1>0, <1>1, <1>2, <1>3, LineKept DEF IfaceOK
  <1>6. LeavingOK(i)'
    BY <1>0, <1>1, <1>2, <1>3, <1>4 DEF IfaceOK, LeavingOK, In
  <1>7. CategoryOK(i)'
    BY <1>0, <1>1, <1>3 DEF IfaceOK, CategoryOK
  <1>8. AddrOK(i)'
    BY <1>0, <1>1, <1>3, <1>4 DEF IfaceOK, AddrOK, In
  <1> QED BY <1>1, <1>5, <1>6, <1>7, <1>8 DEF IfaceOK, WaitOK

\* Only the configuration event leads to a freed pair, and nothing due to an
\* interface is one.
LEMMA FreedFollows ==
  ASSUME FollowInv, ReadFreed, NEW i \in Ifaces
  PROVE  IfaceOK(i)' /\ WaitOK'
  <1>0. IInv /\ IInv' /\ IfaceOK(i)
    BY ReadFreedOK DEF FollowInv
  <1>1. /\ UNCHANGED <<link, addr, news, xml, edited, external, internal, msg, listeners,
                       inst, if_cat>>
        /\ thread' \in {"walk", "crashed"}
    BY DEF ReadFreed, kernel, objects
  <1>2. msg = CfgChange /\ msg' = CfgChange
    BY <1>0, <1>1 DEF IInv, WalkOK, PairOK, Dangling, ReadFreed
  <1>3. ~IsLink(msg, i) /\ msg' # DeleteSelf(i) /\ msg # Event("ADDR_ADD", i)
        /\ msg # DeleteSelf(i)
    BY <1>2, EventKinds, NilNoObject, EventParts DEF CfgChange, DeleteSelf
  <1>4. ~LinkDue(i) /\ ~LinkDue(i)' /\ Line(i) = external /\ Line(i)' = external
    BY <1>0, <1>1, <1>3, NotDue, LinkDueNext DEF Line
  <1>5. /\ Leaving(i)' <=> Leaving(i)
        /\ Stands(i)' <=> Stands(i)
        /\ SameObject(i) /\ (Edited(i)' <=> Edited(i))
    BY <1>1 DEF Leaving, Stands, SameObject, Edited
  <1>6. ~Due(DeleteSelf(i), i) /\ ~Due(Event("ADDR_ADD", i), i)
    BY <1>3 DEF Due
  <1>7. LineOK(i)'
    BY <1>0, <1>1, <1>4, <1>5, LineKept DEF IfaceOK
  <1>8. LeavingOK(i)'
    BY <1>0, <1>1, <1>3, <1>4, <1>5, <1>6 DEF IfaceOK, LeavingOK, In, DeleteSelf, Event
  <1>9. CategoryOK(i)'
    BY <1>0, <1>1, <1>5 DEF IfaceOK, CategoryOK
  <1>10. AddrOK(i)'
    BY <1>0, <1>1, <1>5, <1>6 DEF IfaceOK, AddrOK, In
  <1> QED BY <1>1, <1>7, <1>8, <1>9, <1>10 DEF IfaceOK, WaitOK

-----------------------------------------------------------------------------
\* The walk goes on

\* The order of the objects that stay in the list
KeepsOrder ==
  \A a, b : Listening(a) /\ Listening(b) /\ Listening(a)' /\ Listening(b)' =>
    (Before(a, b)' <=> Before(a, b))

LEMMA DeleteKeepsOrder ==
  ASSUME IInv, NEW i \in Ifaces, Listening(i), listeners' = Without(i)
  PROVE  KeepsOrder
  <1> DEFINE N == Len(listeners)
             P == Place(i)
  <1>1. /\ N \in Nat \ {0} /\ P \in 1..N /\ listeners[P] = i
        /\ \A m, n \in 1..N : listeners[m] = listeners[n] => m = n
    BY PlaceOK DEF IInv, TypeOK, ListOK
  <1>2. listeners' = [n \in 1..(N - 1) |->
                        IF n < P THEN listeners[n] ELSE listeners[n + 1]]
    BY DEF Without
  <1>3. N - 1 \in Nat /\ Len(listeners') = N - 1
    BY <1>1, <1>2
  <1> HIDE DEF N, P
  <1>4. \A n \in 1..(N - 1) : listeners'[n] # i
    <2> TAKE n \in 1..(N - 1)
    <2>1. CASE n < P
      BY <1>1, <1>2, <2>1
    <2>2. CASE ~(n < P)
      <3>1. n + 1 \in 1..N /\ n + 1 # P /\ listeners'[n] = listeners[n + 1]
        BY <1>1, <1>2, <2>2
      <3> QED BY <1>1, <3>1
    <2> QED BY <2>1, <2>2
  <1>5. \A n \in 1..N : n # P =>
          \E k \in 1..(N - 1) : /\ k = (IF n < P THEN n ELSE n - 1)
                                /\ listeners'[k] = listeners[n]
    <2> SUFFICES ASSUME NEW n \in 1..N, n # P
                 PROVE  \E k \in 1..(N - 1) : /\ k = (IF n < P THEN n ELSE n - 1)
                                              /\ listeners'[k] = listeners[n]
      OBVIOUS
    <2>1. CASE n < P
      BY <1>1, <1>2, <2>1
    <2>2. CASE ~(n < P)
      <3>1. n - 1 \in 1..(N - 1) /\ ~(n - 1 < P) /\ (n - 1) + 1 = n
        BY <1>1, <2>2
      <3>2. listeners'[n - 1] = listeners[n]
        BY <1>2, <3>1
      <3> QED BY <2>2, <3>1, <3>2
    <2> QED BY <2>1, <2>2
  <1>6. \A n \in 1..(N - 1) :
          \E k \in 1..N : /\ k = (IF n < P THEN n ELSE n + 1)
                          /\ listeners'[n] = listeners[k]
    BY <1>1, <1>2
  <1>7. ASSUME NEW a, NEW b, a # i, b # i, Before(a, b) PROVE Before(a, b)'
    <2>1. PICK m \in 1..N, n \in 1..N : m < n /\ listeners[m] = a /\ listeners[n] = b
      BY <1>7 DEF Before, N
    <2>2. m # P /\ n # P
      BY <1>1, <1>7, <2>1
    <2>3. PICK k \in 1..(N - 1) : k = (IF m < P THEN m ELSE m - 1) /\ listeners'[k] = a
      BY <1>5, <2>1, <2>2
    <2>4. PICK l \in 1..(N - 1) : l = (IF n < P THEN n ELSE n - 1) /\ listeners'[l] = b
      BY <1>5, <2>1, <2>2
    <2>5. k < l
      BY <1>1, <2>1, <2>2, <2>3, <2>4
    <2> QED BY <1>3, <2>3, <2>4, <2>5 DEF Before
  <1>8. ASSUME NEW a, NEW b, Before(a, b)' PROVE Before(a, b)
    <2>1. PICK m \in 1..(N - 1), n \in 1..(N - 1) :
            m < n /\ listeners'[m] = a /\ listeners'[n] = b
      BY <1>3, <1>8 DEF Before
    <2>2. PICK k \in 1..N : k = (IF m < P THEN m ELSE m + 1) /\ listeners[k] = a
      BY <1>6, <2>1
    <2>3. PICK l \in 1..N : l = (IF n < P THEN n ELSE n + 1) /\ listeners[l] = b
      BY <1>6, <2>1
    <2>4. k < l
      BY <1>1, <2>1, <2>2, <2>3
    <2> QED BY <2>2, <2>3, <2>4 DEF Before, N
  <1>9. ~Listening(i)'
    BY <1>3, <1>4 DEF Listening
  <1> QED BY <1>7, <1>8, <1>9 DEF KeepsOrder

LEMMA CreateKeepsOrder ==
  ASSUME IInv, NEW i \in Ifaces, ~Listening(i), listeners' = Append(listeners, i)
  PROVE  KeepsOrder
  <1> DEFINE N == Len(listeners)
  <1>1. /\ N \in Nat /\ Len(listeners') = N + 1 /\ listeners'[N + 1] = i
        /\ \A n \in 1..N : listeners'[n] = listeners[n]
    BY DEF IInv, TypeOK
  <1> HIDE DEF N
  <1>2. \A n \in 1..N : listeners[n] # i
    BY DEF Listening, N
  <1>3. ASSUME NEW a, NEW b, Before(a, b) PROVE Before(a, b)'
    <2>1. PICK m \in 1..N, n \in 1..N : m < n /\ listeners[m] = a /\ listeners[n] = b
      BY <1>3 DEF Before, N
    <2> QED BY <1>1, <2>1 DEF Before
  <1>4. ASSUME NEW a, NEW b, a # i, b # i, Before(a, b)' PROVE Before(a, b)
    <2>1. PICK m \in 1..(N + 1), n \in 1..(N + 1) :
            m < n /\ listeners'[m] = a /\ listeners'[n] = b
      BY <1>1, <1>4 DEF Before
    <2>2. m \in 1..N /\ n \in 1..N
      BY <1>1, <1>4, <2>1
    <2> QED BY <1>1, <2>1, <2>2 DEF Before, N
  <1> QED BY <1>3, <1>4 DEF KeepsOrder

\* An object registers an event once.
LEMMA Distinct ==
  ASSUME IInv, NEW o \in Ifaces \cup {Manager}, Listening(o)
  PROVE  \A j, k \in 1..Len(EventsOf(o)) : EventsOf(o)[j] = EventsOf(o)[k] => j = k
  <1>1. CASE o = Manager
    <2>1. EventsOf(o) = <<"CFG_CHANGE", "LINK_UP", "WLAN_AP_LINK_UP",
                          "WLAN_STA_LINK_UP", "USB_LINK_UP">>
      BY <1>1 DEF EventsOf, ManagerOrder
    <2> QED BY <2>1
  <1>2. CASE o # Manager
    <2>1. inst[o] # Nil /\ Kind(o, inst[o])
      BY <1>2 DEF IInv, ListOK
    <2>2. EventsOf(o) = Order(inst[o].class) /\ inst[o].class \in LanClasses \cup WanClasses
      BY <1>2, <2>1 DEF EventsOf, Kind, LanKinds, LanClasses, WanClasses
    <2>3. EventsOf(o) \in {LanOrder, EthOrder, WlanOrder, WanOrder, StaOrder}
      BY <2>2 DEF Order, LanClasses, WanClasses
    <2> QED BY <2>3 DEF LanOrder, EthOrder, WlanOrder, WanOrder, StaOrder
  <1> QED BY <1>1, <1>2

\* The pairs after the one visited
LEMMA AfterBefore ==
  ASSUME IInv, NEW w, Listening(w), NEW o
  PROVE  /\ ~Before(w, w)
         /\ AfterOwner(w) = Nil => ~Before(w, o)
         /\ AfterOwner(w) # Nil =>
              /\ Before(w, o) <=> AfterOwner(w).owner = o \/ Before(AfterOwner(w).owner, o)
              /\ ~Before(AfterOwner(w).owner, w)
              /\ AfterOwner(w).k = 1
  <1> DEFINE N == Len(listeners)
             P == Place(w)
             n == listeners[P + 1]
  <1>1. /\ N \in Nat \ {0} /\ P \in 1..N /\ listeners[P] = w
        /\ \A a, b \in 1..N : listeners[a] = listeners[b] => a = b
        /\ listeners \in Seq(Ifaces \cup {Manager})
    BY PlaceOK DEF IInv, TypeOK, ListOK
  <1>2. AfterOwner(w) = IF P = N THEN Nil ELSE [owner |-> n, k |-> 1]
    BY DEF AfterOwner
  <1>3. P # N => [owner |-> n, k |-> 1] # Nil
    <2>1. P # N => n \in Ifaces \cup {Manager}
      BY <1>1
    <2>2. P # N => [owner |-> n, k |-> 1] \in [owner : Ifaces \cup {Manager}, k : Nat \ {0}]
      BY <2>1
    <2> QED BY <2>2, NilNoPair
  <1> HIDE DEF P
  <1>4. ASSUME NEW a, NEW b
        PROVE  Before(a, b) <=> \E j, k \in 1..N : j < k /\ listeners[j] = a /\ listeners[k] = b
    BY DEF Before
  <1> HIDE DEF N, n
  <1>5. ~Before(w, w)
    BY <1>1, <1>4
  <1>6. P = N => ~Before(w, o)
    BY <1>1, <1>4
  <1>7. ASSUME P # N
        PROVE  /\ Before(w, o) <=> n = o \/ Before(n, o)
               /\ ~Before(n, w)
    <2>1. P + 1 \in 1..N /\ listeners[P + 1] = n
      BY <1>1, <1>7 DEF n
    <2>2. ASSUME Before(w, o), n # o PROVE Before(n, o)
      <3>1. PICK j \in 1..N, k \in 1..N : j < k /\ listeners[j] = w /\ listeners[k] = o
        BY <1>4, <2>2
      <3>2. j = P /\ k # P + 1
        BY <1>1, <2>1, <2>2, <3>1
      <3>3. P + 1 < k
        BY <1>1, <3>1, <3>2
      <3> QED BY <1>4, <2>1, <3>1, <3>3
    <2>3. ASSUME n = o PROVE Before(w, o)
      <3>1. P < P + 1
        BY <1>1
      <3> QED BY <1>1, <1>4, <2>1, <2>3, <3>1
    <2>4. ASSUME Before(n, o) PROVE Before(w, o)
      <3>1. PICK j \in 1..N, k \in 1..N : j < k /\ listeners[j] = n /\ listeners[k] = o
        BY <1>4, <2>4
      <3>2. j = P + 1
        BY <1>1, <2>1, <3>1
      <3>3. P < k
        BY <1>1, <3>1, <3>2
      <3> QED BY <1>1, <1>4, <3>1, <3>3
    <2>5. ASSUME Before(n, w) PROVE FALSE
      <3>1. PICK j \in 1..N, k \in 1..N : j < k /\ listeners[j] = n /\ listeners[k] = w
        BY <1>4, <2>5
      <3>2. j = P + 1 /\ k = P
        BY <1>1, <2>1, <3>1
      <3> QED BY <1>1, <3>1, <3>2
    <2> QED BY <2>2, <2>3, <2>4, <2>5
  <1>8. P # N => AfterOwner(w).owner = n /\ AfterOwner(w).k = 1 /\ AfterOwner(w) # Nil
    BY <1>2, <1>3
  <1>9. P = N => AfterOwner(w) = Nil
    BY <1>2
  <1> QED BY <1>5, <1>6, <1>7, <1>8, <1>9

\* A visit takes one pair of those ahead.
LEMMA AheadNext ==
  ASSUME IInv, IInv', at # Nil, PairOK(at), at' = NextPair(at), thread' = "walk", KeepsOrder,
         NEW w, w = at.owner, Listening(w)' \/ at.k = Len(EventsOf(w)),
         at' # Nil => PairOK(at)',
         NEW o \in Ifaces \cup {Manager}, Listening(o), Listening(o)',
         EventsOf(o)' = EventsOf(o), NEW t
  PROVE  Ahead(o, t)' <=> Ahead(o, t) /\ ~(at.owner = o /\ EventsOf(o)[at.k] = t)
  <1> DEFINE E == EventsOf(o)
  <1>0. PICK p : p = at.k
    OBVIOUS
  <1>1. /\ at \in [owner : Ifaces \cup {Manager}, k : Nat \ {0}] /\ p \in Nat \ {0}
        /\ w \in Ifaces \cup {Manager} /\ Listening(w) /\ p <= Len(EventsOf(w))
    BY <1>0 DEF PairOK
  <1>2. \A j, k \in 1..Len(E) : E[j] = E[k] => j = k
    BY Distinct
  <1>3. Ahead(o, t) <=> \E k \in 1..Len(E) : E[k] = t /\ ((w = o /\ p <= k) \/ Before(w, o))
    BY <1>0 DEF Ahead
  <1>4. /\ ~Before(w, w)
        /\ AfterOwner(w) = Nil => ~Before(w, o)
        /\ AfterOwner(w) # Nil =>
             /\ Before(w, o) <=> AfterOwner(w).owner = o \/ Before(AfterOwner(w).owner, o)
             /\ ~Before(AfterOwner(w).owner, w)
             /\ AfterOwner(w).k = 1
    BY <1>1, AfterBefore
  <1>5. PICK v : v = at'.owner
    OBVIOUS
  <1>6. PICK n : n = at'.k
    OBVIOUS
  <1>7. Ahead(o, t)' <=> /\ at' # Nil
                         /\ \E k \in 1..Len(E) : E[k] = t /\ ((v = o /\ n <= k) \/ Before(v, o)')
    BY <1>5, <1>6 DEF Ahead, Before
  <1>8. at' # Nil => Listening(v)'
    BY <1>5 DEF PairOK, Listening
  <1>11. Len(E) \in Nat
    BY OrdersOK DEF IInv, ListOK
  <1> HIDE DEF E
  <1>9. CASE p < Len(EventsOf(w))
    <2>1. at' = [at EXCEPT !.k = @ + 1] /\ at' # Nil /\ v = w /\ n = p + 1
      <3>1. at' = [at EXCEPT !.k = @ + 1]
        BY <1>0, <1>9 DEF NextPair
      <3>2. at' \in [owner : Ifaces \cup {Manager}, k : Nat \ {0}]
        BY <1>1, <3>1
      <3> QED BY <1>1, <1>5, <1>6, <1>0, <3>1, <3>2, NilNoPair
    <2>2. Before(v, o)' <=> Before(w, o)
      <3>1. Listening(w)'
        BY <1>8, <2>1
      <3> QED BY <1>1, <2>1, <3>1 DEF KeepsOrder
    <2>3. CASE w = o
      <3>1. Ahead(o, t)' <=> \E k \in 1..Len(E) : E[k] = t /\ p + 1 <= k
        BY <1>4, <1>7, <2>1, <2>2, <2>3
      <3>2. Ahead(o, t) <=> \E k \in 1..Len(E) : E[k] = t /\ p <= k
        BY <1>3, <1>4, <2>3
      <3>3. p \in 1..Len(E)
        BY <1>1, <1>9, <1>11, <2>3 DEF E
      <3>4. \A k \in 1..Len(E) : p + 1 <= k <=> p <= k /\ k # p
        BY <1>1, <1>11
      <3>5. at.owner = o /\ (EventsOf(o)[at.k] = t <=> E[p] = t)
        BY <1>0, <2>3 DEF E
      <3> QED BY <1>2, <3>1, <3>2, <3>3, <3>4, <3>5
    <2>4. CASE w # o
      <3>1. at.owner # o
        BY <2>4
      <3>2. Ahead(o, t)' <=> Ahead(o, t)
        BY <1>3, <1>7, <2>1, <2>2, <2>4
      <3> QED BY <3>1, <3>2
    <2> QED BY <2>3, <2>4
  <1>10. CASE ~(p < Len(EventsOf(w)))
    <2>1. at' = AfterOwner(w)
      BY <1>0, <1>10 DEF NextPair
    <2>2. at' # Nil => (v # o /\ Listening(v) => (Before(v, o)' <=> Before(v, o)))
      BY <1>8 DEF KeepsOrder
    <2>3. at' # Nil => Listening(v)
      BY <1>1, <1>5, <2>1, AfterOwnerOK DEF IInv, PairOK
    <2>4. CASE w = o
      <3>1. ~Ahead(o, t)'
        <4>1. at' # Nil => v # o /\ ~Before(v, o)
          <5> SUFFICES ASSUME at' # Nil PROVE v # o /\ ~Before(v, o)
            OBVIOUS
          <5>1. v # o
            BY <1>1, <1>5, <2>1, <2>4, AfterOwnerOK DEF IInv
          <5>2. ~Before(v, o)
            BY <1>4, <1>5, <2>1, <2>4
          <5> QED BY <5>1, <5>2
        <4> QED BY <1>7, <2>2, <2>3, <4>1
      <3>2. Ahead(o, t) => E[p] = t
        <4>1. \A k \in 1..Len(E) : p <= k => k = p
          <5>1. p = Len(E)
            <6>1. p <= Len(E) /\ ~(p < Len(E))
              BY <1>1, <1>10, <2>4 DEF E
            <6> QED BY <1>1, <1>11, <6>1
          <5> QED BY <1>1, <1>11, <5>1
        <4> QED BY <1>3, <1>4, <2>4, <4>1
      <3> QED BY <2>4, <3>1, <3>2, <1>0 DEF E
    <2>5. CASE w # o
      <3>1. at.owner # o
        BY <2>5
      <3>2. Ahead(o, t)' <=> Ahead(o, t)
        <4>1. CASE at' = Nil
          BY <1>3, <1>4, <1>7, <2>1, <2>5, <4>1
        <4>2. CASE at' # Nil
          <5>1. (v = o \/ Before(v, o)) <=> Before(w, o)
            BY <1>4, <1>5, <2>1, <4>2
          <5>2. n = 1
            BY <1>4, <1>6, <2>1, <4>2
          <5>3. v # o => (Before(v, o)' <=> Before(v, o))
            BY <2>2, <2>3, <4>2
          <5>4. \A k \in 1..Len(E) : n <= k
            BY <1>11, <5>2
          <5>5. v = o => Before(w, o)
            BY <5>1
          <5> QED BY <1>3, <1>7, <2>5, <4>2, <5>1, <5>3, <5>4, <5>5
        <4> QED BY <4>1, <4>2
      <3> QED BY <3>1, <3>2
    <2> QED BY <2>4, <2>5
  <1> QED BY <1>9, <1>10

\* The visit finds the pair of an object and of the event.
Hits(o) == at.owner = o /\ EventsOf(o)[at.k] = msg.type

\* What a visit of an object that may delete itself leaves due: the pairs that
\* are ahead, or for a cradle none but those of the configuration event
VisitStep ==
  /\ IInv /\ IInv' /\ Visit /\ KeepsOrder
  /\ \E w : /\ w = at.owner
            /\ \/ CradleEnds(w)
               \/ /\ Listening(w)' \/ at.k = Len(EventsOf(w))
                  /\ at' # Nil => PairOK(at)'

LEMMA NotConfig ==
  ASSUME NEW i \in Ifaces, NEW t
  PROVE  Event(t, i) # CfgChange
  BY EventParts, NilNoObject DEF CfgChange

LEMMA VisitDue ==
  ASSUME VisitStep, NEW i \in Ifaces
  PROVE  /\ thread = "walk" /\ thread' = "walk" /\ msg' = msg
         /\ msg \in ExternalEvents \cup InternalEvents
         /\ UpDue(i)' <=> UpDue(i) /\ ~Hits(Manager)
         /\ inst[i] # Nil /\ inst'[i] # Nil /\ inst'[i].class = inst[i].class =>
              /\ \A e : e # CfgChange => (Due(e, i)' <=> Due(e, i) /\ ~Hits(i))
              /\ DownDue(i)' <=> DownDue(i) /\ ~Hits(i)
         /\ inst'[i] = Nil => ~DownDue(i)'
         /\ Hits(Manager) /\ IsUp(msg, i) => UpDue(i)
         /\ Hits(i) => Due(msg, i) /\ inst[i] # Nil
  <1>1. /\ thread = "walk" /\ thread' = "walk" /\ msg' = msg /\ at # Nil /\ at' = NextPair(at)
        /\ PairOK(at) /\ msg \in ExternalEvents \cup InternalEvents
    BY DEF VisitStep, Visit, IInv, WalkOK, Dangling, TypeOK
  <1>2. ASSUME NEW o \in Ifaces \cup {Manager}, Listening(o), Listening(o)',
               EventsOf(o)' = EventsOf(o), NEW e, e # CfgChange
        PROVE  Due(e, o)' <=> Due(e, o) /\ ~Hits(o)
    <2>0. PICK w : /\ w = at.owner
                   /\ \/ CradleEnds(w)
                      \/ /\ Listening(w)' \/ at.k = Len(EventsOf(w))
                         /\ at' # Nil => PairOK(at)'
      BY DEF VisitStep
    <2>1. CASE CradleEnds(w)
      BY <1>1, <1>2, <2>1 DEF CradleEnds, Recategorized, Due
    <2>2. CASE /\ Listening(w)' \/ at.k = Len(EventsOf(w))
               /\ at' # Nil => PairOK(at)'
      <3>1. \A t : Ahead(o, t)' <=> Ahead(o, t) /\ ~(at.owner = o /\ EventsOf(o)[at.k] = t)
        BY <1>1, <1>2, <2>0, <2>2, AheadNext DEF VisitStep
      <3> QED BY <1>1, <3>1 DEF Due, Hits
    <2> QED BY <2>0, <2>1, <2>2
  <1>3. UpDue(i)' <=> UpDue(i) /\ ~Hits(Manager)
    <2>1. Listening(Manager) /\ Listening(Manager)'
      BY FirstOK DEF VisitStep, IInv, ListOK, PairOK, First, Listening
    <2>2. EventsOf(Manager)' = EventsOf(Manager)
      BY DEF EventsOf
    <2>3. \A e : e # CfgChange => (Due(e, Manager)' <=> Due(e, Manager) /\ ~Hits(Manager))
      BY <1>2, <2>1, <2>2
    <2>4. \A t : Event(t, i) # CfgChange
      BY NotConfig
    <2> QED BY <2>3, <2>4 DEF UpDue
  <1>4. ASSUME inst[i] # Nil, inst'[i] # Nil, inst'[i].class = inst[i].class
        PROVE  /\ \A e : e # CfgChange => (Due(e, i)' <=> Due(e, i) /\ ~Hits(i))
               /\ DownDue(i)' <=> DownDue(i) /\ ~Hits(i)
    <2>1. Listening(i) /\ Listening(i)'
      BY <1>4 DEF VisitStep, IInv, ListOK
    <2>2. EventsOf(i)' = EventsOf(i)
      BY <1>4 DEF EventsOf
    <2>3. \A e : e # CfgChange => (Due(e, i)' <=> Due(e, i) /\ ~Hits(i))
      BY <1>2, <2>1, <2>2
    <2>4. Event(DownType(i), i) # CfgChange
      BY NotConfig
    <2> QED BY <1>4, <2>3, <2>4 DEF DownDue
  <1>5. at.k \in 1..Len(EventsOf(at.owner)) /\ at.owner \in Ifaces \cup {Manager}
    BY <1>1 DEF PairOK
  <1>6. ASSUME NEW o, Hits(o) PROVE Ahead(o, msg.type)
    <2>1. EventsOf(o)[at.k] = msg.type /\ at.k \in 1..Len(EventsOf(o)) /\ at.owner = o
      BY <1>5, <1>6 DEF Hits
    <2>2. at.k <= at.k
      BY <2>1
    <2> QED BY <1>1, <2>1, <2>2 DEF Ahead
  <1>7. Hits(Manager) /\ IsUp(msg, i) => UpDue(i)
    <2> SUFFICES ASSUME Hits(Manager), IsUp(msg, i) PROVE UpDue(i)
      OBVIOUS
    <2>1. Due(msg, Manager)
      BY <1>1, <1>6 DEF Due
    <2>2. msg = Event(msg.type, i) /\ msg.type \in UpTypes(i)
      BY <1>1, LinkKinds DEF IsUp
    <2> QED BY <2>1, <2>2 DEF UpDue
  <1>8. Hits(i) => Due(msg, i) /\ inst[i] # Nil
    <2> SUFFICES ASSUME Hits(i) PROVE Due(msg, i) /\ inst[i] # Nil
      OBVIOUS
    <2>1. Due(msg, i)
      BY <1>1, <1>6 DEF Due
    <2>2. Listening(i)
      BY <1>1 DEF PairOK, Hits
    <2> QED BY <2>1, <2>2 DEF VisitStep, IInv, ListOK
  <1> QED BY <1>1, <1>3, <1>4, <1>7, <1>8 DEF DownDue

-----------------------------------------------------------------------------
\* What a visit does to an interface: nothing, or one of five things

LEMMA QueueFacts ==
  ASSUME IInv, NEW i \in Ifaces
  PROVE  /\ external \in Seq(ExternalEvents) /\ internal \in Seq(InternalEvents)
         /\ link[i] \in UpTypes(i) \cup {DownType(i)}
         /\ inst[i] # Nil => inst[i] \in Objects /\ Kind(i, inst[i])
         /\ Event("ADDR_ADD", i) \in ExternalEvents
         /\ ~IsLink(Event("ADDR_ADD", i), i)
  BY TypesLemma, EventKinds DEF IInv, TypeOK, ListOK

LEMMA VisitKernel ==
  ASSUME VisitStep, NEW i
  PROVE  /\ UNCHANGED <<link, addr, news, xml>> /\ WaitOK'
         /\ (Edited(i)' <=> Edited(i)) /\ Excepted(i)' = Excepted(i)
  <1>1. UNCHANGED <<link, addr, news, xml, edited>> /\ thread' = "walk"
    BY DEF VisitStep, Visit, kernel
  <1> QED BY <1>1 DEF WaitOK, Edited, Excepted

\* A line that goes on behind the event being processed
LEMMA LineAfter ==
  ASSUME VisitStep, NEW i \in Ifaces,
         \/ external' = external
         \/ \E e \in ExternalEvents : external' = Append(external, e)
  PROVE  /\ external' = external /\ (LinkDue(i)' <=> LinkDue(i)) => Line(i)' = Line(i)
         /\ \A e \in ExternalEvents :
              external' = Append(external, e) /\ (LinkDue(i)' <=> LinkDue(i))
                => Line(i)' = Append(Line(i), e)
         /\ ~LinkDue(i)' => Line(i)' = external'
         /\ LinkDue(i) => Line(i) = <<msg>> \o external /\ msg \in ExternalEvents
  <1>1. /\ msg' = msg /\ external \in Seq(ExternalEvents)
        /\ LinkDue(i) => msg \in ExternalEvents
    BY VisitDue, DueFacts DEF VisitStep, IInv, TypeOK
  <1>2. /\ Line(i)' = IF LinkDue(i)' THEN <<msg>> \o external' ELSE external'
        /\ Line(i) = IF LinkDue(i) THEN <<msg>> \o external ELSE external
    BY <1>1 DEF Line
  <1>3. ASSUME NEW e \in ExternalEvents, external' = Append(external, e),
               LinkDue(i)' <=> LinkDue(i)
        PROVE  Line(i)' = Append(Line(i), e)
    <2>1. CASE LinkDue(i)
      <3>1. Append(<<msg>> \o external, e) = <<msg>> \o Append(external, e)
        BY <1>1, <2>1, ConsIs
      <3> QED BY <1>2, <1>3, <2>1, <3>1
    <2>2. CASE ~LinkDue(i)
      BY <1>2, <1>3, <2>2
    <2> QED BY <2>1, <2>2
  <1> QED BY <1>1, <1>2, <1>3

LEMMA Untouched ==
  ASSUME FollowInv, VisitStep, NEW i \in Ifaces, inst'[i] = inst[i], CategoryOK(i)',
         \/ internal' = internal
         \/ /\ ~IsLink(msg, i)
            /\ \E e \in InternalEvents : e # DeleteSelf(i) /\ internal' = Append(internal, e),
         \/ external' = external
         \/ \E e \in ExternalEvents : ~IsLink(e, i) /\ external' = Append(external, e),
         ~(Hits(Manager) /\ IsUp(msg, i)),
         Hits(i) /\ Stands(i) => msg # Event(DownType(i), i) /\ msg # Event("ADDR_ADD", i),
         Hits(i) => msg # DeleteSelf(i)
  PROVE  IfaceOK(i)'
  <1>0. IInv /\ IInv' /\ IfaceOK(i)
    BY DEF FollowInv, VisitStep
  <1>1. /\ UNCHANGED <<link, addr, news, xml>>
        /\ (Edited(i)' <=> Edited(i)) /\ Excepted(i)' = Excepted(i)
    BY VisitKernel
  <1>2. /\ (Leaving(i)' <=> Leaving(i)) /\ (Stands(i)' <=> Stands(i)) /\ SameObject(i)
    BY DEF Leaving, Stands, SameObject
  <1>3. /\ thread = "walk" /\ thread' = "walk" /\ msg' = msg
        /\ UpDue(i)' <=> UpDue(i) /\ ~Hits(Manager)
        /\ inst[i] # Nil => \A e : e # CfgChange => (Due(e, i)' <=> Due(e, i) /\ ~Hits(i))
        /\ inst[i] # Nil => (DownDue(i)' <=> DownDue(i) /\ ~Hits(i))
        /\ inst'[i] = Nil => ~DownDue(i)'
    BY VisitDue
  <1>4. external \in Seq(ExternalEvents) /\ internal \in Seq(InternalEvents)
    BY <1>0, QueueFacts
  <1>5. UpDue(i) => IsUp(msg, i)
    BY <1>0, DueFacts
  <1>6. DownDue(i) => msg = Event(DownType(i), i) /\ Stands(i)
    <2>1. DownDue(i) => msg = Event(DownType(i), i) /\ inst[i] # Nil
      BY DEF DownDue, Due
    <2>2. DownDue(i) => ~Leaving(i)
      <3> SUFFICES ASSUME DownDue(i), Leaving(i) PROVE FALSE
        OBVIOUS
      <3>1. internal = <<>>
        BY <1>0 DEF IfaceOK, LeavingOK, LinkDue
      <3>2. msg = DeleteSelf(i)
        BY <1>0, <3>1 DEF IfaceOK, LeavingOK, In, Due
      <3>3. DownType(i) = "LAN_DELETE_SELF"
        BY <2>1, <3>2, EventParts DEF DeleteSelf
      <3> QED BY <3>3, IfaceTypes
    <2> QED BY <2>1, <2>2 DEF Stands, Leaving
  <1>7. LinkDue(i)' <=> LinkDue(i)
    <2>1. UpDue(i)' <=> UpDue(i)
      BY <1>3, <1>5
    <2>2. DownDue(i)' <=> DownDue(i)
      <3>1. CASE inst[i] = Nil
        BY <1>3, <3>1 DEF DownDue
      <3>2. CASE inst[i] # Nil
        BY <1>3, <1>6, <3>2
      <3> QED BY <3>1, <3>2
    <2> QED BY <2>1, <2>2 DEF LinkDue
  <1>8. LineOK(i)'
    <2>1. \/ Line(i)' = Line(i)
          \/ \E e \in ExternalEvents : ~IsLink(e, i) /\ Line(i)' = Append(Line(i), e)
      BY <1>7, LineAfter
    <2> QED BY <1>0, <1>1, <1>2, <2>1, LineKept DEF IfaceOK
  <1>9. LeavingOK(i)'
    <2>1. In(DeleteSelf(i), internal') <=> In(DeleteSelf(i), internal)
      <3>1. ASSUME NEW e \in InternalEvents, e # DeleteSelf(i)
            PROVE  In(DeleteSelf(i), Append(internal, e)) <=> In(DeleteSelf(i), internal)
        BY <1>4, <3>1, InAppend
      <3> QED BY <3>1
    <2>2. In(DeleteSelf(i), internal)' <=> In(DeleteSelf(i), internal')
      BY DEF In, DeleteSelf, Event
    <2>3. Leaving(i) /\ Due(DeleteSelf(i), i) => Due(DeleteSelf(i), i)'
      <3> SUFFICES ASSUME Leaving(i), Due(DeleteSelf(i), i) PROVE Due(DeleteSelf(i), i)'
        OBVIOUS
      <3>1. \A e : e # CfgChange => (Due(e, i)' <=> Due(e, i) /\ ~Hits(i))
        BY <1>3 DEF Leaving
      <3>2. ~Hits(i)
        BY DEF Due
      <3>3. PICK e : e = DeleteSelf(i) /\ e # CfgChange
        BY NotConfig DEF DeleteSelf
      <3>4. DeleteSelf(i)' = e
        BY <3>3 DEF DeleteSelf, Event
      <3>5. Due(e, i)'
        BY <3>1, <3>2, <3>3
      <3> QED BY <3>3, <3>4, <3>5 DEF DeleteSelf, Event
    <2>4. LinkDue(i) => internal' = <<>>
      BY <1>0, DueFacts DEF IfaceOK, LeavingOK
    <2> QED BY <1>0, <1>2, <1>3, <1>7, <2>1, <2>2, <2>3, <2>4 DEF IfaceOK, LeavingOK
  <1>10. AddrOK(i)'
    <2>1. In(Event("ADDR_ADD", i), external) => In(Event("ADDR_ADD", i), external')
      <3>1. ASSUME NEW e \in ExternalEvents
            PROVE  In(Event("ADDR_ADD", i), external)
                     => In(Event("ADDR_ADD", i), Append(external, e))
        BY <1>4, InAppend
      <3> QED BY <3>1
    <2>2. In(Event("ADDR_ADD", i), external)' <=> In(Event("ADDR_ADD", i), external')
      BY DEF In, Event
    <2>3. Stands(i) /\ Due(Event("ADDR_ADD", i), i) => Due(Event("ADDR_ADD", i), i)'
      <3> SUFFICES ASSUME Stands(i), Due(Event("ADDR_ADD", i), i)
                   PROVE  Due(Event("ADDR_ADD", i), i)'
        OBVIOUS
      <3>1. \A e : e # CfgChange => (Due(e, i)' <=> Due(e, i) /\ ~Hits(i))
        BY <1>3 DEF Stands
      <3>2. ~Hits(i) /\ Event("ADDR_ADD", i) # CfgChange
        BY NotConfig DEF Due
      <3> QED BY <3>1, <3>2 DEF Event
    <2> QED BY <1>0, <1>1, <1>2, <2>1, <2>2, <2>3 DEF IfaceOK, AddrOK
  <1> QED BY <1>8, <1>9, <1>10 DEF IfaceOK

LEMMA SelfIn ==
  ASSUME NEW i \in Lans \cup Wlans, internal \in Seq(InternalEvents),
         internal' = Append(internal, DeleteSelf(i))
  PROVE  In(DeleteSelf(i), internal)'
  <1>1. DeleteSelf(i) \in InternalEvents
    BY DEF DeleteSelf, InternalEvents
  <1>2. In(DeleteSelf(i), internal')
    BY <1>1, InAppend
  <1> QED BY <1>2 DEF In, DeleteSelf, Event

\* The manager handles a link-up event: there is an object of its class, or it
\* makes one.
LEMMA UpHandled ==
  ASSUME FollowInv, VisitStep, NEW i \in Ifaces, Hits(Manager), IsUp(msg, i),
         internal' = internal, CategoryOK(i)',
         \/ inst[i] # Nil /\ inst'[i] = inst[i] /\ external' = external
         \/ /\ inst[i] = Nil /\ inst'[i] # Nil /\ inst'[i].is_active
            /\ inst'[i].class \in ClassFor(msg.type)
            /\ external' = external \o AddrQuery(i)
  PROVE  IfaceOK(i)'
  <1>0. IInv /\ IInv' /\ IfaceOK(i)
    BY DEF FollowInv, VisitStep
  <1>1. /\ UNCHANGED <<link, addr, news, xml>>
        /\ (Edited(i)' <=> Edited(i)) /\ Excepted(i)' = Excepted(i)
    BY VisitKernel
  <1>2. /\ thread = "walk" /\ thread' = "walk" /\ msg' = msg /\ msg \in ExternalEvents
        /\ UpDue(i) /\ ~UpDue(i)' /\ LinkDue(i)
    BY <1>0, VisitDue, DueFacts DEF LinkDue
  <1>3. /\ external \in Seq(ExternalEvents) /\ Event("ADDR_ADD", i) \in ExternalEvents
        /\ link[i] \in UpTypes(i) \cup {DownType(i)}
        /\ ~IsLink(Event("ADDR_ADD", i), i)
    BY <1>0, QueueFacts
  <1>4. internal = <<>> /\ ~IsDown(msg, i) /\ IsLink(msg, i) /\ msg.type # DownType(i)
    <2>1. ~IsDown(msg, i) /\ IsLink(msg, i)
      BY <1>2, LinkKinds
    <2>2. msg.type # DownType(i)
      BY IfaceTypes DEF IsUp
    <2> QED BY <1>0, <1>2, <2>1, <2>2 DEF IfaceOK, LeavingOK
  <1>5. msg # DeleteSelf(i) /\ msg # Event("ADDR_ADD", i)
    BY <1>2, <1>3, <1>4, SelfIsNoOther
  <1>6. ~Leaving(i)
    BY <1>0, <1>4, <1>5 DEF IfaceOK, LeavingOK, In, Due
  <1>7. inst'[i] # Nil /\ Stands(i)' /\ ~Leaving(i)'
    BY <1>6 DEF Stands, Leaving
  <1>8. ~LinkDue(i)'
    <2>1. ~DownDue(i)'
      BY <1>2, <1>4 DEF DownDue, Due, IsDown, Event, DownType
    <2> QED BY <1>2, <2>1 DEF LinkDue
  <1>9. /\ i \in addr /\ inst[i] = Nil => external' = Append(external, Event("ADDR_ADD", i))
        /\ ~(i \in addr /\ inst[i] = Nil) => external' = external
    BY <1>3 DEF AddrQuery
  <1>10. Line(i) = <<msg>> \o external /\ Line(i)' = external'
    BY <1>2, <1>3, <1>8, <1>9, LineAfter
  <1>11. /\ Latest(<<msg>> \o external, i, link[i], Excepted(i))
         /\ Alternate(<<msg>> \o external, i)
         /\ Stands(i) => Agrees(<<msg>> \o external, i, inst[i].class)
    BY <1>0, <1>10 DEF IfaceOK, LineOK
  <1>12. /\ Latest(external, i, link[i], Excepted(i)) /\ Alternate(external, i)
         /\ Clean(external, i) => Excepted(i) \/ msg.type = link[i]
    <2>1. Latest(external, i, link[i], Excepted(i)) /\ Alternate(external, i)
      BY <1>2, <1>3, <1>11, TailOK
    <2>2. Clean(external, i) => Excepted(i) \/ msg.type = link[i]
      BY <1>2, <1>3, <1>4, <1>11, HeadLatest
    <2> QED BY <2>1, <2>2
  <1>13. inst'[i].class \in ClassFor(msg.type) /\ Agrees(external, i, inst'[i].class)
    <2>1. CASE inst[i] = Nil
      <3>1. \A class \in ClassFor(msg.type) : Agrees(external, i, class)
        BY <1>2, <1>3, <1>11, TailOK
      <3> QED BY <2>1, <3>1
    <2>2. CASE inst[i] # Nil
      <3>1. Agrees(<<msg>> \o external, i, inst[i].class)
        BY <1>6, <1>11, <2>2 DEF Stands, Leaving
      <3>2. inst[i].class \in ClassFor(msg.type)
        BY <1>2, <1>3, <3>1, HeadAgrees
      <3>3. Agrees(external, i, inst[i].class)
        BY <1>2, <1>3, <1>4, <3>1, TailOK
      <3> QED BY <2>2, <3>2, <3>3
    <2> QED BY <2>1, <2>2
  <1>14. /\ Latest(external', i, link[i], Excepted(i)) /\ Alternate(external', i)
         /\ Agrees(external', i, inst'[i].class)
         /\ Clean(external', i) => Clean(external, i)
    <2>1. CASE external' = external
      BY <1>12, <1>13, <2>1
    <2>2. CASE external' = Append(external, Event("ADDR_ADD", i))
      <3>1. PICK q : q = Append(external, Event("ADDR_ADD", i))
        OBVIOUS
      <3>2. Latest(q, i, link[i], Excepted(i)) /\ Alternate(q, i)
        BY <1>3, <1>12, <3>1, AppendOther
      <3>3. Agrees(q, i, inst'[i].class)
        BY <1>3, <1>13, <3>1, AppendOther
      <3>4. Clean(q, i) => Clean(external, i)
        BY <1>3, <3>1, AppendOther
      <3> QED BY <2>2, <3>1, <3>2, <3>3, <3>4
    <2> QED BY <1>9, <2>1, <2>2
  <1>15. Clean(external, i) => Settled(i)'
    <2> SUFFICES ASSUME Clean(external, i) PROVE Settled(i)'
      OBVIOUS
    <2>1. link[i] = DownType(i) => Edited(i)'
      BY <1>1, <1>4, <1>12 DEF Excepted
    <2>2. link[i] # DownType(i) => inst'[i].class \in ClassFor(link[i])
      BY <1>12, <1>13 DEF Excepted
    <2>3. link'[i] = link[i] /\ DownType(i)' = DownType(i)
      BY <1>1 DEF DownType
    <2> QED BY <1>7, <2>1, <2>2, <2>3 DEF Settled, ClassFor
  <1>16. LineOK(i)'
    BY <1>1, <1>7, <1>10, <1>14, <1>15 DEF LineOK
  <1>17. LeavingOK(i)'
    BY <1>2, <1>4, <1>5, <1>7, <1>8 DEF LeavingOK, In, DeleteSelf, Event
  <1>18. AddrOK(i)'
    <2>1. CASE inst[i] = Nil
      <3>1. i \in addr => In(Event("ADDR_ADD", i), external')
        <4>1. In(Event("ADDR_ADD", i), Append(external, Event("ADDR_ADD", i)))
          BY <1>3, InAppend
        <4> QED BY <1>9, <2>1, <4>1
      <3> QED BY <1>1, <3>1 DEF AddrOK, In, Event
    <2>2. CASE inst[i] # Nil
      <3>1. i \in addr => inst[i].has_addr \/ i \in news \/ In(Event("ADDR_ADD", i), external)
        BY <1>0, <1>5, <1>6, <2>2 DEF IfaceOK, AddrOK, Due, Stands, Leaving
      <3> QED BY <1>1, <2>2, <3>1 DEF AddrOK, In, Event
    <2> QED BY <2>1, <2>2
  <1> QED BY <1>16, <1>17, <1>18 DEF IfaceOK

\* An object handles the link-down event: it waits for the event that deletes
\* it, or is gone.
LEMMA DownHandled ==
  ASSUME FollowInv, VisitStep, NEW i \in Ifaces, Hits(i), msg = Event(DownType(i), i),
         Stands(i), external' = external, CategoryOK(i)',
         \/ /\ inst'[i] # Nil /\ ~inst'[i].is_active /\ inst'[i].class = inst[i].class
            /\ i \in Lans \cup Wlans /\ inst[i].class \in LanClasses
            /\ internal' = Append(internal, DeleteSelf(i))
         \/ inst'[i] = Nil /\ internal' = internal
  PROVE  IfaceOK(i)'
  <1>0. IInv /\ IInv' /\ IfaceOK(i)
    BY DEF FollowInv, VisitStep
  <1>1. /\ UNCHANGED <<link, addr, news, xml>>
        /\ (Edited(i)' <=> Edited(i)) /\ Excepted(i)' = Excepted(i)
    BY VisitKernel
  <1>2. /\ DownDue(i) /\ LinkDue(i) /\ msg \in ExternalEvents /\ IsLink(msg, i)
        /\ IsDown(msg, i) /\ msg.type = DownType(i)
    <2>1. DownDue(i)
      BY VisitDue DEF DownDue
    <2> QED BY <1>0, <2>1, DueFacts, EventParts DEF LinkDue, IsDown
  <1>3. /\ external \in Seq(ExternalEvents) /\ internal \in Seq(InternalEvents)
        /\ link[i] \in UpTypes(i) \cup {DownType(i)}
    BY <1>0, QueueFacts
  <1>4. ~Stands(i)'
    BY DEF Stands
  <1>5. ~LinkDue(i)'
    <2>1. ~UpDue(i)'
      BY <1>0, <1>2, VisitDue, DueFacts, LinkKinds
    <2>2. ~DownDue(i)'
      <3>1. inst[i] # Nil
        BY DEF Stands
      <3> QED BY <3>1, VisitDue
    <2> QED BY <2>1, <2>2 DEF LinkDue
  <1>6. Line(i) = <<msg>> \o external /\ Line(i)' = external
    BY <1>2, <1>5, LineAfter
  <1>7. /\ Latest(<<msg>> \o external, i, link[i], Excepted(i))
        /\ Alternate(<<msg>> \o external, i)
    BY <1>0, <1>6 DEF IfaceOK, LineOK
  <1>8. Latest(external, i, link[i], Excepted(i)) /\ Alternate(external, i)
    BY <1>2, <1>3, <1>7, TailOK
  <1>9. Clean(external, i) => link[i] = DownType(i)
    <2>1. Clean(external, i) => Excepted(i) \/ msg.type = link[i]
      BY <1>2, <1>3, <1>7, HeadLatest
    <2> QED BY <1>2, <2>1 DEF Excepted
  <1>10. LineOK(i)'
    <2>1. Clean(external, i) => Settled(i)'
      BY <1>1, <1>4, <1>9 DEF Settled, DownType
    <2> QED BY <1>1, <1>4, <1>6, <1>8, <2>1 DEF LineOK
  <1>11. LeavingOK(i)'
    <2>1. Leaving(i)' => inst'[i].class \in LanClasses /\ In(DeleteSelf(i), internal)'
      BY <1>3, SelfIn DEF Leaving
    <2> QED BY <1>4, <1>5, <2>1 DEF LeavingOK
  <1>12. AddrOK(i)'
    BY <1>4 DEF AddrOK
  <1> QED BY <1>10, <1>11, <1>12 DEF IfaceOK

\* An object gets the event it posted to itself and deletes itself; one that
\* makes way for another category reports its link up again.
LEMMA SelfHandled ==
  ASSUME FollowInv, VisitStep, NEW i \in Ifaces, Hits(i), msg = DeleteSelf(i),
         inst'[i] = Nil, internal' = internal, CategoryOK(i)',
         external' = IF inst[i].is_mode_switch
                     THEN Append(external, Event("USB_LINK_UP", i)) ELSE external
  PROVE  IfaceOK(i)'
  <1>0. IInv /\ IInv' /\ IfaceOK(i)
    BY DEF FollowInv, VisitStep
  <1>1. /\ UNCHANGED <<link, addr, news, xml>>
        /\ (Edited(i)' <=> Edited(i)) /\ Excepted(i)' = Excepted(i)
    BY VisitKernel
  <1>2. inst[i] # Nil /\ thread = "walk" /\ thread' = "walk" /\ msg' = msg
    BY VisitDue
  <1>3. /\ external \in Seq(ExternalEvents) /\ link[i] \in UpTypes(i) \cup {DownType(i)}
        /\ Kind(i, inst[i])
    BY <1>0, <1>2, QueueFacts
  <1>4. ~IsLink(msg, i)
    BY EventKinds DEF DeleteSelf
  <1>5. ~LinkDue(i) /\ ~LinkDue(i)' /\ Line(i) = external
    BY <1>0, <1>2, <1>4, NotDue, LinkDueNext
  <1>6. Line(i)' = external'
    BY <1>5 DEF Line
  <1>7. Leaving(i)
    BY <1>0, <1>2 DEF IfaceOK, LeavingOK, Leaving, Stands
  <1>8. ~Stands(i)' /\ ~Leaving(i)'
    BY DEF Stands, Leaving
  <1>9. /\ Latest(external, i, link[i], Excepted(i)) /\ Alternate(external, i)
        /\ Clean(external, i) => Settled(i)
    BY <1>0, <1>5 DEF IfaceOK, LineOK
  <1>10. LineOK(i)'
    <2>1. CASE ~inst[i].is_mode_switch
      <3>1. external' = external
        BY <2>1
      <3>2. Clean(external, i) => link[i] = DownType(i)
        BY <1>7, <1>9, <2>1 DEF Settled
      <3>3. Clean(external, i) => Settled(i)'
        BY <1>1, <1>8, <3>2 DEF Settled, DownType
      <3> QED BY <1>1, <1>6, <1>8, <1>9, <3>1, <3>3 DEF LineOK
    <2>2. CASE inst[i].is_mode_switch
      <3> DEFINE q == Append(external, Event("USB_LINK_UP", i))
      <3>1. external' = q
        BY <2>2
      <3>2. i \in Lans /\ Edited(i)
        BY <1>0, <1>2, <1>3, <2>2, DispatcherAssumption
           DEF IfaceOK, CategoryOK, Kind, Ifaces
      <3>3. UpTypes(i) = {"USB_LINK_UP"} /\ i \notin Wlans
        BY <3>2, IfaceTypes, DispatcherAssumption
      <3>4. Latest(q, i, "USB_LINK_UP", Excepted(i)) /\ ~Clean(q, i)
        BY <1>3, <3>3, AppendLink
      <3>5. Latest(q, i, link[i], Excepted(i))
        <4>1. CASE link[i] = "USB_LINK_UP"
          BY <3>4, <4>1
        <4>2. CASE link[i] # "USB_LINK_UP"
          <5>1. Excepted(i)
            BY <1>3, <3>2, <3>3, <4>2 DEF Excepted
          <5> HIDE DEF q
          <5> QED BY <5>1 DEF Latest
        <4> QED BY <4>1, <4>2
      <3> HIDE DEF q
      <3>6. Alternate(q, i)
        BY <1>3, <3>3, OneType
      <3> QED BY <1>1, <1>6, <1>8, <3>1, <3>4, <3>5, <3>6 DEF LineOK
    <2> QED BY <2>1, <2>2
  <1>11. LeavingOK(i)' /\ AddrOK(i)'
    BY <1>5, <1>8 DEF LeavingOK, AddrOK
  <1> QED BY <1>10, <1>11 DEF IfaceOK

\* An object finds its category changed and goes down to make way.
LEMMA ConfigHandled ==
  ASSUME FollowInv, VisitStep, NEW i \in Ifaces, msg = CfgChange,
         inst'[i] # Nil, ~inst'[i].is_active, inst'[i].is_mode_switch,
         inst'[i].class \in LanClasses, i \in Lans \cup Wlans,
         internal' = Append(internal, DeleteSelf(i)), external' = external, CategoryOK(i)'
  PROVE  IfaceOK(i)'
  <1>0. IInv /\ IInv' /\ IfaceOK(i)
    BY DEF FollowInv, VisitStep
  <1>1. /\ UNCHANGED <<link, addr, news, xml>>
        /\ (Edited(i)' <=> Edited(i)) /\ Excepted(i)' = Excepted(i)
    BY VisitKernel
  <1>2. msg' = msg /\ internal \in Seq(InternalEvents)
    BY <1>0, VisitDue, QueueFacts
  <1>3. ~IsLink(msg, i)
    BY EventKinds DEF CfgChange
  <1>4. ~LinkDue(i) /\ ~LinkDue(i)' /\ Line(i) = external
    BY <1>0, <1>2, <1>3, NotDue, LinkDueNext
  <1>5. Line(i)' = external
    BY <1>4 DEF Line
  <1>6. ~Stands(i)' /\ Leaving(i)'
    BY DEF Stands, Leaving
  <1>7. LineOK(i)'
    <2>1. Settled(i)'
      BY <1>6 DEF Settled
    <2>2. Latest(external, i, link[i], Excepted(i)) /\ Alternate(external, i)
      BY <1>0, <1>4 DEF IfaceOK, LineOK
    <2> QED BY <1>1, <1>5, <1>6, <2>1, <2>2 DEF LineOK
  <1>8. LeavingOK(i)' /\ AddrOK(i)'
    <2>1. In(DeleteSelf(i), internal)'
      BY <1>2, SelfIn
    <2> QED BY <1>4, <1>6, <2>1 DEF LeavingOK, AddrOK
  <1> QED BY <1>7, <1>8 DEF IfaceOK

\* A cradle finds its category changed, reports its link up again and is gone.
LEMMA CradleHandled ==
  ASSUME FollowInv, VisitStep, NEW i \in Lans, msg = CfgChange, Stands(i), Edited(i),
         inst'[i] = Nil, internal' = internal, CategoryOK(i)',
         external' = Append(external, Event("USB_LINK_UP", i))
  PROVE  IfaceOK(i)'
  <1> DEFINE q == Append(external, Event("USB_LINK_UP", i))
  <1>0. IInv /\ IInv' /\ i \in Ifaces /\ IfaceOK(i)
    BY DEF FollowInv, VisitStep, Ifaces
  <1>1. /\ UNCHANGED <<link, addr, news, xml>>
        /\ (Edited(i)' <=> Edited(i)) /\ Excepted(i)' = Excepted(i)
    BY VisitKernel
  <1>2. msg' = msg /\ Kind(i, inst[i])
    BY <1>0, VisitDue, QueueFacts DEF Stands
  <1>3. ~IsLink(msg, i)
    BY <1>0, EventKinds DEF CfgChange
  <1>4. ~LinkDue(i) /\ ~LinkDue(i)' /\ Line(i) = external
    BY <1>0, <1>2, <1>3, NotDue, LinkDueNext
  <1>5. Line(i)' = q
    BY <1>4 DEF Line
  <1>6. ~Stands(i)' /\ ~Leaving(i)'
    BY DEF Stands, Leaving
  <1>7. /\ UpTypes(i) = {"USB_LINK_UP"} /\ i \notin Wlans
        /\ external \in Seq(ExternalEvents) /\ link[i] \in UpTypes(i) \cup {DownType(i)}
    BY <1>0, IfaceTypes, QueueFacts, DispatcherAssumption
  <1>8. Latest(q, i, "USB_LINK_UP", Excepted(i)) /\ ~Clean(q, i)
    BY <1>0, <1>7, AppendLink
  <1>9. Latest(q, i, link[i], Excepted(i))
    <2>1. CASE link[i] = "USB_LINK_UP"
      BY <1>8, <2>1
    <2>2. CASE link[i] # "USB_LINK_UP"
      <3>1. Excepted(i)
        BY <1>7, <2>2 DEF Excepted
      <3> HIDE DEF q
      <3> QED BY <3>1 DEF Latest
    <2> QED BY <2>1, <2>2
  <1> HIDE DEF q
  <1>10. Alternate(q, i)
    BY <1>0, <1>2, <1>7, OneType
  <1>11. LineOK(i)'
    BY <1>1, <1>5, <1>6, <1>8, <1>9, <1>10 DEF LineOK
  <1>12. LeavingOK(i)' /\ AddrOK(i)'
    BY <1>4, <1>6 DEF LeavingOK, AddrOK
  <1> QED BY <1>11, <1>12 DEF IfaceOK

\* An object learns its address.
LEMMA AddrHandled ==
  ASSUME FollowInv, VisitStep, NEW i \in Ifaces, msg = Event("ADDR_ADD", i),
         inst[i] # Nil, inst' = [inst EXCEPT ![i].has_addr = TRUE],
         UNCHANGED <<external, internal>>, CategoryOK(i)'
  PROVE  IfaceOK(i)'
  <1>0. IInv /\ IInv' /\ IfaceOK(i)
    BY DEF FollowInv, VisitStep
  <1>1. /\ UNCHANGED <<link, addr, news, xml>>
        /\ (Edited(i)' <=> Edited(i)) /\ Excepted(i)' = Excepted(i)
    BY VisitKernel
  <1>2. /\ inst[i] \in Objects /\ inst \in [Ifaces -> Objects \cup {Nil}]
        /\ inst'[i] \in Objects \cup {Nil} /\ msg' = msg
    BY <1>0, VisitDue, QueueFacts DEF IInv, TypeOK
  <1>3. inst'[i] = [inst[i] EXCEPT !.has_addr = TRUE]
    BY <1>2
  <1>4. inst'[i] \in Objects /\ inst'[i] # Nil
    <2>1. inst'[i] \in Objects
      BY <1>2, <1>3 DEF Objects
    <2> QED BY <2>1, NilAssumption
  <1>5. SameObject(i) /\ inst'[i].has_addr
    BY <1>2, <1>3, <1>4 DEF SameObject, Objects
  <1>6. (Leaving(i)' <=> Leaving(i)) /\ (Stands(i)' <=> Stands(i))
    BY <1>4, <1>5 DEF Leaving, Stands, SameObject
  <1>7. ~IsLink(msg, i)
    BY <1>0, QueueFacts
  <1>8. ~LinkDue(i) /\ ~LinkDue(i)' /\ Line(i) = external
    BY <1>0, <1>2, <1>7, NotDue, LinkDueNext
  <1>9. LineOK(i)'
    <2>1. Line(i)' = Line(i)
      BY <1>8 DEF Line
    <2> QED BY <1>0, <1>1, <1>5, <2>1, LineKept DEF IfaceOK
  <1>10. LeavingOK(i)'
    <2>1. msg # DeleteSelf(i)
      BY EventParts DEF DeleteSelf
    <2>2. Leaving(i) => inst[i].class \in LanClasses /\ In(DeleteSelf(i), internal)
      BY <1>0, <2>1 DEF IfaceOK, LeavingOK, Due
    <2>3. Stands(i) => ~In(DeleteSelf(i), internal)
      BY <1>0 DEF IfaceOK, LeavingOK
    <2>4. In(DeleteSelf(i), internal)' <=> In(DeleteSelf(i), internal)
      BY DEF In, DeleteSelf, Event
    <2>5. inst[i] # Nil => inst'[i].class = inst[i].class
      BY <1>5 DEF SameObject
    <2>6. msg' # DeleteSelf(i)'
      BY <1>2, <2>1 DEF DeleteSelf, Event
    <2>7. Leaving(i) => inst[i] # Nil
      BY DEF Leaving
    <2> QED BY <1>6, <1>8, <2>2, <2>3, <2>4, <2>5, <2>6, <2>7 DEF LeavingOK
  <1>11. AddrOK(i)'
    BY <1>5 DEF AddrOK
  <1> QED BY <1>9, <1>10, <1>11 DEF IfaceOK

-----------------------------------------------------------------------------
\* What each visit does to an interface

LEMMA VisitLists ==
  ASSUME IInv, Visit
  PROVE  \/ listeners' = listeners
         \/ \E i \in Ifaces : Listening(i) /\ listeners' = Without(i)
         \/ \E i \in Ifaces : ~Listening(i) /\ listeners' = Append(listeners, i)
  <1>o. PICK o : o = at.owner
    OBVIOUS
  <1>0. /\ TypeOK /\ ListOK /\ PairOK(at) /\ o \in Ifaces \cup {Manager} /\ Listening(o)
        /\ msg \in ExternalEvents \cup InternalEvents
    BY <1>o DEF IInv, WalkOK, Dangling, Visit, PairOK, TypeOK
  <1>1. ASSUME NEW i \in Ifaces, NEW cat, CreateIface(i, cat)
        PROVE  listeners' = listeners \/ (~Listening(i) /\ listeners' = Append(listeners, i))
    BY <1>0, <1>1 DEF CreateIface, ListOK
  <1>2. CASE listeners' = listeners
    BY <1>2
  <1>3. CASE ManagerCallback /\ listeners' # listeners
    <2>1. PICK i : i = msg.iface
      OBVIOUS
    <2>2. PICK cat : CreateIface(i, cat)
      BY <1>3, <2>1 DEF ManagerCallback
    <2>3. msg.type \in {"LINK_UP", "USB_LINK_UP", "WLAN_AP_LINK_UP", "WLAN_STA_LINK_UP"}
      BY <1>3 DEF ManagerCallback
    <2>4. i \in Ifaces
      BY <1>0, <2>1, <2>3, EventFacts DEF Ifaces
    <2> QED BY <1>1, <1>3, <2>2, <2>4
  <1>4. CASE o # Manager /\ (LanCallback(o) \/ WanCallback(o)) /\ listeners' # listeners
    <2>1. o \in Ifaces /\ listeners' = Without(o)
      BY <1>0, <1>4 DEF LanCallback, WanCallback, GoDown, Delete
    <2> QED BY <1>0, <2>1
  <1>5. CASE Callback(o)
    BY <1>2, <1>3, <1>4, <1>5 DEF Callback, objects
  <1>6. CASE UNCHANGED objects
    BY <1>2, <1>6 DEF objects
  <1> QED BY <1>o, <1>5, <1>6 DEF Visit

LEMMA VisitIsStep ==
  ASSUME IInv, Visit
  PROVE  VisitStep
  <1>1. IInv'
    BY VisitOK
  <1>2. KeepsOrder
    <2>1. CASE listeners' = listeners
      BY <2>1 DEF KeepsOrder, Before
    <2> QED BY <2>1, VisitLists, DeleteKeepsOrder, CreateKeepsOrder
  <1>3. \E w : /\ w = at.owner
              /\ \/ CradleEnds(w)
                 \/ /\ Listening(w)' \/ at.k = Len(EventsOf(w))
                    /\ at' # Nil => PairOK(at)'
    <2>o. PICK o : o = at.owner
      OBVIOUS
    <2>0. /\ TypeOK /\ ListOK /\ thread = "walk" /\ PairOK(at)
      BY DEF IInv, WalkOK, Dangling, Visit
    <2>1. /\ o \in Ifaces \cup {Manager} /\ Listening(o)
          /\ at.k \in Nat \ {0} /\ at.k <= Len(EventsOf(o))
      BY <2>0, <2>o DEF PairOK
    <2>2. at.k \in 1..Len(EventsOf(o))
      <3>1. Len(EventsOf(o)) \in Nat
        BY <2>0, <2>1, OrdersOK DEF ListOK
      <3> QED BY <2>1, <3>1
    <2>3. at' # Nil => PairOK(at)' \/ CradleEnds(o)
      BY <2>o, VisitOK
    <2>4. CASE EventsOf(o)[at.k] = msg.type
      <3>1. Callback(o)
        BY <2>o, <2>4 DEF Visit
      <3>2. Stays(o) \/ at.k = Len(EventsOf(o)) \/ CradleEnds(o)
        BY <2>0, <2>1, <2>2, <2>4, <3>1, CallbackOK
      <3> QED BY <2>o, <2>1, <2>3, <3>2 DEF Stays
    <2>5. CASE EventsOf(o)[at.k] # msg.type
      <3>1. listeners' = listeners
        BY <2>o, <2>5 DEF Visit, objects
      <3> QED BY <2>o, <2>1, <2>3, <3>1 DEF Listening
    <2> QED BY <2>4, <2>5
  <1> QED BY <1>1, <1>2, <1>3 DEF VisitStep

\* An object that ignores the event, or registered others
LEMMA QuietVisit ==
  ASSUME FollowInv, VisitStep, NEW o \in Ifaces \cup {Manager}, at.owner = o,
         ~Hits(o) \/ Ignores(o), UNCHANGED <<external, internal, objects>>,
         NEW i \in Ifaces
  PROVE  IfaceOK(i)'
  <1>0. IInv /\ IfaceOK(i)
    BY DEF FollowInv
  <1>1. UNCHANGED <<listeners, inst, if_cat>>
    BY DEF objects
  <1>2. CategoryOK(i)'
    BY <1>0, <1>1, VisitKernel DEF IfaceOK, CategoryOK, Stands
  <1>3. Hits(Manager) => FALSE
    BY DEF Hits, Ignores
  <1>4. Hits(i) => o = i /\ inst[i] # Nil /\ Ignores(i)
    BY VisitDue DEF Hits
  <1>5. Hits(i) => msg # DeleteSelf(i)
    <2> SUFFICES ASSUME Hits(i), msg = DeleteSelf(i) PROVE FALSE
      OBVIOUS
    <2>1. inst[i].class \in WanClasses
      <3>1. inst[i].class \in LanClasses \cup WanClasses
        BY <1>0, <1>4, QueueFacts DEF Objects, LanClasses, WanClasses
      <3> QED BY <1>4, <3>1 DEF Ignores, DeleteSelf
    <2>2. EventsOf(i)[at.k] = "LAN_DELETE_SELF"
      BY DEF Hits, DeleteSelf, Event
    <2>3. EventsOf(i) = Order(inst[i].class)
      BY DispatcherAssumption DEF EventsOf
    <2>4. at.k \in 1..Len(EventsOf(i))
      <3>1. PairOK(at) /\ at.owner = i
        BY <1>0 DEF IInv, WalkOK, Dangling, VisitStep, Visit, Hits
      <3>2. Len(EventsOf(i)) \in Nat
        BY <1>0, <1>4, OrdersOK DEF IInv
      <3> QED BY <3>1, <3>2 DEF PairOK
    <2> QED BY <2>1, <2>2, <2>3, <2>4 DEF Order, WanOrder, StaOrder, WanClasses
  <1>6. Hits(i) /\ Stands(i) => msg # Event(DownType(i), i) /\ msg # Event("ADDR_ADD", i)
    <2> SUFFICES ASSUME Hits(i), Stands(i)
                 PROVE  msg # Event(DownType(i), i) /\ msg # Event("ADDR_ADD", i)
      OBVIOUS
    <2>1. Ignores(i) /\ inst[i].is_active
      BY <1>4 DEF Stands
    <2> QED BY <2>1 DEF Ignores
  <1> QED BY <1>1, <1>2, <1>3, <1>5, <1>6, Untouched

\* Events that name an interface say nothing of the links of another.
LEMMA OtherFace ==
  ASSUME NEW i \in Ifaces, NEW e \in ExternalEvents \cup InternalEvents,
         e.iface # i
  PROVE  ~IsLink(e, i) /\ ~IsUp(e, i) /\ e # DeleteSelf(i) /\ e # Event(DownType(i), i)
         /\ e # Event("ADDR_ADD", i)
  BY EventParts DEF IsLink, IsUp, DeleteSelf

\* The manager handles a link-up event of an interface that is not going down.
LEMMA NotLeaving ==
  ASSUME FollowInv, VisitStep, NEW i \in Ifaces, Hits(Manager), IsUp(msg, i)
  PROVE  ~Leaving(i)
  <1>0. IInv /\ IfaceOK(i)
    BY DEF FollowInv
  <1>1. msg \in ExternalEvents /\ UpDue(i) /\ LinkDue(i)
    BY <1>0, VisitDue, DueFacts DEF LinkDue
  <1>2. internal = <<>> /\ msg # DeleteSelf(i)
    BY <1>0, <1>1, SelfIsNoOther DEF IfaceOK, LeavingOK
  <1> QED BY <1>0, <1>2 DEF IfaceOK, LeavingOK, In, Due

\* What create_iface_instance does to the interface and to the others
LEMMA Created ==
  ASSUME FollowInv, VisitStep, NEW j \in Ifaces, NEW cat, CreateIface(j, cat),
         NEW i \in Ifaces
  PROVE  /\ i # j => /\ inst'[i] = inst[i]
                     /\ \/ external' = external
                        \/ \E e \in ExternalEvents :
                             ~IsLink(e, i) /\ external' = Append(external, e)
         /\ i = j /\ inst[i] # Nil => inst'[i] = inst[i] /\ external' = external
         /\ i = j /\ inst[i] = Nil =>
              /\ inst'[i] = NewObject(i, cat) /\ external' = external \o AddrQuery(i)
  <1>0. IInv
    BY DEF FollowInv
  <1>1. inst \in [Ifaces -> Objects \cup {Nil}] /\ external \in Seq(ExternalEvents)
    BY <1>0 DEF IInv, TypeOK
  <1>2. CASE inst[j] # Nil
    BY <1>2 DEF CreateIface
  <1>3. CASE inst[j] = Nil
    <2>1. /\ inst' = [inst EXCEPT ![j] = NewObject(j, cat)]
          /\ external' = external \o AddrQuery(j)
      BY <1>3 DEF CreateIface
    <2>2. Event("ADDR_ADD", j) \in ExternalEvents
      BY <1>0, QueueFacts
    <2>3. external' = external \/ external' = Append(external, Event("ADDR_ADD", j))
      BY <1>1, <2>1, <2>2 DEF AddrQuery
    <2>4. ~IsLink(Event("ADDR_ADD", j), i)
      BY EventKinds
    <2> QED BY <1>1, <1>3, <2>1, <2>2, <2>3, <2>4
  <1> QED BY <1>2, <1>3

LEMMA ManagerVisit ==
  ASSUME FollowInv, VisitStep, Hits(Manager), ManagerCallback, NEW i \in Ifaces
  PROVE  IfaceOK(i)'
  <1>j. PICK j : j = msg.iface
    OBVIOUS
  <1>0. /\ IInv /\ IfaceOK(i) /\ CategoryOK(i) /\ at.owner = Manager /\ i # Manager
        /\ msg \in ExternalEvents \cup InternalEvents
    BY VisitDue, DispatcherAssumption DEF FollowInv, IfaceOK, Hits
  <1>1. ~Hits(i)
    BY <1>0 DEF Hits
  <1>2. /\ xml' = xml /\ (Edited(i)' <=> Edited(i)) /\ Excepted(i)' = Excepted(i)
        /\ xml[i] \in Categories(i) /\ if_cat[i] \in Categories(i) \cup Assigned(i)
        /\ if_cat \in [Ifaces -> ipa_if_cat]
    BY <1>0, VisitKernel DEF IInv, TypeOK
  <1>3. CASE /\ msg = CfgChange /\ if_cat' = xml
             /\ UNCHANGED <<listeners, inst, external, internal>>
    <2>1. CategoryOK(i)'
      BY <1>0, <1>2, <1>3, DispatcherAssumption DEF CategoryOK, Stands, Categories
    <2>2. ~IsUp(msg, i)
      BY <1>3, EventKinds DEF CfgChange, IsUp, IsLink
    <2> QED BY <1>1, <1>3, <2>1, <2>2, Untouched
  <1>4. CASE /\ msg.type \in {"LINK_UP", "USB_LINK_UP"}
             /\ CreateIface(j, if_cat[j])
             /\ UNCHANGED <<if_cat, internal>>
    <2>0. /\ j \in Ifaces /\ j \notin Wlans /\ msg.type \in UpTypes(j)
          /\ if_cat[j] \in Categories(j)
      <3>1. /\ msg.type = "LINK_UP" => j \in Ltes
            /\ msg.type = "USB_LINK_UP" => j \in Lans
        BY <1>0, <1>j, EventFacts
      <3> QED BY <1>0, <1>4, <3>1, DispatcherAssumption
              DEF Ifaces, UpTypes, IInv, TypeOK, Assigned
    <2>1. CASE i # j
      <3>1. inst'[i] = inst[i] /\ (\/ external' = external
                                   \/ \E e \in ExternalEvents :
                                        ~IsLink(e, i) /\ external' = Append(external, e))
        BY <1>4, <2>0, <2>1, Created
      <3>2. CategoryOK(i)'
        BY <1>0, <1>2, <1>4, <3>1 DEF CategoryOK, Stands
      <3>3. ~IsUp(msg, i)
        BY <1>0, <1>j, <2>1, OtherFace
      <3> QED BY <1>1, <1>4, <3>1, <3>2, <3>3, Untouched
    <2>2. CASE i = j /\ inst[i] # Nil
      <3>1. inst'[i] = inst[i] /\ external' = external
        BY <1>4, <2>0, <2>2, Created
      <3>2. CategoryOK(i)'
        BY <1>0, <1>2, <1>4, <3>1 DEF CategoryOK, Stands
      <3>3. IsUp(msg, i)
        BY <1>j, <2>0, <2>2 DEF IsUp
      <3> QED BY <1>4, <2>2, <3>1, <3>2, <3>3, UpHandled
    <2>3. CASE i = j /\ inst[i] = Nil
      <3>1. inst'[i] = NewObject(i, if_cat[i]) /\ external' = external \o AddrQuery(i)
        BY <1>4, <2>0, <2>3, Created
      <3>2. /\ inst'[i].is_active /\ ~inst'[i].is_mode_switch
            /\ inst'[i].ipa_if_cate = if_cat[i]
            /\ inst'[i].class = ClassOf(i, if_cat[i])
        BY <3>1 DEF NewObject
      <3>3. inst'[i].class \in ClassFor(msg.type)
        <4>1. CASE i \in Lans
          <5>1. /\ if_cat[i] \in {"LAN_IF", "ETH_IF", "WAN_IF"} /\ i \notin Wlans
                /\ msg.type = "USB_LINK_UP"
            BY <2>0, <2>3, <4>1, IfaceTypes DEF Categories
          <5> QED BY <3>2, <4>1, <5>1 DEF ClassOf, ClassFor, LanKinds
        <4>2. CASE i \in Ltes
          <5>1. if_cat[i] = "WAN_IF" /\ msg.type = "LINK_UP" /\ i \notin Lans
            BY <2>0, <2>3, <4>2, IfaceTypes, DispatcherAssumption DEF Categories
          <5> QED BY <2>0, <2>3, <3>2, <5>1 DEF ClassOf, ClassFor
        <4> QED BY <2>0, <2>3, <4>1, <4>2 DEF Ifaces
      <3>4. inst'[i] # Nil
        <4>1. NewObject(i, if_cat[i]) \in Objects
          <5>1. /\ if_cat[i] \in {"LAN_IF", "ETH_IF", "WAN_IF"}
                /\ ClassOf(i, if_cat[i]) \in LanClasses \cup WanClasses
            BY <2>0, <2>3 DEF Categories, ClassOf, Ifaces, LanClasses, WanClasses
          <5> QED BY <5>1 DEF NewObject, Objects
        <4> QED BY <3>1, <4>1, NilAssumption
      <3>5. CategoryOK(i)'
        BY <1>0, <1>2, <1>4, <2>0, <2>3, <3>2 DEF CategoryOK
      <3>6. IsUp(msg, i)
        BY <1>j, <2>0, <2>3 DEF IsUp
      <3> QED BY <1>4, <2>3, <3>1, <3>2, <3>3, <3>4, <3>5, <3>6, UpHandled
    <2> QED BY <2>1, <2>2, <2>3
  <1>5. ASSUME msg.type \in {"WLAN_AP_LINK_UP", "WLAN_STA_LINK_UP"}, internal' = internal
        PROVE  j \in Ifaces /\ j \in Wlans /\ msg.type \in UpTypes(j)
               /\ (i = j => IsUp(msg, i) /\ ~Leaving(i))
               /\ (i # j => ~IsUp(msg, i))
    <2>1. j \in Wlans /\ j \in Ifaces
      BY <1>0, <1>j, <1>5, EventFacts DEF Ifaces
    <2>2. msg.type \in UpTypes(j)
      BY <1>5, <2>1, IfaceTypes
    <2>3. i = j => IsUp(msg, i)
      BY <1>j, <2>2 DEF IsUp
    <2> QED BY <1>0, <1>j, <2>1, <2>2, <2>3, NotLeaving, OtherFace
  <1>6. CASE /\ msg.type \in {"WLAN_AP_LINK_UP", "WLAN_STA_LINK_UP"}
             /\ if_cat[j] # "UNKNOWN_IF"
             /\ UNCHANGED <<if_cat, listeners, inst, external, internal>>
    <2>0. j \in Ifaces /\ j \in Wlans /\ (i = j => IsUp(msg, i) /\ ~Leaving(i))
          /\ (i # j => ~IsUp(msg, i))
      BY <1>5, <1>6
    <2>1. CategoryOK(i)'
      BY <1>0, <1>2, <1>6 DEF CategoryOK, Stands
    <2>2. CASE i # j
      BY <1>1, <1>6, <2>0, <2>1, <2>2, Untouched
    <2>3. CASE i = j
      <3>1. inst[i] # Nil
        BY <1>0, <1>6, <2>0, <2>3 DEF CategoryOK, Stands
      <3> QED BY <1>6, <2>0, <2>1, <2>3, <3>1, UpHandled
    <2> QED BY <2>2, <2>3
  <1>7. ASSUME msg.type \in {"WLAN_AP_LINK_UP", "WLAN_STA_LINK_UP"}, internal' = internal,
               NEW cat, cat = IF msg.type = "WLAN_AP_LINK_UP" THEN "WLAN_IF" ELSE "WAN_IF",
               if_cat' = [if_cat EXCEPT ![j] = cat], CreateIface(j, cat)
        PROVE  IfaceOK(i)'
    <2>0. j \in Ifaces /\ j \in Wlans /\ (i = j => IsUp(msg, i) /\ ~Leaving(i))
          /\ (i # j => ~IsUp(msg, i)) /\ j \notin Lans
      BY <1>5, <1>7, DispatcherAssumption
    <2>1. CASE i # j
      <3>1. inst'[i] = inst[i] /\ (\/ external' = external
                                   \/ \E e \in ExternalEvents :
                                        ~IsLink(e, i) /\ external' = Append(external, e))
        BY <1>7, <2>0, <2>1, Created
      <3>2. if_cat'[i] = if_cat[i]
        BY <1>2, <1>7, <2>1
      <3>3. CategoryOK(i)'
        BY <1>0, <1>2, <3>1, <3>2 DEF CategoryOK, Stands
      <3> QED BY <1>1, <1>7, <2>0, <2>1, <3>1, <3>3, Untouched
    <2>2. CASE i = j /\ inst[i] # Nil
      <3>1. inst'[i] = inst[i] /\ external' = external
        BY <1>7, <2>0, <2>2, Created
      <3>2. Stands(i)' /\ i \notin Lans
        BY <2>0, <2>2, <3>1 DEF Stands, Leaving
      <3>3. CategoryOK(i)'
        BY <1>0, <1>2, <3>1, <3>2 DEF CategoryOK
      <3> QED BY <1>7, <2>0, <2>2, <3>1, <3>3, UpHandled
    <2>3. CASE i = j /\ inst[i] = Nil
      <3>1. inst'[i] = NewObject(i, cat) /\ external' = external \o AddrQuery(i)
        BY <1>7, <2>0, <2>3, Created
      <3>2. /\ inst'[i].is_active /\ ~inst'[i].is_mode_switch
            /\ inst'[i].class = ClassOf(i, cat)
        BY <3>1 DEF NewObject
      <3>3. inst'[i].class \in ClassFor(msg.type)
        BY <1>7, <2>0, <2>3, <3>2 DEF ClassOf, ClassFor
      <3>4. inst'[i] # Nil
        <4>1. NewObject(i, cat) \in Objects
          BY <1>7 DEF NewObject, Objects, ClassOf, LanClasses, WanClasses
        <4> QED BY <3>1, <4>1, NilAssumption
      <3>5. CategoryOK(i)'
        BY <2>0, <2>3, <3>2, <3>4 DEF CategoryOK, Stands
      <3> QED BY <1>7, <2>0, <2>3, <3>1, <3>2, <3>3, <3>4, <3>5, UpHandled
    <2> QED BY <2>1, <2>2, <2>3
  <1> QED BY <1>j, <1>3, <1>4, <1>6, <1>7 DEF ManagerCallback

LEMMA AddressVisit ==
  ASSUME FollowInv, VisitStep, NEW o \in Ifaces, Hits(o), msg = Event("ADDR_ADD", o),
         inst[o] # Nil, inst' = [inst EXCEPT ![o].has_addr = TRUE],
         UNCHANGED <<if_cat, external, internal>>, NEW i \in Ifaces
  PROVE  IfaceOK(i)'
  <1>0. /\ IInv /\ CategoryOK(i) /\ o # Manager /\ at.owner = o
        /\ msg \in ExternalEvents \cup InternalEvents
    BY VisitDue, DispatcherAssumption DEF FollowInv, IfaceOK, Hits
  <1>1. ~Hits(Manager) /\ (i # o => ~Hits(i))
    BY <1>0 DEF Hits
  <1>2. /\ xml' = xml /\ (Edited(i)' <=> Edited(i))
        /\ inst \in [Ifaces -> Objects \cup {Nil}]
    BY <1>0, VisitKernel DEF IInv, TypeOK
  <1>3. CASE i # o
    <2>1. inst'[i] = inst[i]
      BY <1>2, <1>3
    <2>2. CategoryOK(i)'
      BY <1>0, <1>2, <2>1 DEF CategoryOK, Stands
    <2>3. ~IsUp(msg, i)
      BY <1>0, <1>3, OtherFace, EventParts
    <2> QED BY <1>1, <1>3, <2>1, <2>2, <2>3, Untouched
  <1>4. CASE i = o
    <2>1. inst[i] \in Objects /\ inst'[i] = [inst[i] EXCEPT !.has_addr = TRUE]
      BY <1>2, <1>4
    <2>2. /\ inst'[i] \in Objects /\ inst'[i].is_active = inst[i].is_active
          /\ inst'[i].is_mode_switch = inst[i].is_mode_switch
          /\ inst'[i].ipa_if_cate = inst[i].ipa_if_cate
      <3>1. PICK x \in Objects : x = inst[i] /\ inst'[i] = [x EXCEPT !.has_addr = TRUE]
        BY <2>1
      <3>2. /\ [x EXCEPT !.has_addr = TRUE] \in Objects
            /\ [x EXCEPT !.has_addr = TRUE].is_active = x.is_active
            /\ [x EXCEPT !.has_addr = TRUE].is_mode_switch = x.is_mode_switch
            /\ [x EXCEPT !.has_addr = TRUE].ipa_if_cate = x.ipa_if_cate
        BY DEF Objects
      <3> QED BY <3>1, <3>2
    <2>3. CategoryOK(i)'
      <3>1. inst[i] # Nil
        BY <1>4
      <3>2. inst'[i] # Nil
        BY <2>2, NilAssumption
      <3>3. Stands(i)' <=> Stands(i)
        BY <2>2, <3>1, <3>2 DEF Stands
      <3> QED BY <1>0, <1>2, <2>2, <3>1, <3>2, <3>3 DEF CategoryOK
    <2> QED BY <1>4, <2>3, AddrHandled
  <1> QED BY <1>3, <1>4

LEMMA LanVisit ==
  ASSUME FollowInv, VisitStep, NEW o \in Ifaces, Hits(o), LanCallback(o),
         inst[o].class \in LanClasses, NEW i \in Ifaces
  PROVE  IfaceOK(i)'
  <1>0. /\ IInv /\ CategoryOK(i) /\ CategoryOK(o) /\ LeavingOK(o) /\ o # Manager
        /\ inst[o] # Nil /\ at.owner = o /\ thread = "walk"
        /\ msg \in ExternalEvents \cup InternalEvents
    BY VisitDue, DispatcherAssumption DEF FollowInv, IfaceOK, Hits
  <1>1. ~Hits(Manager) /\ (i # o => ~Hits(i))
    BY <1>0 DEF Hits
  <1>2. /\ xml' = xml /\ (Edited(i)' <=> Edited(i))
        /\ if_cat \in [Ifaces -> ipa_if_cat] /\ inst \in [Ifaces -> Objects \cup {Nil}]
        /\ external \in Seq(ExternalEvents) /\ internal \in Seq(InternalEvents)
        /\ inst[o] \in Objects /\ Kind(o, inst[o])
    BY <1>0, VisitKernel DEF IInv, TypeOK, ListOK
  <1>3. /\ o \in Lans \cup Wlans /\ (inst[o].class = "Lan" => o \in Lans)
        /\ DeleteSelf(o) \in InternalEvents /\ (i # o => DeleteSelf(o) # DeleteSelf(i))
    BY <1>2, DispatcherAssumption
       DEF Kind, LanKinds, LanClasses, Ifaces, DeleteSelf, InternalEvents, Event
  <1>4. ASSUME NEW switch \in BOOLEAN, GoDown(o, switch)
        PROVE  /\ internal' = Append(internal, DeleteSelf(o)) /\ external' = external
               /\ inst'[o] # Nil /\ ~inst'[o].is_active
               /\ inst'[o].is_mode_switch = switch
               /\ inst'[o].class = inst[o].class
               /\ inst'[o].ipa_if_cate = inst[o].ipa_if_cate
               /\ i # o => inst'[i] = inst[i]
    <2>1. inst' = [inst EXCEPT ![o].is_active = FALSE, ![o].is_mode_switch = switch]
      BY <1>4 DEF GoDown
    <2>2. /\ inst'[o] = [inst[o] EXCEPT !.is_active = FALSE, !.is_mode_switch = switch]
          /\ i # o => inst'[i] = inst[i]
      BY <1>2, <2>1
    <2>3. /\ inst'[o] \in Objects /\ ~inst'[o].is_active /\ inst'[o].is_mode_switch = switch
          /\ inst'[o].class = inst[o].class /\ inst'[o].ipa_if_cate = inst[o].ipa_if_cate
      BY <1>2, <2>2 DEF Objects
    <2> QED BY <1>4, <2>2, <2>3, NilAssumption DEF GoDown, PostDeleteSelf, DeleteSelf
  <1>5. CASE /\ inst[o].is_active /\ msg = Event(DownType(o), o)
             /\ GoDown(o, FALSE)
             /\ if_cat' = IF o \in Wlans THEN [if_cat EXCEPT ![o] = "UNKNOWN_IF"]
                          ELSE if_cat
    <2>1. /\ internal' = Append(internal, DeleteSelf(o)) /\ external' = external
          /\ inst'[o] # Nil /\ ~inst'[o].is_active /\ ~inst'[o].is_mode_switch
          /\ inst'[o].class = inst[o].class
          /\ inst'[o].ipa_if_cate = inst[o].ipa_if_cate
          /\ i # o => inst'[i] = inst[i]
      BY <1>4, <1>5
    <2>2. /\ i # o \/ o \notin Wlans => if_cat'[i] = if_cat[i]
          /\ o \in Wlans => if_cat'[o] = "UNKNOWN_IF"
      BY <1>2, <1>5
    <2>3. CASE i = o
      <3>1. CategoryOK(i)'
        BY <1>0, <1>2, <2>1, <2>2, <2>3, DispatcherAssumption DEF CategoryOK, Stands
      <3> QED BY <1>0, <1>3, <1>5, <2>1, <2>3, <3>1, DownHandled DEF Stands
    <2>4. CASE i # o
      <3>1. CategoryOK(i)'
        BY <1>0, <1>2, <2>1, <2>2, <2>4 DEF CategoryOK, Stands
      <3>2. ~IsLink(msg, i) /\ ~IsUp(msg, i)
        BY <1>0, <1>5, <2>4, OtherFace, EventParts
      <3> QED BY <1>1, <1>3, <2>1, <2>4, <3>1, <3>2, Untouched
    <2> QED BY <2>3, <2>4
  <1>6. CASE /\ inst[o].is_active /\ Recategorized(o)
             /\ GoDown(o, TRUE)
             /\ UNCHANGED if_cat
    <2>1. /\ internal' = Append(internal, DeleteSelf(o)) /\ external' = external
          /\ inst'[o] # Nil /\ ~inst'[o].is_active /\ inst'[o].is_mode_switch
          /\ inst'[o].class = inst[o].class
          /\ i # o => inst'[i] = inst[i]
      BY <1>4, <1>6
    <2>2. o \in Lans
      <3>1. Kind(o, inst[o])' /\ inst'[o].is_mode_switch
        BY <2>1 DEF VisitStep, IInv, ListOK, Kind
      <3> QED BY <1>3, <2>1, <3>1 DEF Kind
    <2>3. Edited(o)
      BY <1>0, <1>6, <2>2 DEF CategoryOK, Recategorized
    <2>4. CASE i = o
      <3>1. CategoryOK(i)'
        BY <1>2, <2>2, <2>3, <2>4, DispatcherAssumption DEF CategoryOK
      <3> QED BY <1>3, <1>6, <2>1, <2>4, <3>1, ConfigHandled DEF Recategorized
    <2>5. CASE i # o
      <3>1. CategoryOK(i)'
        BY <1>0, <1>2, <1>6, <2>1, <2>5 DEF CategoryOK, Stands
      <3>2. ~IsLink(msg, i)
        BY <1>6, EventKinds DEF CfgChange, Recategorized
      <3>3. ~IsUp(msg, i)
        BY <3>2 DEF IsUp, IsLink
      <3> QED BY <1>1, <1>3, <2>1, <2>5, <3>1, <3>2, <3>3, Untouched
    <2> QED BY <2>4, <2>5
  <1>7. CASE /\ inst[o].is_active /\ msg = Event("ADDR_ADD", o)
             /\ inst' = [inst EXCEPT ![o].has_addr = TRUE]
             /\ UNCHANGED <<listeners, if_cat, external, internal>>
    BY <1>0, <1>7, AddressVisit
  <1>8. CASE /\ msg = Event("LAN_DELETE_SELF", o)
             /\ IF inst[o].is_mode_switch THEN Relink(o) ELSE UNCHANGED external
             /\ Delete(o)
             /\ UNCHANGED <<if_cat, internal>>
    <2>1. /\ inst'[o] = Nil /\ (i # o => inst'[i] = inst[i])
          /\ external' = IF inst[o].is_mode_switch
                         THEN Append(external, Event("USB_LINK_UP", o)) ELSE external
      BY <1>2, <1>8 DEF Delete, Relink
    <2>2. CASE i = o
      <3>1. ~Stands(o)
        BY <1>0, <1>8 DEF LeavingOK, DeleteSelf
      <3>2. CategoryOK(i)'
        BY <1>0, <1>2, <1>8, <2>1, <2>2, <3>1 DEF CategoryOK
      <3> QED BY <1>8, <2>1, <2>2, <3>2, SelfHandled DEF DeleteSelf
    <2>3. CASE i # o
      <3>1. CategoryOK(i)'
        BY <1>0, <1>2, <1>8, <2>1, <2>3 DEF CategoryOK, Stands
      <3>2. ~IsLink(msg, i) /\ ~IsUp(msg, i)
        BY <1>0, <1>8, <2>3, OtherFace, EventParts
      <3>3. \/ external' = external
            \/ \E e \in ExternalEvents : ~IsLink(e, i) /\ external' = Append(external, e)
        <4>1. CASE inst[o].is_mode_switch
          <5>1. "USB_LINK_UP" \in UpTypes(o)
            BY <1>2, <1>3, <4>1 DEF Kind, UpTypes
          <5>2. Event("USB_LINK_UP", o) \in ExternalEvents
            BY <5>1, TypesLemma
          <5> QED BY <2>1, <2>3, <4>1, <5>2, OtherFace, EventParts
        <4>2. CASE ~inst[o].is_mode_switch
          BY <2>1, <4>2
        <4> QED BY <4>1, <4>2
      <3> QED BY <1>1, <1>8, <2>1, <2>3, <3>1, <3>2, <3>3, Untouched
    <2> QED BY <2>2, <2>3
  <1> QED BY <1>5, <1>6, <1>7, <1>8 DEF LanCallback

LEMMA WanVisit ==
  ASSUME FollowInv, VisitStep, NEW o \in Ifaces, Hits(o), WanCallback(o),
         inst[o].class \in WanClasses, NEW i \in Ifaces
  PROVE  IfaceOK(i)'
  <1>0. /\ IInv /\ CategoryOK(i) /\ CategoryOK(o) /\ LeavingOK(o) /\ o # Manager
        /\ inst[o] # Nil /\ at.owner = o /\ thread = "walk"
        /\ msg \in ExternalEvents \cup InternalEvents
    BY VisitDue, DispatcherAssumption DEF FollowInv, IfaceOK, Hits
  <1>1. ~Hits(Manager) /\ (i # o => ~Hits(i))
    BY <1>0 DEF Hits
  <1>2. /\ xml' = xml /\ (Edited(i)' <=> Edited(i))
        /\ if_cat \in [Ifaces -> ipa_if_cat] /\ inst \in [Ifaces -> Objects \cup {Nil}]
    BY <1>0, VisitKernel DEF IInv, TypeOK
  <1>3. Stands(o)
    BY <1>0 DEF LeavingOK, Leaving, Stands, LanClasses, WanClasses
  <1>4. CASE /\ msg = Event(DownType(o), o)
             /\ Delete(o)
             /\ if_cat' = IF o \in Wlans THEN [if_cat EXCEPT ![o] = "UNKNOWN_IF"]
                          ELSE if_cat
             /\ UNCHANGED <<external, internal>>
    <2>1. inst'[o] = Nil /\ (i # o => inst'[i] = inst[i])
      BY <1>2, <1>4 DEF Delete
    <2>2. /\ i # o \/ o \notin Wlans => if_cat'[i] = if_cat[i]
          /\ o \in Wlans => if_cat'[o] = "UNKNOWN_IF"
      BY <1>2, <1>4
    <2>3. CASE i = o
      <3>1. CategoryOK(i)'
        BY <1>0, <1>2, <2>1, <2>2, <2>3, DispatcherAssumption DEF CategoryOK
      <3> QED BY <1>3, <1>4, <2>1, <2>3, <3>1, DownHandled
    <2>4. CASE i # o
      <3>1. CategoryOK(i)'
        BY <1>0, <1>2, <2>1, <2>2, <2>4 DEF CategoryOK, Stands
      <3>2. ~IsLink(msg, i) /\ ~IsUp(msg, i)
        BY <1>0, <1>4, <2>4, OtherFace, EventParts
      <3> QED BY <1>1, <1>4, <2>1, <2>4, <3>1, <3>2, Untouched
    <2> QED BY <2>3, <2>4
  <1>5. CASE /\ msg = Event("ADDR_ADD", o)
             /\ inst' = [inst EXCEPT ![o].has_addr = TRUE]
             /\ UNCHANGED <<listeners, if_cat, external, internal>>
    BY <1>0, <1>5, AddressVisit
  <1>6. CASE /\ inst[o].class = "Ecm" /\ Recategorized(o)
             /\ Relink(o) /\ Delete(o)
             /\ UNCHANGED <<if_cat, internal>>
    <2>1. /\ inst'[o] = Nil /\ (i # o => inst'[i] = inst[i]) /\ msg = CfgChange
          /\ external' = Append(external, Event("USB_LINK_UP", o))
      BY <1>2, <1>6 DEF Delete, Relink, Recategorized
    <2>2. o \in Lans
      BY <1>0, <1>6 DEF IInv, ListOK, Kind
    <2>3. Edited(o)
      BY <1>0, <1>6, <2>2 DEF CategoryOK, Recategorized
    <2>4. CASE i = o
      <3>1. CategoryOK(i)'
        BY <1>2, <2>1, <2>2, <2>3, <2>4, DispatcherAssumption DEF CategoryOK
      <3> QED BY <1>3, <1>6, <2>1, <2>2, <2>3, <2>4, <3>1, CradleHandled
    <2>5. CASE i # o
      <3>1. CategoryOK(i)'
        BY <1>0, <1>2, <1>6, <2>1, <2>5 DEF CategoryOK, Stands
      <3>2. ~IsLink(msg, i)
        BY <2>1, EventKinds DEF CfgChange
      <3>3. ~IsUp(msg, i)
        BY <3>2 DEF IsUp, IsLink
      <3>4. Event("USB_LINK_UP", o) \in ExternalEvents
        BY <2>2, TypesLemma DEF UpTypes
      <3>5. ~IsLink(Event("USB_LINK_UP", o), i)
        BY <2>5, EventKinds
      <3> QED BY <1>1, <1>6, <2>1, <2>5, <3>1, <3>2, <3>3, <3>4, <3>5, Untouched
    <2> QED BY <2>4, <2>5
  <1> QED BY <1>4, <1>5, <1>6 DEF WanCallback

LEMMA VisitFollows ==
  ASSUME FollowInv, Visit, NEW i \in Ifaces
  PROVE  IfaceOK(i)' /\ WaitOK'
  <1>o. PICK o : o = at.owner
    OBVIOUS
  <1>0. IInv /\ VisitStep /\ WaitOK'
    BY VisitIsStep, VisitKernel DEF FollowInv
  <1>1. o \in Ifaces \cup {Manager} /\ at.owner = o
    BY <1>0, <1>o DEF IInv, WalkOK, Dangling, PairOK, Visit
  <1>2. CASE EventsOf(o)[at.k] # msg.type
    <2>1. ~Hits(o) /\ UNCHANGED <<external, internal, objects>>
      BY <1>o, <1>2 DEF Visit, Hits
    <2> QED BY <1>0, <1>1, <2>1, QuietVisit
  <1>3. CASE EventsOf(o)[at.k] = msg.type
    <2>1. Callback(o) /\ Hits(o)
      BY <1>o, <1>3 DEF Visit, Hits
    <2>2. CASE o = Manager /\ ManagerCallback
      BY <1>0, <2>1, <2>2, ManagerVisit
    <2>3. CASE o # Manager /\ inst[o].class \in LanClasses /\ LanCallback(o)
      BY <1>0, <1>1, <2>1, <2>3, LanVisit
    <2>4. CASE o # Manager /\ inst[o].class \in WanClasses /\ WanCallback(o)
      BY <1>0, <1>1, <2>1, <2>4, WanVisit
    <2>5. CASE Ignores(o) /\ UNCHANGED <<external, internal, objects>>
      BY <1>0, <1>1, <2>5, QuietVisit
    <2> QED BY <2>1, <2>2, <2>3, <2>4, <2>5 DEF Callback
  <1> QED BY <1>2, <1>3

LEMMA InitFollows == Init => FollowInv
  <1> SUFFICES ASSUME Init PROVE FollowInv
    OBVIOUS
  <1>0. IInv /\ WaitOK
    BY InitOK DEF Init, WaitOK
  <1>1. ASSUME NEW i \in Ifaces PROVE IfaceOK(i)
    <2>1. /\ inst[i] = Nil /\ link[i] = DownType(i) /\ external = <<>> /\ thread = "fetch"
          /\ xml[i] = if_cat[i] /\ xml[i] \in Categories(i) /\ addr = {}
      BY <1>0 DEF Init, IInv, TypeOK
    <2>2. ~LinkDue(i) /\ Line(i) = <<>>
      BY <1>0, <2>1, NotDue
    <2>3. LineOK(i)
      BY <2>1, <2>2 DEF LineOK, Latest, Alternate, Settled, Stands, Leaving
    <2>4. LeavingOK(i) /\ AddrOK(i)
      BY <2>1, <2>2 DEF LeavingOK, Leaving, Stands, AddrOK
    <2>5. CategoryOK(i)
      BY <2>1, DispatcherAssumption DEF CategoryOK, Stands, Categories
    <2> QED BY <2>3, <2>4, <2>5 DEF IfaceOK
  <1> QED BY <1>0, <1>1 DEF FollowInv

LEMMA StutterFollows ==
  ASSUME FollowInv, UNCHANGED vars, NEW i \in Ifaces
  PROVE  IfaceOK(i)' /\ WaitOK'
  <1>1. UNCHANGED <<link, addr, news, xml, edited, changes, external, internal, thread,
                    msg, at, listeners, inst, if_cat>>
    BY DEF vars, kernel, objects
  <1>2. IfaceOK(i) /\ WaitOK /\ IInv
    BY DEF FollowInv
  <1>3. /\ \A e, o : Due(e, o)' <=> Due(e, o)
        /\ LinkDue(i)' <=> LinkDue(i)
        /\ (Leaving(i)' <=> Leaving(i)) /\ (Stands(i)' <=> Stands(i))
    BY <1>1, DueSame
  <1>4. Line(i)' = Line(i) /\ (Edited(i)' <=> Edited(i)) /\ SameObject(i)
    BY <1>1, <1>3 DEF Line, Edited, SameObject
  <1>5. LineOK(i)'
    BY <1>1, <1>2, <1>4, LineKept DEF IfaceOK
  <1>6. LeavingOK(i)'
    BY <1>1, <1>2, <1>3 DEF IfaceOK, LeavingOK, In, DeleteSelf, Event
  <1>7. CategoryOK(i)'
    BY <1>1, <1>2, <1>3, <1>4 DEF IfaceOK, CategoryOK
  <1>8. AddrOK(i)'
    BY <1>1, <1>2, <1>3 DEF IfaceOK, AddrOK, In, Event
  <1> QED BY <1>1, <1>2, <1>5, <1>6, <1>7, <1>8 DEF IfaceOK, WaitOK

LEMMA FollowStep == FollowInv /\ [Next]_vars => FollowInv'
  <1> SUFFICES ASSUME FollowInv, [Next]_vars PROVE FollowInv'
    OBVIOUS
  <1>1. IInv'
    BY StepOK DEF FollowInv
  <1>2. ASSUME NEW i \in Ifaces PROVE IfaceOK(i)' /\ WaitOK'
    <2>1. ASSUME NEW j \in Ifaces, NEW t \in UpTypes(j), LinkUp(j, t)
          PROVE  IfaceOK(i)' /\ WaitOK'
      BY <2>1, LinkUpFollows
    <2>2. ASSUME NEW j \in Ifaces, LinkDown(j) PROVE IfaceOK(i)' /\ WaitOK'
      BY <2>2, LinkDownFollows
    <2>3. ASSUME NEW j \in Ifaces, AssignAddr(j) \/ PostAddr(j)
          PROVE  IfaceOK(i)' /\ WaitOK'
      BY <2>3, AddressFollows
    <2>4. ASSUME NEW j \in Ifaces, NEW c \in Categories(j), EditConfig(j, c)
          PROVE  IfaceOK(i)' /\ WaitOK'
      BY <2>4, EditFollows
    <2>5. CASE FetchInternal
      BY <2>5, FetchInternalFollows
    <2>6. CASE FetchExternal
      BY <2>6, FetchExternalFollows
    <2>7. CASE Wait \/ EndWalk
      BY <2>7, RestFollows
    <2>8. CASE Visit
      BY <2>8, VisitFollows
    <2>10. CASE ReadFreed
      BY <2>10, FreedFollows
    <2>9. CASE UNCHANGED vars
      BY <2>9, StutterFollows
    <2> QED BY <2>1, <2>2, <2>3, <2>4, <2>5, <2>6, <2>7, <2>8, <2>9, <2>10
            DEF Next, Process
  <1>3. WaitOK'
    <2>1. CASE Ifaces # {}
      BY <1>2, <2>1
    <2>2. CASE Ifaces = {}
      <3>1. CASE Process \/ UNCHANGED vars
        BY <3>1 DEF FollowInv, WaitOK, Process, FetchInternal, FetchExternal, Wait,
                    Visit, ReadFreed, EndWalk, vars, kernel
      <3> QED BY <2>2, <3>1 DEF Next
    <2> QED BY <2>1, <2>2
  <1> QED BY <1>1, <1>2, <1>3 DEF FollowInv

\* The strengthening: the last link event still to be handled says what the
\* driver reported last; an object that went down has its end before it; when
\* no link event is left the object is the one the link asks for; an address
\* nobody told the object of is still under way.
THEOREM FollowInductive == Spec => []FollowInv
  <1>1. Init => FollowInv
    BY InitFollows
  <1>2. FollowInv /\ [Next]_vars => FollowInv'
    BY FollowStep
  <1> QED BY <1>1, <1>2, PTL DEF Spec

\* For any interfaces and any number of changes: when all events are processed
\* an interface has an object exactly if its last link event said up, of the
\* class of that event and category (IPACM_IfaceManager::event_callback and the
\* callbacks that delete an object).
THEOREM ObjectsFollow == Spec => []ObjectsFollowLinks
  <1>1. FollowInv => ObjectsFollowLinks
    <2> SUFFICES ASSUME FollowInv, Idle, NEW i \in Ifaces
                 PROVE  IF link[i] = DownType(i) THEN inst[i] = Nil \/ Edited(i)
                        ELSE inst[i] # Nil /\ inst[i].class \in ClassesUp(i)
      BY DEF ObjectsFollowLinks
    <2>1. /\ IInv /\ IfaceOK(i) /\ thread = "wait" /\ external = <<>> /\ internal = <<>>
      BY DEF FollowInv, WaitOK, Idle
    <2>2. Line(i) = <<>>
      BY <2>1, NotDue
    <2>3. Settled(i)
      BY <2>1, <2>2 DEF IfaceOK, LineOK, Clean
    <2>4. ~Leaving(i)
      BY <2>1 DEF IfaceOK, LeavingOK, In, Due
    <2>5. CASE link[i] = DownType(i)
      BY <2>3, <2>4, <2>5 DEF Settled, Stands, Leaving
    <2>6. CASE link[i] # DownType(i)
      <3>1. inst[i] # Nil /\ inst[i].class \in ClassFor(link[i])
        BY <2>3, <2>4, <2>6 DEF Settled
      <3>2. link[i] \in UpTypes(i)
        BY <2>1, <2>6 DEF IInv, TypeOK
      <3>3. CASE link[i] # "USB_LINK_UP"
        BY <3>1, <3>2, <3>3, <2>6 DEF ClassesUp, ClassFor, UpTypes
      <3>4. CASE link[i] = "USB_LINK_UP"
        <4>1. i \in Lans
          BY <3>2, <3>4, IfaceTypes
        <4>2. ~Edited(i) => inst[i].class = ClassOf(i, xml[i])
          <5>1. inst[i].class = ClassOf(i, inst[i].ipa_if_cate)
            BY <2>1, <3>1 DEF IInv, ListOK, Kind
          <5> QED BY <2>1, <3>1, <4>1, <5>1 DEF IfaceOK, CategoryOK
        <4> QED BY <2>6, <3>1, <3>4, <4>2 DEF ClassesUp, ClassFor, LanKinds
      <3> QED BY <2>6, <3>3, <3>4
    <2> QED BY <2>5, <2>6
  <1> QED BY <1>1, FollowInductive, PTL

\* For any interfaces and any number of changes: an address the kernel has is
\* known to the object of its interface when all events are processed, whether
\* the link or the address came first (create_iface_instance, iface_addr_query).
THEOREM AddressKnown == Spec => []AddressesKnown
  <1>1. FollowInv => AddressesKnown
    <2> SUFFICES ASSUME FollowInv, Idle, NEW i \in addr, inst[i] # Nil
                 PROVE  inst[i].has_addr
      BY DEF AddressesKnown
    <2>1. /\ IInv /\ thread = "wait" /\ external = <<>> /\ internal = <<>> /\ news = {}
          /\ i \in Ifaces
      BY DEF FollowInv, WaitOK, Idle, IInv, TypeOK
    <2>2. IfaceOK(i)
      BY <2>1 DEF FollowInv
    <2>3. Stands(i)
      BY <2>1, <2>2 DEF IfaceOK, LeavingOK, Leaving, Stands, In, Due
    <2> QED BY <2>1, <2>2, <2>3 DEF IfaceOK, AddrOK, In, Due
  <1> QED BY <1>1, FollowInductive, PTL
=============================================================================
