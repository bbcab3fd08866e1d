---------------------------- MODULE ClientsProofs ----------------------------
(***************************************************************************)
(* The clients of the LAN interfaces and the stations of the access        *)
(* points: what is installed for them is exact for any interfaces, header  *)
(* types, clients, addresses and limits.                                   *)
(***************************************************************************)
EXTENDS LanToLan, WlanClients, FiniteSetTheorems, SequenceTheorems,
        WellFoundedInduction, TLAPS

-----------------------------------------------------------------------------
\* LanToLan

\* An interface that is down has no families and no clients.
DownIsEmpty == \A i \in Ifaces \ up : fams[i] = {} /\ clients[i] = {}

\* The inductive invariant: the rules can only be exact while the reference
\* counts are, because these decide which routing rules come and go.
IInv ==
  /\ TypeOK /\ IsFiniteSet(up) /\ DownIsEmpty
  /\ RefExact /\ RulesExact /\ NothingLeaked

-----------------------------------------------------------------------------
\* What the lists of peers say while they are exact.
LEMMA PeerFacts ==
  ASSUME TypeOK, RefExact, NEW i \in Ifaces, NEW j \in Ifaces
  PROVE  j \in peers[i] <=> Bridged(i, j)
<1>1. peers[i] = IF i \in up \cap Inter THEN (up \cap Inter) \ {i} ELSE {}
  BY DEF RefExact
<1> QED
  BY <1>1 DEF Bridged

LEMMA PeersFinite ==
  ASSUME TypeOK, RefExact, IsFiniteSet(up), NEW i \in Ifaces, NEW t
  PROVE  /\ IsFiniteSet(peers[i]) /\ peers[i] \subseteq up
         /\ IsFiniteSet(OfType(peers[i], t))
         /\ Cardinality(OfType(peers[i], t)) \in Nat
<1>1. peers[i] \subseteq up
  BY DEF RefExact
<1>2. IsFiniteSet(peers[i])
  BY <1>1, FS_Subset
<1>3. OfType(peers[i], t) \subseteq peers[i]
  BY DEF OfType
<1>4. IsFiniteSet(OfType(peers[i], t))
  BY <1>2, <1>3, FS_Subset
<1> QED
  BY <1>1, <1>2, <1>4, FS_CardinalityType

\* The count of a type is zero when there is no peer of it.
LEMMA UnusedFacts ==
  ASSUME TypeOK, RefExact, IsFiniteSet(up), NEW i \in Ifaces, NEW t \in Types
  PROVE  Unused(i, t) <=> \A p \in peers[i] : L2[p] # t
<1>1. ref[i][t] = Cardinality(OfType(peers[i], t))
  BY DEF RefExact
<1>2. IsFiniteSet(OfType(peers[i], t))
  BY PeersFinite
<1>3. ref[i][t] = 0 <=> OfType(peers[i], t) = {}
  BY <1>1, <1>2, FS_EmptySet
<1> QED
  BY <1>3 DEF Unused, OfType

\* It is one for the type of a peer when that peer is the only one of it.
LEMMA LastFacts ==
  ASSUME TypeOK, RefExact, IsFiniteSet(up), NEW i \in Ifaces, NEW j \in peers[i],
         L2[j] \in Types
  PROVE  LastOne(i, L2[j], 1) <=> \A p \in peers[i] : L2[p] = L2[j] => p = j
<1> DEFINE S == OfType(peers[i], L2[j])
<1>1. ref[i][L2[j]] = Cardinality(S)
  BY DEF RefExact
<1>2. IsFiniteSet(S) /\ j \in S
  BY PeersFinite DEF OfType
<1>3. Cardinality(S) = 1 <=> \E x : S = {x}
  BY <1>2, FS_Singleton
<1>4. (\E x : S = {x}) <=> \A p \in S : p = j
  BY <1>2
<1>5. (\A p \in S : p = j) <=> \A p \in peers[i] : L2[p] = L2[j] => p = j
  BY DEF OfType
<1> QED
  BY <1>1, <1>3, <1>4, <1>5 DEF LastOne

LEMMA TypeFacts ==
  ASSUME NEW i \in Ifaces, L2[i] # NoL2
  PROVE  L2[i] \in Types /\ L2[i] # Intra
BY LanToLanAssumption DEF Types

-----------------------------------------------------------------------------
\* The initial state.
LEMMA InitIInv == Init => IInv
<1> SUFFICES ASSUME Init PROVE IInv
  OBVIOUS
<1> USE DEF Init
<1>1. TypeOK
  BY DEF TypeOK
<1>2. RefExact
  <2>1. \A t : OfType({}, t) = {}
    BY DEF OfType
  <2> QED
    BY <2>1, FS_EmptySet DEF RefExact
<1>3. RulesExact
  BY DEF RulesExact, WantedFlt, WantedRt, WantedCtx, WantedTo, Bridged
<1> QED
  BY <1>1, <1>2, <1>3, FS_EmptySet DEF IInv, NothingLeaked, DownIsEmpty

-----------------------------------------------------------------------------
\* A second family.
LEMMA AssignFamilyIInv ==
  ASSUME IInv, NEW i \in Ifaces, NEW f \in Fams, AssignFamily(i, f)
  PROVE  IInv'
<1> USE DEF IInv
<1>1. /\ up' = up /\ clients' = clients /\ peers' = peers /\ ref' = ref
      /\ cached' = cached /\ i \in up /\ f \notin fams[i]
      /\ fams' = [fams EXCEPT ![i] = @ \cup {f}]
      /\ flt' = flt \cup FltOn(i, f) /\ rt' = rt /\ ctx' = ctx
      /\ leaked' = leaked \cup (FltOn(i, f) \cap flt)
  BY DEF AssignFamily, Install
<1>2. \A j \in Ifaces : fams'[j] = IF j = i THEN fams[i] \cup {f} ELSE fams[j]
  BY <1>1 DEF TypeOK
<1>3. FltOn(i, f) \subseteq FltRules
  BY DEF FltOn
<1>4. TypeOK'
  BY <1>1, <1>2, <1>3 DEF TypeOK
<1>5. RefExact' /\ DownIsEmpty' /\ IsFiniteSet(up)'
  BY <1>1, <1>2 DEF RefExact, DownIsEmpty
<1>6. flt' = WantedFlt'
  <2>1. ASSUME NEW k \in FltRules
        PROVE  k \in FltOn(i, f) <=>
                 /\ k.on = i /\ k.fam = f /\ k.mac \in clients[k.peer]
                 /\ Bridged(i, k.peer) \/ (k.peer = i /\ i \in Wlan)
    <3>1. k.peer \in Ifaces
      BY DEF FltRules
    <3> QED
      BY <3>1, PeerFacts DEF FltOn
  <2>2. ASSUME NEW k \in FltRules
        PROVE  k \in WantedFlt' <=> k \in flt \/ k \in FltOn(i, f)
    <3>1. k.on \in Ifaces /\ k.peer \in Ifaces
      BY DEF FltRules
    <3>2. k \in flt <=> k \in WantedFlt
      BY DEF RulesExact
    <3> QED
      BY <1>1, <1>2, <2>1, <3>1, <3>2 DEF WantedFlt, Bridged
  <2> QED
    BY <1>1, <1>3, <2>2 DEF TypeOK, WantedFlt
<1>7. rt' = WantedRt' /\ ctx' = WantedCtx'
  BY <1>1 DEF RulesExact, WantedRt, WantedCtx, WantedTo, Bridged
<1>8. NothingLeaked'
  BY <1>1 DEF NothingLeaked, RulesExact, WantedFlt, FltOn
<1> QED
  BY <1>4, <1>5, <1>6, <1>7, <1>8 DEF RulesExact

-----------------------------------------------------------------------------
\* Clients.
LEMMA CacheIInv ==
  ASSUME IInv, UNCHANGED <<up, fams, clients, peers, ref, rules>>,
         cached' \subseteq Events
  PROVE  IInv'
BY DEF IInv, TypeOK, DownIsEmpty, RefExact, RulesExact, NothingLeaked, rules,
       WantedFlt, WantedRt, WantedCtx, WantedTo, Bridged

\* The types a client has routing rules for are those of the peers.
LEMMA RtToFacts ==
  ASSUME TypeOK, RefExact, NEW i \in up
  PROVE  RtTo(i, peers[i]) = WantedTo(i)
<1>1. i \in Ifaces /\ up \subseteq Ifaces
  BY DEF TypeOK
<1>2. \A p : p \in peers[i] <=> p \in {j \in up : Bridged(i, j)}
  BY <1>1, PeerFacts DEF RefExact, TypeOK
<1> QED
  BY <1>2 DEF RtTo, WantedTo, TypesOf

LEMMA ClientAddIInv ==
  ASSUME IInv, NEW i \in Ifaces, NEW m \in Macs, ClientAdd(i, m)
  PROVE  IInv'
<1> USE DEF IInv
<1> DEFINE F == FltFor(i, {m}, peers[i], fams[i])
           R == RtFor(i, {m}, peers[i])
<1>1. /\ up' = up /\ fams' = fams /\ peers' = peers /\ ref' = ref
      /\ cached' = cached /\ i \in up /\ m \notin clients[i]
      /\ clients' = [clients EXCEPT ![i] = @ \cup {m}]
      /\ flt' = flt \cup F /\ rt' = rt \cup R /\ ctx' = ctx
      /\ leaked' = leaked \cup (F \cap flt) \cup (R \cap rt)
  BY DEF ClientAdd, Install
<1>2. \A j \in Ifaces :
         clients'[j] = IF j = i THEN clients[i] \cup {m} ELSE clients[j]
  BY <1>1 DEF TypeOK
<1>3. F \subseteq FltRules /\ R \subseteq RtRules
  BY DEF FltFor, RtFor
<1>4. TypeOK'
  BY <1>1, <1>2, <1>3 DEF TypeOK
<1>5. RefExact' /\ DownIsEmpty' /\ IsFiniteSet(up)'
  BY <1>1, <1>2 DEF RefExact, DownIsEmpty
<1>6. flt' = WantedFlt'
  <2>1. ASSUME NEW k \in FltRules
        PROVE  k \in F <=>
                 /\ k.peer = i /\ k.mac = m
                 /\ \/ Bridged(k.on, i) /\ k.fam \in fams[k.on]
                    \/ k.on = i /\ i \in Wlan /\ k.fam \in fams[i]
    <3>1. k.on \in Ifaces
      BY DEF FltRules
    <3> QED
      BY <3>1, PeerFacts DEF FltFor, Bridged
  <2>2. ASSUME NEW k \in FltRules
        PROVE  k \in WantedFlt' <=> k \in flt \/ k \in F
    <3>1. k.on \in Ifaces /\ k.peer \in Ifaces
      BY DEF FltRules
    <3>2. k \in flt <=> k \in WantedFlt
      BY DEF RulesExact
    <3>3. CASE k.peer = i
      <4>1. k.mac \in clients'[k.peer] <=> k.mac \in clients[i] \/ k.mac = m
        BY <1>2, <3>3
      <4>2. Bridged(k.on, k.peer)' = Bridged(k.on, i)
        BY <1>1, <3>3 DEF Bridged
      <4>3. Bridged(k.on, i) => k.on \in up
        BY DEF Bridged
      <4> HIDE DEF F
      <4> QED
        BY <1>1, <2>1, <3>2, <3>3, <4>1, <4>2, <4>3 DEF WantedFlt
    <3>4. CASE k.peer # i
      BY <1>1, <1>2, <2>1, <3>1, <3>2, <3>4 DEF WantedFlt, Bridged
    <3> QED
      BY <3>3, <3>4
  <2> QED
    BY <1>1, <1>3, <2>2 DEF TypeOK, WantedFlt
<1>7. rt' = WantedRt'
  <2>1. \A j : WantedTo(j)' = WantedTo(j)
    BY <1>1 DEF WantedTo, Bridged
  <2>2. ASSUME NEW k \in RtRules
        PROVE  k \in WantedRt' <=> k \in rt \/ k \in R
    <3>1. k.on \in Ifaces
      BY DEF RtRules
    <3>2. k \in rt <=> k \in WantedRt
      BY DEF RulesExact
    <3>3. RtTo(i, peers[i]) = WantedTo(i)
      BY <1>1, RtToFacts
    <3>4. k \in R <=> k.on = i /\ k.mac = m /\ k.to \in WantedTo(i)
      BY <3>3 DEF RtFor
    <3> QED
      BY <1>2, <2>1, <3>1, <3>2, <3>4 DEF WantedRt
  <2> QED
    BY <1>1, <1>3, <2>2 DEF TypeOK, WantedRt
<1>8. ctx' = WantedCtx'
  BY <1>1 DEF RulesExact, WantedCtx, WantedTo, Bridged
<1>9. NothingLeaked'
  BY <1>1 DEF NothingLeaked, RulesExact, WantedFlt, WantedRt, FltFor, RtFor
<1> QED
  BY <1>4, <1>5, <1>6, <1>7, <1>8, <1>9 DEF RulesExact

LEMMA ClientDelIInv ==
  ASSUME IInv, NEW i \in Ifaces, NEW m \in Macs, ClientDel(i, m)
  PROVE  IInv'
<1> USE DEF IInv
<1> DEFINE F == ClientFlt(i, m)
           R == {k \in rt : k.on = i /\ k.mac = m}
<1>1. /\ up' = up /\ fams' = fams /\ peers' = peers /\ ref' = ref
      /\ cached' = cached /\ i \in up /\ m \in clients[i]
      /\ clients' = [clients EXCEPT ![i] = @ \ {m}]
      /\ flt' = flt \ F /\ rt' = rt \ R /\ ctx' = ctx
      /\ leaked' = leaked \cup
           ((F \cup R) \ ({k \in F : Assigned(k)} \cup ClientRt(i, m)))
  BY DEF ClientDel, Forget
<1>2. \A j \in Ifaces :
         clients'[j] = IF j = i THEN clients[i] \ {m} ELSE clients[j]
  BY <1>1 DEF TypeOK
<1>4. TypeOK'
  <2>1. F \subseteq flt /\ R \subseteq rt
    BY DEF ClientFlt
  <2> QED
    BY <1>1, <1>2, <2>1 DEF TypeOK
<1>5. RefExact' /\ DownIsEmpty' /\ IsFiniteSet(up)'
  BY <1>1, <1>2 DEF RefExact, DownIsEmpty
<1>6. flt' = WantedFlt'
  <2>2. ASSUME NEW k \in FltRules
        PROVE  k \in WantedFlt' <=> k \in flt /\ k \notin F
    <3>1. k.on \in Ifaces /\ k.peer \in Ifaces
      BY DEF FltRules
    <3>2. k \in flt <=> k \in WantedFlt
      BY DEF RulesExact
    <3>3. k.on \in peers[i] <=> Bridged(i, k.on)
      BY <3>1, PeerFacts
    <3> QED
      BY <1>1, <1>2, <3>1, <3>2, <3>3 DEF WantedFlt, Bridged, ClientFlt
  <2> QED
    BY <1>1, <2>2 DEF TypeOK, WantedFlt
<1>7. rt' = WantedRt'
  <2>1. \A j : WantedTo(j)' = WantedTo(j)
    BY <1>1 DEF WantedTo, Bridged
  <2>2. ASSUME NEW k \in RtRules
        PROVE  k \in WantedRt' <=> k \in rt /\ k \notin R
    <3>1. k.on \in Ifaces
      BY DEF RtRules
    <3>2. k \in rt <=> k \in WantedRt
      BY DEF RulesExact
    <3> QED
      BY <1>2, <2>1, <3>1, <3>2 DEF WantedRt
  <2> QED
    BY <1>1, <2>2 DEF TypeOK, WantedRt
<1>8. ctx' = WantedCtx'
  BY <1>1 DEF RulesExact, WantedCtx, WantedTo, Bridged
<1>9. NothingLeaked'
  <2>1. \A k \in F : Assigned(k)
    BY DEF ClientFlt, RulesExact, WantedFlt, Assigned
  <2>2. \A k \in R : k \in ClientRt(i, m)
    BY <1>1, RtToFacts DEF RulesExact, WantedRt, ClientRt
  <2> QED
    BY <1>1, <2>1, <2>2 DEF NothingLeaked
<1> QED
  BY <1>4, <1>5, <1>6, <1>7, <1>8, <1>9 DEF RulesExact

-----------------------------------------------------------------------------
\* A new interface.  Who bridges afterwards:
LEMMA NewBridges ==
  ASSUME TypeOK, NEW i \in Ifaces \ up, up' = up \cup {i},
         NEW a \in Ifaces, NEW b \in Ifaces
  PROVE  Bridged(a, b)' <=> \/ Bridged(a, b)
                            \/ a = i /\ b \in NewPeers(i)
                            \/ b = i /\ a \in NewPeers(i)
BY DEF Bridged, NewPeers, TypeOK

\* and the types of peer each interface serves afterwards.
LEMMA NewWanted ==
  ASSUME TypeOK, NEW i \in Ifaces \ up, up' = up \cup {i}, NEW j \in Ifaces
  PROVE  WantedTo(j)' =
           IF j = i THEN RtTo(i, NewPeers(i))
           ELSE WantedTo(j) \cup (IF j \in NewPeers(i) THEN {L2[i]} ELSE {})
<1>1. \A p \in Ifaces : Bridged(j, p)' <=> \/ Bridged(j, p)
                                           \/ j = i /\ p \in NewPeers(i)
                                           \/ p = i /\ j \in NewPeers(i)
  BY NewBridges
<1>2. up \subseteq Ifaces /\ NewPeers(i) \subseteq up /\ i \notin up
  BY DEF TypeOK, NewPeers
<1>3. CASE j = i
  <2>1. {p \in up' : Bridged(j, p)'} = NewPeers(i)
    BY <1>1, <1>2, <1>3 DEF Bridged
  <2> QED
    BY <1>3, <2>1 DEF WantedTo, RtTo, TypesOf
<1>4. CASE j # i
  <2>1. {p \in up' : Bridged(j, p)'} =
          {p \in up : Bridged(j, p)} \cup (IF j \in NewPeers(i) THEN {i} ELSE {})
    BY <1>1, <1>2, <1>4 DEF Bridged
  <2> QED
    BY <1>4, <2>1 DEF WantedTo
<1> QED
  BY <1>3, <1>4

LEMMA NewRefExact ==
  ASSUME IInv, NEW i \in Ifaces, NEW f \in Fams, IfaceUp(i, f)
  PROVE  RefExact'
<1> USE DEF IInv
<1>1. /\ i \notin up /\ up' = up \cup {i} /\ up \subseteq Ifaces
      /\ \A p \in Ifaces : peers'[p] = IF p = i THEN NewPeers(i)
                                       ELSE IF p \in NewPeers(i) THEN peers[p] \cup {i}
                                       ELSE peers[p]
      /\ \A p \in Ifaces, t \in Types :
           ref'[p][t] = IF p = i THEN Cardinality(OfType(NewPeers(i), t))
                        ELSE IF p \in NewPeers(i) /\ t = L2[i] THEN ref[p][t] + 1
                        ELSE ref[p][t]
  BY DEF IfaceUp, TypeOK
<1>2. ASSUME NEW p \in Ifaces
      PROVE  peers'[p] = IF p \in up' \cap Inter THEN (up' \cap Inter) \ {p} ELSE {}
  <2>1. peers[p] = IF p \in up \cap Inter THEN (up \cap Inter) \ {p} ELSE {}
    BY DEF RefExact
  <2>2. CASE i \notin Inter
    <3>1. NewPeers(i) = {} /\ up' \cap Inter = up \cap Inter
      BY <1>1, <2>2 DEF NewPeers
    <3> QED
      BY <1>1, <2>1, <2>2, <3>1
  <2>3. CASE i \in Inter
    <3>1. NewPeers(i) = up \cap Inter /\ up' \cap Inter = (up \cap Inter) \cup {i}
      BY <1>1, <2>3 DEF NewPeers
    <3>2. CASE p = i
      <4>1. ((up \cap Inter) \cup {i}) \ {i} = up \cap Inter
        BY <1>1
      <4>2. i \in up' \cap Inter
        BY <1>1, <2>3
      <4>3. peers'[i] = up \cap Inter
        BY <1>1, <3>1
      <4> QED
        BY <3>1, <3>2, <4>1, <4>2, <4>3
    <3>3. CASE p # i /\ p \in up \cap Inter
      <4>1. ((up \cap Inter) \ {p}) \cup {i} = ((up \cap Inter) \cup {i}) \ {p}
        BY <3>3
      <4>2. peers'[p] = ((up \cap Inter) \ {p}) \cup {i} /\ p \in up' \cap Inter
        BY <1>1, <2>1, <3>1, <3>3
      <4> QED
        BY <3>1, <4>1, <4>2
    <3>4. CASE p # i /\ p \notin up \cap Inter
      BY <1>1, <2>1, <3>1, <3>4
    <3> QED
      BY <3>2, <3>3, <3>4
  <2> QED
    BY <2>2, <2>3
<1>3. ASSUME NEW p \in Ifaces, NEW t \in Types
      PROVE  ref'[p][t] = Cardinality(OfType(peers'[p], t))
  <2>1. CASE p = i
    BY <1>1, <2>1
  <2>2. CASE p # i /\ p \in NewPeers(i) /\ t = L2[i]
    <3>1. OfType(peers'[p], t) = OfType(peers[p], t) \cup {i}
      BY <1>1, <2>2 DEF OfType
    <3>2. IsFiniteSet(OfType(peers[p], t)) /\ i \notin OfType(peers[p], t)
      <4>1. IsFiniteSet(OfType(peers[p], t)) /\ peers[p] \subseteq up
        BY PeersFinite
      <4> QED
        BY <1>1, <4>1 DEF OfType
    <3>3. Cardinality(OfType(peers'[p], t)) = Cardinality(OfType(peers[p], t)) + 1
      BY <3>1, <3>2, FS_AddElement
    <3>4. ref[p][t] = Cardinality(OfType(peers[p], t))
      BY DEF RefExact
    <3> QED
      BY <1>1, <2>2, <3>3, <3>4
  <2>3. CASE p # i /\ ~ (p \in NewPeers(i) /\ t = L2[i])
    <3>1. OfType(peers'[p], t) = OfType(peers[p], t)
      BY <1>1, <2>3 DEF OfType
    <3>2. ref[p][t] = Cardinality(OfType(peers[p], t))
      BY DEF RefExact
    <3> QED
      BY <1>1, <2>3, <3>1, <3>2
  <2> QED
    BY <2>1, <2>2, <2>3
<1> QED
  BY <1>2, <1>3 DEF RefExact

\* The peers that meet the type of the new interface for the first time.
LEMMA FirstFacts ==
  ASSUME IInv, NEW i \in Ifaces \ up, L2[i] # NoL2, NEW p \in Ifaces
  PROVE  p \in FirstFor(i) <=> p \in NewPeers(i) /\ L2[i] \notin WantedTo(p)
<1> USE DEF IInv
<1>1. L2[i] \in Types /\ L2[i] # Intra
  BY TypeFacts
<1>2. Unused(p, L2[i]) <=> \A j \in peers[p] : L2[j] # L2[i]
  BY <1>1, UnusedFacts
<1>3. \A j \in Ifaces : j \in peers[p] <=> Bridged(p, j)
  BY PeerFacts
<1>4. peers[p] \subseteq up /\ up \subseteq Ifaces
  BY PeersFinite DEF TypeOK
<1>5. L2[i] \in WantedTo(p) <=> \E j \in peers[p] : L2[j] = L2[i]
  BY <1>1, <1>3, <1>4 DEF WantedTo, Bridged
<1> QED
  BY <1>2, <1>5 DEF FirstFor

LEMMA IfaceUpIInv ==
  ASSUME IInv, NEW i \in Ifaces, NEW f \in Fams, IfaceUp(i, f)
  PROVE  IInv'
<1> USE DEF IInv
<1> DEFINE P == NewPeers(i)
           M == CachedFor(i)
<1>1. /\ i \notin up /\ up' = up \cup {i} /\ L2[i] # NoL2
      /\ fams' = [fams EXCEPT ![i] = {f}]
      /\ clients' = [clients EXCEPT ![i] = M]
      /\ flt' = flt \cup NewFlt(i, f) /\ rt' = rt \cup NewRt(i)
      /\ ctx' = ctx \cup NewCtx(i)
      /\ leaked' = leaked \cup (NewFlt(i, f) \cap flt) \cup (NewRt(i) \cap rt)
                          \cup (NewCtx(i) \cap ctx)
      /\ cached' = Uncached(i)
  BY DEF IfaceUp, Install
<1>2. /\ M \subseteq Macs /\ P \subseteq up /\ up \subseteq Ifaces
      /\ L2[i] \in Types /\ L2[i] # Intra
      /\ clients[i] = {} /\ fams[i] = {}
  BY <1>1, TypeFacts DEF CachedFor, TypeOK, Events, NewPeers, DownIsEmpty
<1>3. /\ \A j \in Ifaces : fams'[j] = IF j = i THEN {f} ELSE fams[j]
      /\ \A j \in Ifaces : clients'[j] = IF j = i THEN M ELSE clients[j]
  BY <1>1 DEF TypeOK
<1>4. RefExact'
  BY NewRefExact
<1>5. IsFiniteSet(up)' /\ DownIsEmpty'
  BY <1>1, <1>3, FS_AddElement DEF DownIsEmpty
<1>6. NewFlt(i, f) \subseteq FltRules /\ NewRt(i) \subseteq RtRules
      /\ NewCtx(i) \subseteq Ctxs
  BY DEF NewFlt, NewRt, NewCtx, FltFor, RtFor
<1>7. TypeOK'
  <2>1. /\ up' \subseteq {j \in Ifaces : L2[j] # NoL2}
        /\ fams' \in [Ifaces -> SUBSET Fams]
        /\ clients' \in [Ifaces -> SUBSET Macs]
    BY <1>1, <1>2 DEF TypeOK
  <2>2. peers' \in [Ifaces -> SUBSET Ifaces]
    BY <1>1, <1>2 DEF TypeOK, IfaceUp
  <2>3. ref' \in [Ifaces -> [Types -> Nat]]
    <3>1. IsFiniteSet(P)
      BY <1>2, FS_Subset
    <3>2. \A t : OfType(P, t) \subseteq P
      BY DEF OfType
    <3>3. \A t : IsFiniteSet(OfType(P, t))
      BY <3>1, <3>2, FS_Subset
    <3>4. \A t : Cardinality(OfType(P, t)) \in Nat
      BY <3>3, FS_CardinalityType
    <3>5. \A p \in Ifaces : \A t \in Types :
            (IF p = i THEN Cardinality(OfType(P, t))
             ELSE IF p \in P /\ t = L2[i] THEN ref[p][t] + 1
             ELSE ref[p][t]) \in Nat
      BY <3>4 DEF TypeOK
    <3> QED
      BY <3>5 DEF IfaceUp
  <2>4. cached' \subseteq Events
    BY <1>1 DEF TypeOK, Uncached
  <2> QED
    BY <1>1, <1>6, <2>1, <2>2, <2>3, <2>4 DEF TypeOK
<1>8. flt' = WantedFlt' /\ NewFlt(i, f) \cap flt = {}
  <2>1. ASSUME NEW k \in FltRules
        PROVE  k \in NewFlt(i, f) <=>
                    \/ k.on = i /\ k.fam = f /\ k.peer \in P /\ k.mac \in clients[k.peer]
                    \/ k.peer = i /\ k.mac \in M /\ k.on \in P /\ k.fam \in fams[k.on]
                    \/ k.peer = i /\ k.mac \in M /\ k.on = i /\ i \in Wlan /\ k.fam = f
    BY DEF NewFlt, FltFor
  <2>2. ASSUME NEW k \in FltRules
        PROVE  /\ k \in WantedFlt' <=> k \in flt \/ k \in NewFlt(i, f)
               /\ ~ (k \in flt /\ k \in NewFlt(i, f))
    <3>1. k.on \in Ifaces /\ k.peer \in Ifaces
      BY DEF FltRules
    <3>2. k \in flt <=> k \in WantedFlt
      BY DEF RulesExact
    <3>3. Bridged(k.on, k.peer)' <=> \/ Bridged(k.on, k.peer)
                                     \/ k.on = i /\ k.peer \in P
                                     \/ k.peer = i /\ k.on \in P
      BY <1>1, <3>1, NewBridges
    <3>4. Bridged(k.on, k.peer) => k.on # i /\ k.peer # i
      BY <1>1 DEF Bridged
    <3>5. k \in WantedFlt' <=>
            /\ k.on \in up' /\ k.fam \in fams'[k.on] /\ k.mac \in clients'[k.peer]
            /\ Bridged(k.on, k.peer)' \/ (k.on = k.peer /\ k.on \in Wlan)
      BY DEF WantedFlt
    <3>6. k \in WantedFlt <=>
            /\ k.on \in up /\ k.fam \in fams[k.on] /\ k.mac \in clients[k.peer]
            /\ Bridged(k.on, k.peer) \/ (k.on = k.peer /\ k.on \in Wlan)
      BY DEF WantedFlt
    <3>10. /\ fams'[k.on] = IF k.on = i THEN {f} ELSE fams[k.on]
           /\ clients'[k.peer] = IF k.peer = i THEN M ELSE clients[k.peer]
           /\ k.on \in up' <=> k.on \in up \/ k.on = i
           /\ k.on \in P => k.on # i /\ k.on \in up
           /\ k.peer \in P => k.peer # i
      BY <1>1, <1>2, <1>3, <3>1
    <3> HIDE DEF P, M
    <3>7. CASE k.on = i
      <4>1. k \notin flt
        BY <1>1, <3>2, <3>4, <3>6, <3>7
      <4>2. k \in WantedFlt' <=>
              /\ k.fam = f /\ k.mac \in clients'[k.peer]
              /\ k.peer \in P \/ (k.peer = i /\ i \in Wlan)
        BY <3>3, <3>4, <3>5, <3>7, <3>10, <1>2
      <4> QED
        BY <2>1, <3>7, <3>10, <4>1, <4>2, <1>2
    <3>8. CASE k.on # i /\ k.peer = i
      BY <1>2, <2>1, <3>2, <3>3, <3>4, <3>5, <3>6, <3>8, <3>10
    <3>9. CASE k.on # i /\ k.peer # i
      <4>1. k \notin NewFlt(i, f)
        BY <2>1, <3>9
      <4>2. k \in WantedFlt' <=> k \in WantedFlt
        BY <3>3, <3>4, <3>5, <3>6, <3>9, <3>10
      <4> QED
        BY <3>2, <4>1, <4>2
    <3> QED
      BY <3>7, <3>8, <3>9
  <2> QED
    BY <1>1, <1>6, <2>2 DEF TypeOK, WantedFlt
<1>9. \A j \in Ifaces : WantedTo(j)' =
        IF j = i THEN RtTo(i, P)
        ELSE WantedTo(j) \cup (IF j \in P THEN {L2[i]} ELSE {})
  BY <1>1, NewWanted
<1>10. \A j \in Ifaces : j \in FirstFor(i) <=> j \in P /\ L2[i] \notin WantedTo(j)
  BY <1>1, FirstFacts
<1>11. WantedTo(i) = {}
  BY <1>1 DEF WantedTo, Bridged
<1>12. rt' = WantedRt' /\ NewRt(i) \cap rt = {}
  <2>1. ASSUME NEW k \in RtRules
        PROVE  /\ k \in WantedRt' <=> k \in rt \/ k \in NewRt(i)
               /\ ~ (k \in rt /\ k \in NewRt(i))
    <3>1. k.on \in Ifaces
      BY DEF RtRules
    <3>2. k \in rt <=> k.mac \in clients[k.on] /\ k.to \in WantedTo(k.on)
      BY DEF RulesExact, WantedRt
    <3>3. k \in NewRt(i) <=>
            \/ k.on \in FirstFor(i) /\ k.to = L2[i] /\ k.mac \in clients[k.on]
            \/ k.on = i /\ k.mac \in M /\ k.to \in RtTo(i, P)
      BY DEF NewRt, RtFor
    <3>4. k \in WantedRt' <=> k.mac \in clients'[k.on] /\ k.to \in WantedTo(k.on)'
      BY DEF WantedRt
    <3> HIDE DEF P, M
    <3> QED
      BY <1>1, <1>2, <1>3, <1>9, <1>10, <1>11, <3>1, <3>2, <3>3, <3>4
  <2> QED
    BY <1>1, <1>6, <2>1 DEF TypeOK, WantedRt
<1>13. ctx' = WantedCtx' /\ NewCtx(i) \cap ctx = {}
  <2>1. ASSUME NEW c \in Ctxs
        PROVE  /\ c \in WantedCtx' <=> c \in ctx \/ c \in NewCtx(i)
               /\ ~ (c \in ctx /\ c \in NewCtx(i))
    <3>1. c.on \in Ifaces
      BY DEF Ctxs
    <3>2. c \in ctx <=> c.to \in WantedTo(c.on)
      BY DEF RulesExact, WantedCtx
    <3>3. c \in NewCtx(i) <=> \/ c.on \in FirstFor(i) /\ c.to = L2[i]
                              \/ c.on = i /\ c.to \in RtTo(i, P)
      BY DEF NewCtx
    <3>4. c \in WantedCtx' <=> c.to \in WantedTo(c.on)'
      BY DEF WantedCtx
    <3> HIDE DEF P, M
    <3> QED
      BY <1>1, <1>2, <1>9, <1>10, <1>11, <3>1, <3>2, <3>3, <3>4
  <2> QED
    BY <1>1, <1>6, <2>1 DEF TypeOK, WantedCtx
<1>14. NothingLeaked'
  BY <1>1, <1>8, <1>12, <1>13 DEF NothingLeaked
<1> QED
  BY <1>4, <1>5, <1>7, <1>8, <1>12, <1>13, <1>14 DEF RulesExact

-----------------------------------------------------------------------------
\* An interface goes.
LEMMA DownRefExact ==
  ASSUME IInv, NEW i \in Ifaces, IfaceDown(i)
  PROVE  RefExact' /\ ref' \in [Ifaces -> [Types -> Nat]]
<1> USE DEF IInv
<1>1. /\ i \in up /\ up' = up \ {i} /\ up \subseteq Ifaces
      /\ L2[i] \in Types
      /\ \A p \in Ifaces : peers'[p] = IF p = i THEN {} ELSE peers[p] \ {i}
      /\ ref' = [p \in Ifaces |-> [t \in Types |->
                  IF p = i THEN 0
                  ELSE IF p \in peers[i] /\ t = L2[i] THEN ref[p][t] - 1
                  ELSE ref[p][t]]]
  BY TypeFacts DEF IfaceDown, TypeOK
<1>2. ASSUME NEW p \in Ifaces
      PROVE  peers'[p] = IF p \in up' \cap Inter THEN (up' \cap Inter) \ {p} ELSE {}
  <2>1. peers[p] = IF p \in up \cap Inter THEN (up \cap Inter) \ {p} ELSE {}
    BY DEF RefExact
  <2>2. up' \cap Inter = (up \cap Inter) \ {i}
    BY <1>1
  <2> QED
    BY <1>1, <2>1, <2>2
<1>3. ASSUME NEW p \in Ifaces, NEW t \in Types
      PROVE  ref'[p][t] = Cardinality(OfType(peers'[p], t)) /\ ref'[p][t] \in Nat
  <2>0. /\ ref[p][t] = Cardinality(OfType(peers[p], t))
        /\ IsFiniteSet(OfType(peers[p], t)) /\ ref[p][t] \in Nat
    BY PeersFinite DEF RefExact
  <2>1. CASE p = i
    <3>1. OfType(peers'[p], t) = {}
      BY <1>1, <2>1 DEF OfType
    <3> QED
      BY <1>1, <2>1, <3>1, FS_EmptySet
  <2>2. CASE p # i /\ p \in peers[i] /\ t = L2[i]
    <3>1. OfType(peers'[p], t) = OfType(peers[p], t) \ {i}
      BY <1>1, <2>2 DEF OfType
    <3>2. i \in OfType(peers[p], t)
      BY <1>1, <2>2, PeerFacts DEF OfType, Bridged
    <3>3. Cardinality(OfType(peers'[p], t)) = Cardinality(OfType(peers[p], t)) - 1
      BY <2>0, <3>1, <3>2, FS_RemoveElement
    <3>4. Cardinality(OfType(peers'[p], t)) \in Nat
      BY <2>0, <3>1, FS_RemoveElement, FS_CardinalityType
    <3> QED
      BY <1>1, <2>0, <2>2, <3>3, <3>4
  <2>3. CASE p # i /\ ~ (p \in peers[i] /\ t = L2[i])
    <3>1. i \in peers[p] => p \in peers[i]
      BY <1>1, PeerFacts DEF Bridged
    <3>2. OfType(peers'[p], t) = OfType(peers[p], t)
      BY <1>1, <2>3, <3>1 DEF OfType
    <3> QED
      BY <1>1, <2>0, <2>3, <3>2
  <2> QED
    BY <2>1, <2>2, <2>3
<1>4. ref' \in [Ifaces -> [Types -> Nat]]
  <2>1. \A p \in Ifaces, t \in Types :
          (IF p = i THEN 0
           ELSE IF p \in peers[i] /\ t = L2[i] THEN ref[p][t] - 1
           ELSE ref[p][t]) \in Nat
    BY <1>1, <1>3
  <2> QED
    BY <1>1, <2>1
<1> QED
  BY <1>2, <1>3, <1>4 DEF RefExact

\* The types of peer an interface still serves, and whose rules go.
LEMMA DownWanted ==
  ASSUME IInv, NEW i \in up, up' = up \ {i}, NEW j \in Ifaces
  PROVE  /\ WantedTo(j)' = IF j = i THEN {}
                           ELSE IF j \in LastFor(i) THEN WantedTo(j) \ {L2[i]}
                           ELSE WantedTo(j)
         /\ j \in LastFor(i) => j # i /\ L2[i] # Intra
<1> USE DEF IInv
<1>1. i \in Ifaces /\ L2[i] \in Types /\ L2[i] # Intra
  BY TypeFacts DEF TypeOK
<1>2. \A p : p \in {q \in up' : Bridged(j, q)'} <=>
           p # i /\ j # i /\ p \in {q \in up : Bridged(j, q)}
  BY DEF Bridged
<1>3. \A p : p \in {q \in up : Bridged(j, q)} <=> p \in peers[j]
  BY PeerFacts, PeersFinite DEF TypeOK
<1>4. j \in peers[i] <=> i \in peers[j]
  BY <1>1, PeerFacts DEF Bridged
<1>5. j \in LastFor(i) <=> /\ i \in peers[j]
                           /\ \A p \in peers[j] : L2[p] = L2[i] => p = i
  <2>1. ASSUME i \in peers[j]
        PROVE  LastOne(j, L2[i], 1) <=> \A p \in peers[j] : L2[p] = L2[i] => p = i
    BY <1>1, <2>1, LastFacts
  <2> QED
    BY <1>4, <2>1 DEF LastFor
<1>6. j \in LastFor(i) => j # i
  BY <1>1, PeerFacts DEF LastFor, Bridged
<1>7. WantedTo(j) = {L2[p] : p \in peers[j]} \cup
                    (IF j \in up \cap Wlan THEN {Intra} ELSE {})
  BY <1>3 DEF WantedTo
<1>8. CASE j = i
  <2>1. {q \in up' : Bridged(j, q)'} = {} /\ j \notin up'
    BY <1>2, <1>8
  <2> QED
    BY <1>1, <1>6, <1>8, <2>1 DEF WantedTo
<1>9. CASE j # i
  <2>1. {q \in up' : Bridged(j, q)'} = peers[j] \ {i}
    BY <1>2, <1>3, <1>9
  <2>2. WantedTo(j)' = {L2[p] : p \in peers[j] \ {i}} \cup
                       (IF j \in up \cap Wlan THEN {Intra} ELSE {})
    BY <1>9, <2>1 DEF WantedTo
  <2>3. CASE j \in LastFor(i)
    BY <1>1, <1>5, <1>7, <1>9, <2>2, <2>3
  <2>4. CASE j \notin LastFor(i)
    <3>1. {L2[p] : p \in peers[j] \ {i}} = {L2[p] : p \in peers[j]}
      BY <1>5, <2>4
    <3> QED
      BY <1>7, <1>9, <2>2, <2>4, <3>1
  <2> QED
    BY <1>1, <1>6, <2>3, <2>4
<1> QED
  BY <1>8, <1>9

LEMMA SpentFacts ==
  ASSUME IInv, NEW i \in up
  PROVE  Spent(i) = WantedTo(i)
<1> USE DEF IInv
<1>1. i \in Ifaces
  BY DEF TypeOK
<1>2. \A t \in TypesOf(peers[i]) :
         t \in Types /\ LastOne(i, t, Cardinality(OfType(peers[i], t)))
  <2>1. TypesOf(peers[i]) \subseteq Types
    BY <1>1, PeersFinite, TypeFacts DEF TypesOf, TypeOK
  <2> QED
    BY <1>1, <2>1 DEF RefExact, LastOne
<1>3. Spent(i) = RtTo(i, peers[i])
  BY <1>2 DEF Spent, RtTo
<1> QED
  BY <1>3, RtToFacts

LEMMA IfaceDownIInv ==
  ASSUME IInv, NEW i \in Ifaces, IfaceDown(i)
  PROVE  IInv'
<1> USE DEF IInv
<1> DEFINE R == OwnOf(i, rt) \cup DeletedRt(i)
           C == OwnOf(i, ctx) \cup DeletedCtx(i)
<1>1. /\ i \in up /\ up' = up \ {i}
      /\ fams' = [fams EXCEPT ![i] = {}]
      /\ clients' = [clients EXCEPT ![i] = {}]
      /\ flt' = flt \ GoneFlt(i) /\ rt' = rt \ R /\ ctx' = ctx \ C
      /\ leaked' = leaked \cup ((GoneFlt(i) \cup R \cup C) \
                      (DeletedFlt(i) \cup DeletedRt(i) \cup DeletedCtx(i)))
      /\ cached' = cached
  BY DEF IfaceDown, Forget
<1>2. /\ \A j \in Ifaces : fams'[j] = IF j = i THEN {} ELSE fams[j]
      /\ \A j \in Ifaces : clients'[j] = IF j = i THEN {} ELSE clients[j]
  BY <1>1 DEF TypeOK
<1>3. RefExact' /\ ref' \in [Ifaces -> [Types -> Nat]]
  BY DownRefExact
<1>4. IsFiniteSet(up)' /\ DownIsEmpty'
  BY <1>1, <1>2, FS_RemoveElement DEF DownIsEmpty
<1>5. \A j \in Ifaces :
        /\ WantedTo(j)' = IF j = i THEN {}
                          ELSE IF j \in LastFor(i) THEN WantedTo(j) \ {L2[i]}
                          ELSE WantedTo(j)
        /\ j \in LastFor(i) => j # i
  BY <1>1, DownWanted
<1>6. Spent(i) = WantedTo(i)
  BY <1>1, SpentFacts
<1>7. flt' = WantedFlt'
  <2>1. ASSUME NEW k \in FltRules
        PROVE  k \in WantedFlt' <=> k \in flt /\ k \notin GoneFlt(i)
    <3>1. k.on \in Ifaces /\ k.peer \in Ifaces
      BY DEF FltRules
    <3>2. k \in flt <=> k \in WantedFlt
      BY DEF RulesExact
    <3>3. k.on \in peers[i] <=> Bridged(i, k.on)
      BY <3>1, PeerFacts
    <3>4. k \in GoneFlt(i) <=>
            k \in flt /\ (k.on = i \/ (Bridged(i, k.on) /\ k.peer = i))
      BY <3>3 DEF GoneFlt
    <3>5. Bridged(k.on, k.peer)' <=>
            Bridged(k.on, k.peer) /\ k.on # i /\ k.peer # i
      BY <1>1 DEF Bridged
    <3>6. k.peer = i => (Bridged(k.on, k.peer) <=> Bridged(i, k.on))
      BY DEF Bridged
    <3>7. /\ fams'[k.on] = IF k.on = i THEN {} ELSE fams[k.on]
          /\ clients'[k.peer] = IF k.peer = i THEN {} ELSE clients[k.peer]
          /\ k.on \in up' <=> k.on \in up /\ k.on # i
      BY <1>1, <1>2, <3>1
    <3> QED
      BY <3>2, <3>4, <3>5, <3>6, <3>7 DEF WantedFlt
  <2> QED
    BY <1>1, <2>1 DEF TypeOK, WantedFlt
<1>8. rt' = WantedRt'
  <2>1. ASSUME NEW k \in RtRules
        PROVE  k \in WantedRt' <=> k \in rt /\ k \notin R
    <3>1. k.on \in Ifaces
      BY DEF RtRules
    <3>2. k \in rt <=> k.mac \in clients[k.on] /\ k.to \in WantedTo(k.on)
      BY DEF RulesExact, WantedRt
    <3>3. k \in R <=> k \in rt /\ (k.on = i \/ (k.on \in LastFor(i) /\ k.to = L2[i]))
      BY DEF OwnOf, DeletedRt
    <3>4. k \in WantedRt' <=> k.mac \in clients'[k.on] /\ k.to \in WantedTo(k.on)'
      BY DEF WantedRt
    <3> HIDE DEF R
    <3> QED
      BY <1>2, <1>5, <3>1, <3>2, <3>3, <3>4
  <2> QED
    BY <1>1, <2>1 DEF TypeOK, WantedRt
<1>9. ctx' = WantedCtx'
  <2>1. ASSUME NEW c \in Ctxs
        PROVE  c \in WantedCtx' <=> c \in ctx /\ c \notin C
    <3>1. c.on \in Ifaces
      BY DEF Ctxs
    <3>2. c \in ctx <=> c.to \in WantedTo(c.on)
      BY DEF RulesExact, WantedCtx
    <3>3. c \in C <=> c \in ctx /\ (c.on = i \/ (c.on \in LastFor(i) /\ c.to = L2[i]))
      BY DEF OwnOf, DeletedCtx
    <3>4. c \in WantedCtx' <=> c.to \in WantedTo(c.on)'
      BY DEF WantedCtx
    <3> HIDE DEF C
    <3> QED
      BY <1>5, <3>1, <3>2, <3>3, <3>4
  <2> QED
    BY <1>1, <2>1 DEF TypeOK, WantedCtx
<1>10. NothingLeaked'
  <2>1. GoneFlt(i) \subseteq DeletedFlt(i)
    BY DEF GoneFlt, DeletedFlt, Assigned, RulesExact, WantedFlt
  <2>2. R \subseteq DeletedRt(i)
    BY <1>6 DEF OwnOf, DeletedRt, RulesExact, WantedRt
  <2>3. C \subseteq DeletedCtx(i)
    BY <1>6 DEF OwnOf, DeletedCtx, RulesExact, WantedCtx
  <2> QED
    BY <1>1, <2>1, <2>2, <2>3 DEF NothingLeaked
<1>11. TypeOK'
  <2>1. peers' \in [Ifaces -> SUBSET Ifaces]
    BY DEF TypeOK, IfaceDown
  <2>2. leaked' = {}
    BY <1>10 DEF NothingLeaked
  <2> QED
    BY <1>1, <1>3, <2>1, <2>2 DEF TypeOK
<1> QED
  BY <1>3, <1>4, <1>7, <1>8, <1>9, <1>10, <1>11 DEF RulesExact

-----------------------------------------------------------------------------
\* The cache is finite, so that the copies of an event can be counted, and
\* holds no event of an interface that is up.
Inv == IInv /\ IsFiniteSet(cached) /\ CacheOnlyUnknown

LEMMA CacheClientFacts ==
  ASSUME Inv, NEW i \in Ifaces, NEW m \in Macs, CacheClient(i, m)
  PROVE  cached' \subseteq Events /\ IsFiniteSet(cached)' /\ CacheOnlyUnknown'
<1> DEFINE equal == {e \in cached : e.iface = i /\ e.mac = m}
           new == [iface |-> i, mac |-> m, copy |-> Cardinality(equal)]
<1>1. IsFiniteSet(cached) /\ cached \subseteq Events /\ CacheOnlyUnknown
  BY DEF Inv, IInv, TypeOK
<1>2. cached' = cached \cup {new} /\ i \notin up /\ up' = up
  BY DEF CacheClient
<1>3. IsFiniteSet(equal)
  BY <1>1, FS_Subset
<1>4. new \in Events /\ new.iface = i
  BY <1>3, FS_CardinalityType DEF Events
<1> HIDE DEF new
<1>5. IsFiniteSet(cached)'
  BY <1>1, <1>2, FS_AddElement
<1> QED
  BY <1>1, <1>2, <1>4, <1>5 DEF CacheOnlyUnknown

LEMMA UncachedFacts ==
  ASSUME Inv, NEW i \in Ifaces, cached' = Uncached(i), up' \subseteq up \cup {i}
  PROVE  cached' \subseteq Events /\ IsFiniteSet(cached)' /\ CacheOnlyUnknown'
<1>1. cached' \subseteq cached /\ \A e \in cached' : e.iface # i
  BY DEF Uncached
<1>2. IsFiniteSet(cached)'
  BY <1>1, FS_Subset DEF Inv
<1> QED
  BY <1>1, <1>2 DEF Inv, IInv, TypeOK, CacheOnlyUnknown

LEMMA KeptCacheFacts ==
  ASSUME Inv, cached' = cached, up' \subseteq up
  PROVE  cached' \subseteq Events /\ IsFiniteSet(cached)' /\ CacheOnlyUnknown'
BY DEF Inv, IInv, TypeOK, CacheOnlyUnknown

\* Every step keeps the invariant.
LEMMA NextInv == Inv /\ [Next]_vars => Inv'
<1> SUFFICES ASSUME Inv, [Next]_vars PROVE Inv'
  OBVIOUS
<1> DEFINE CacheOK == cached' \subseteq Events /\ IsFiniteSet(cached)' /\ CacheOnlyUnknown'
<1>0. IInv
  BY DEF Inv
<1>1. ASSUME NEW i \in Ifaces, NEW f \in Fams, AssignFamily(i, f)
      PROVE  IInv' /\ CacheOK
  BY <1>0, <1>1, AssignFamilyIInv, KeptCacheFacts DEF AssignFamily
<1>2. ASSUME NEW i \in Ifaces, NEW f \in Fams, IfaceUp(i, f)
      PROVE  IInv' /\ CacheOK
  BY <1>0, <1>2, IfaceUpIInv, UncachedFacts DEF IfaceUp
<1>3. ASSUME NEW i \in Ifaces, IfaceDown(i)
      PROVE  IInv' /\ CacheOK
  BY <1>0, <1>3, IfaceDownIInv, KeptCacheFacts DEF IfaceDown
<1>4. ASSUME NEW i \in Ifaces, UnknownIfaceDown(i)
      PROVE  IInv' /\ CacheOK
  <2>1. CacheOK
    BY <1>4, UncachedFacts DEF UnknownIfaceDown
  <2> QED
    BY <1>0, <1>4, <2>1, CacheIInv DEF UnknownIfaceDown
<1>5. ASSUME NEW i \in Ifaces, NEW m \in Macs, ClientAdd(i, m)
      PROVE  IInv' /\ CacheOK
  BY <1>0, <1>5, ClientAddIInv, KeptCacheFacts DEF ClientAdd
<1>6. ASSUME NEW i \in Ifaces, NEW m \in Macs, ClientDel(i, m)
      PROVE  IInv' /\ CacheOK
  BY <1>0, <1>6, ClientDelIInv, KeptCacheFacts DEF ClientDel
<1>7. ASSUME NEW i \in Ifaces, NEW m \in Macs, CacheClient(i, m)
      PROVE  IInv' /\ CacheOK
  <2>1. CacheOK
    BY <1>7, CacheClientFacts
  <2> QED
    BY <1>0, <1>7, <2>1, CacheIInv DEF CacheClient
<1>8. CASE UNCHANGED vars
  <2>1. CacheOK
    BY <1>8, KeptCacheFacts DEF vars
  <2> QED
    BY <1>0, <1>8, <2>1, CacheIInv DEF vars, rules, Inv
<1> QED
  BY <1>1, <1>2, <1>3, <1>4, <1>5, <1>6, <1>7, <1>8 DEF Next, Inv

LEMMA Invariance == Spec => []Inv
<1>1. Init => Inv
  BY InitIInv, FS_EmptySet DEF Init, Inv, CacheOnlyUnknown
<1> QED
  BY <1>1, NextInv, PTL DEF Spec

-----------------------------------------------------------------------------
\* The interfaces, lists, counts and rules are well formed.
THEOREM TypeCorrect == Spec => []TypeOK
<1>1. Inv => TypeOK
  BY DEF Inv, IInv
<1> QED
  BY <1>1, Invariance, PTL

\* The rules installed for bridging are those the interfaces, families and
\* clients of the moment call for, after any number of events in any order.
THEOREM RulesAreExact == Spec => []RulesExact
<1>1. Inv => RulesExact
  BY DEF Inv, IInv
<1> QED
  BY <1>1, Invariance, PTL

\* No event makes the module lose the handle of a rule that is installed.
THEOREM NeverLeaks == Spec => []NothingLeaked
<1>1. Inv => NothingLeaked
  BY DEF Inv, IInv
<1> QED
  BY <1>1, Invariance, PTL

\* The peers know each other, and the reference counts that decide when routing
\* rules and contexts come and go count the peers.
THEOREM CountsAreExact == Spec => []RefExact
<1>1. Inv => RefExact
  BY DEF Inv, IInv
<1> QED
  BY <1>1, Invariance, PTL

\* The cache holds no event of an interface that is up.
THEOREM CacheIsOfUnknown == Spec => []CacheOnlyUnknown
<1>1. Inv => CacheOnlyUnknown
  BY DEF Inv
<1> QED
  BY <1>1, Invariance, PTL

-----------------------------------------------------------------------------
\* WlanClients: the bag of entries that handles lead to

\* Bags of entries
LEMMA CountOf ==
  ASSUME NEW K, IsFiniteSet(K), NEW e
  PROVE  /\ IsFiniteSet({k \in K : k.entry = e})
         /\ Cardinality({k \in K : k.entry = e}) \in Nat
         /\ Cardinality({k \in K : k.entry = e}) = 0 <=> e \notin {k.entry : k \in K}
  <1>1. IsFiniteSet({k \in K : k.entry = e})
    BY FS_Subset
  <1>2. {k \in K : k.entry = e} = {} <=> e \notin {k.entry : k \in K}
    OBVIOUS
  <1> QED BY <1>1, <1>2, FS_EmptySet, FS_CardinalityType

LEMMA JoinedCount ==
  ASSUME NEW S, NEW T, IsFiniteSet(S), IsFiniteSet(T), S \cap T = {}
  PROVE  Cardinality(S \cup T) = Cardinality(S) + Cardinality(T)
  <1>1. Cardinality(S) \in Nat /\ Cardinality(T) \in Nat
    BY FS_CardinalityType
  <1>2. Cardinality(S \cup T) = Cardinality(S) + Cardinality(T) - Cardinality(S \cap T)
    BY FS_Union
  <1> QED BY <1>1, <1>2, FS_EmptySet

LEMMA PlusEntries ==
  ASSUME NEW K, IsFiniteSet(K), NEW M, IsFiniteSet(M), K \cap M = {}
  PROVE  EntriesOf(K) (+) EntriesOf(M) = EntriesOf(K \cup M)
  <1> DEFINE B == EntriesOf(K)
             C == EntriesOf(M)
             N(X, e) == Cardinality({k \in X : k.entry = e})
  <1>1. IsFiniteSet(K \cup M)
    BY FS_Union
  <1>2. \A e : N(K \cup M, e) = N(K, e) + N(M, e)
    <2> TAKE e
    <2>1. {k \in K \cup M : k.entry = e} = {k \in K : k.entry = e} \cup {k \in M : k.entry = e}
      OBVIOUS
    <2>2. {k \in K : k.entry = e} \cap {k \in M : k.entry = e} = {}
      OBVIOUS
    <2>3. N(K, e) \in Nat /\ N(M, e) \in Nat
      BY CountOf
    <2>4. IsFiniteSet({k \in K : k.entry = e}) /\ IsFiniteSet({k \in M : k.entry = e})
      BY CountOf
    <2> QED BY <2>1, <2>2, <2>3, <2>4, JoinedCount
  <1>3. \A e : /\ N(K, e) \in Nat /\ (N(K, e) = 0 <=> e \notin {k.entry : k \in K})
               /\ N(M, e) \in Nat /\ (N(M, e) = 0 <=> e \notin {k.entry : k \in M})
    BY CountOf
  <1>4. {k.entry : k \in K \cup M} = {k.entry : k \in K} \cup {k.entry : k \in M}
    OBVIOUS
  <1>5. /\ B = [e \in {k.entry : k \in K} |-> N(K, e)]
        /\ C = [e \in {k.entry : k \in M} |-> N(M, e)]
        /\ EntriesOf(K \cup M) = [e \in {k.entry : k \in K \cup M} |-> N(K \cup M, e)]
    BY DEF EntriesOf
  <1>6. B (+) C = [e \in {k.entry : k \in K} \cup {k.entry : k \in M} |-> N(K \cup M, e)]
    <2>1. ASSUME NEW e \in {k.entry : k \in K} \cup {k.entry : k \in M}
          PROVE  (IF e \in DOMAIN B THEN B[e] ELSE 0) + (IF e \in DOMAIN C THEN C[e] ELSE 0)
                   = N(K \cup M, e)
      <3> HIDE DEF N
      <3>1. DOMAIN B = {k.entry : k \in K} /\ DOMAIN C = {k.entry : k \in M}
        BY <1>5
      <3>2. (IF e \in DOMAIN B THEN B[e] ELSE 0) = N(K, e)
        BY <1>3, <1>5, <3>1
      <3>3. (IF e \in DOMAIN C THEN C[e] ELSE 0) = N(M, e)
        BY <1>3, <1>5, <3>1
      <3> QED BY <3>2, <3>3, <1>2
    <2>2. DOMAIN B = {k.entry : k \in K} /\ DOMAIN C = {k.entry : k \in M}
      BY <1>5
    <2> HIDE DEF N, B, C
    <2> QED BY <2>1, <2>2 DEF (+)
  <1> QED BY <1>4, <1>5, <1>6

LEMMA MinusEntries ==
  ASSUME NEW K, IsFiniteSet(K), NEW M, M \subseteq K
  PROVE  EntriesOf(K) (-) EntriesOf(M) = EntriesOf(K \ M)
  <1> DEFINE B == EntriesOf(K)
             C == EntriesOf(M)
             N(X, e) == Cardinality({k \in X : k.entry = e})
             D == [e \in DOMAIN B |-> IF e \in DOMAIN C THEN B[e] - C[e] ELSE B[e]]
             E == {k.entry : k \in K \ M}
  <1>1. IsFiniteSet(K \ M) /\ IsFiniteSet(M)
    BY FS_Difference, FS_Subset
  <1>2. \A e : N(K \ M, e) = N(K, e) - N(M, e)
    <2> TAKE e
    <2>1. {k \in K \ M : k.entry = e} = {k \in K : k.entry = e} \ {k \in M : k.entry = e}
      OBVIOUS
    <2>2. {k \in K : k.entry = e} \cap {k \in M : k.entry = e} = {k \in M : k.entry = e}
      OBVIOUS
    <2>4. IsFiniteSet({k \in K : k.entry = e}) /\ IsFiniteSet({k \in M : k.entry = e})
      BY <1>1, CountOf
    <2>5. \A S, T : IsFiniteSet(S) /\ S \cap T = T
                    => Cardinality(S \ T) = Cardinality(S) - Cardinality(T)
      BY FS_Difference
    <2> QED BY <2>1, <2>2, <2>4, <2>5
  <1>3. \A e : /\ N(K, e) \in Nat /\ (N(K, e) = 0 <=> e \notin {k.entry : k \in K})
               /\ N(M, e) \in Nat /\ (N(M, e) = 0 <=> e \notin {k.entry : k \in M})
               /\ N(K \ M, e) \in Nat /\ (N(K \ M, e) = 0 <=> e \notin E)
    BY <1>1, CountOf
  <1>5. /\ B = [e \in {k.entry : k \in K} |-> N(K, e)]
        /\ C = [e \in {k.entry : k \in M} |-> N(M, e)]
        /\ EntriesOf(K \ M) = [e \in E |-> N(K \ M, e)]
    BY DEF EntriesOf
  <1>6. DOMAIN B = {k.entry : k \in K} /\ DOMAIN C = {k.entry : k \in M}
        /\ DOMAIN D = {k.entry : k \in K}
    BY <1>5
  <1>7. ASSUME NEW e \in DOMAIN B PROVE D[e] = N(K \ M, e)
    <2> HIDE DEF N, E
    <2>1. B[e] = N(K, e)
      BY <1>5, <1>6
    <2>2. CASE e \in DOMAIN C
      <3>1. C[e] = N(M, e)
        BY <1>5, <1>6, <2>2
      <3> QED BY <2>1, <2>2, <3>1, <1>2
    <2>3. CASE e \notin DOMAIN C
      <3>1. N(M, e) = 0
        BY <1>3, <1>6, <2>3
      <3>2. N(K \ M, e) = N(K, e) - 0 /\ N(K, e) \in Nat
        BY <3>1, <1>2, <1>3
      <3> QED BY <2>1, <2>3, <3>2
    <2> QED BY <2>2, <2>3
  <1>8. {e \in DOMAIN D : D[e] > 0} = E
    <2>1. E \subseteq DOMAIN B
      BY <1>6
    <2>2. DOMAIN D = DOMAIN B
      BY <1>6
    <2> HIDE DEF N, E, D, B
    <2>3. \A e \in DOMAIN B : D[e] > 0 <=> e \in E
      <3> TAKE e \in DOMAIN B
      <3>1. N(K \ M, e) \in Nat /\ (N(K \ M, e) = 0 <=> e \notin E)
        BY <1>3
      <3>2. D[e] = N(K \ M, e)
        BY <1>7
      <3> QED BY <3>1, <3>2
    <2>4. {e \in DOMAIN D : D[e] > 0} = {e \in DOMAIN B : e \in E}
      BY <2>2, <2>3
    <2> QED BY <2>1, <2>4
  <1>9. B (-) C = [e \in {d \in DOMAIN D : D[d] > 0} |-> D[e]]
    BY DEF (-)
  <1>10. [e \in E |-> D[e]] = [e \in E |-> N(K \ M, e)]
    <2>1. E \subseteq DOMAIN B
      BY <1>6
    <2> HIDE DEF N, E, D
    <2> QED BY <2>1, <1>7
  <1> QED BY <1>5, <1>8, <1>9, <1>10

\* What lies aside of the entries of the handles stays there.
LEMMA EntriesBag ==
  ASSUME NEW K, IsFiniteSet(K)
  PROVE  IsABag(EntriesOf(K))
  <1>1. \A e \in {k.entry : k \in K} : Cardinality({k \in K : k.entry = e}) \in {n \in Nat : n > 0}
    <2> TAKE e \in {k.entry : k \in K}
    <2>1. \A m : m \in Nat /\ m # 0 => m \in {n \in Nat : n > 0}
      OBVIOUS
    <2> QED BY <2>1, CountOf
  <1>2. EntriesOf(K) = [e \in {k.entry : k \in K} |-> Cardinality({k \in K : k.entry = e})]
    BY DEF EntriesOf
  <1>3. EntriesOf(K) \in [{k.entry : k \in K} -> {n \in Nat : n > 0}]
    BY <1>1, <1>2
  <1>4. DOMAIN EntriesOf(K) = {k.entry : k \in K}
    BY <1>2
  <1> QED BY <1>2, <1>3, <1>4 DEF IsABag

LEMMA SubEntries ==
  ASSUME NEW K, IsFiniteSet(K), NEW M, M \subseteq K
  PROVE  /\ DOMAIN EntriesOf(M) \subseteq DOMAIN EntriesOf(K)
         /\ \A e \in DOMAIN EntriesOf(M) : EntriesOf(M)[e] <= EntriesOf(K)[e]
  <1>2. {k.entry : k \in M} \subseteq {k.entry : k \in K}
    OBVIOUS
  <1>3. ASSUME NEW e
        PROVE  Cardinality({k \in M : k.entry = e}) <= Cardinality({k \in K : k.entry = e})
    <2> DEFINE S == {k \in K : k.entry = e}
               T == {k \in M : k.entry = e}
    <2>1. T \subseteq S /\ IsFiniteSet(S)
      BY CountOf
    <2> HIDE DEF S, T
    <2>2. Cardinality(T) <= Cardinality(S)
      BY <2>1, FS_Subset
    <2> QED BY <2>2 DEF S, T
  <1>4. /\ DOMAIN EntriesOf(M) = {k.entry : k \in M}
        /\ \A e \in DOMAIN EntriesOf(M) : EntriesOf(M)[e] = Cardinality({k \in M : k.entry = e})
    BY DEF EntriesOf
  <1>5. /\ DOMAIN EntriesOf(K) = {k.entry : k \in K}
        /\ \A e \in DOMAIN EntriesOf(K) : EntriesOf(K)[e] = Cardinality({k \in K : k.entry = e})
    BY DEF EntriesOf
  <1>6. ASSUME NEW e \in DOMAIN EntriesOf(M) PROVE EntriesOf(M)[e] <= EntriesOf(K)[e]
    <2>1. EntriesOf(M)[e] = Cardinality({k \in M : k.entry = e})
      BY <1>4
    <2>2. EntriesOf(K)[e] = Cardinality({k \in K : k.entry = e})
      BY <1>2, <1>4, <1>5
    <2> QED BY <1>3, <2>1, <2>2
  <1> QED BY <1>2, <1>4, <1>5, <1>6

LEMMA PlusAside ==
  ASSUME NEW B, IsABag(B), NEW L, IsABag(L), NEW C, IsABag(C)
  PROVE  /\ (B (+) L) (+) C = (B (+) C) (+) L
         /\ (B (+) L) (+) C = B (+) (L (+) C)
         /\ IsABag(B (+) L) /\ B (+) EmptyBag = B /\ IsABag(EmptyBag)
  <1> DEFINE At(X, e) == IF e \in DOMAIN X THEN X[e] ELSE 0
  <1>1. \A e : At(B, e) \in Nat /\ At(L, e) \in Nat /\ At(C, e) \in Nat
    BY DEF IsABag
  <1>2. ASSUME NEW X, NEW Y
        PROVE  X (+) Y = [e \in DOMAIN X \cup DOMAIN Y |-> At(X, e) + At(Y, e)]
    BY DEF (+)
  <1> HIDE DEF At
  <1>3. ASSUME NEW X, NEW Y, \A e : At(X, e) \in Nat /\ At(Y, e) \in Nat
        PROVE  /\ DOMAIN (X (+) Y) = DOMAIN X \cup DOMAIN Y
               /\ \A e : At(X (+) Y, e) = At(X, e) + At(Y, e)
    <2>1. \A e : e \notin DOMAIN X => At(X, e) = 0
      BY DEF At
    <2>2. \A e : e \notin DOMAIN Y => At(Y, e) = 0
      BY DEF At
    <2>3. DOMAIN (X (+) Y) = DOMAIN X \cup DOMAIN Y
      BY <1>2
    <2>4. ASSUME NEW e PROVE At(X (+) Y, e) = At(X, e) + At(Y, e)
      <3>1. CASE e \in DOMAIN X \cup DOMAIN Y
        <4>1. (X (+) Y)[e] = At(X, e) + At(Y, e)
          BY <1>2, <3>1
        <4> QED BY <2>3, <3>1, <4>1 DEF At
      <3>2. CASE e \notin DOMAIN X \cup DOMAIN Y
        <4>1. At(X (+) Y, e) = 0
          BY <2>3, <3>2 DEF At
        <4> QED BY <2>1, <2>2, <3>2, <4>1
      <3> QED BY <3>1, <3>2
    <2> QED BY <2>3, <2>4
  <1>4. /\ \A e : At(B (+) L, e) = At(B, e) + At(L, e) /\ At(B (+) L, e) \in Nat
        /\ \A e : At(B (+) C, e) = At(B, e) + At(C, e) /\ At(B (+) C, e) \in Nat
        /\ \A e : At(L (+) C, e) = At(L, e) + At(C, e) /\ At(L (+) C, e) \in Nat
        /\ DOMAIN (B (+) L) = DOMAIN B \cup DOMAIN L
        /\ DOMAIN (B (+) C) = DOMAIN B \cup DOMAIN C
        /\ DOMAIN (L (+) C) = DOMAIN L \cup DOMAIN C
    <2>1. /\ \A e : At(B (+) L, e) = At(B, e) + At(L, e)
          /\ DOMAIN (B (+) L) = DOMAIN B \cup DOMAIN L
      BY <1>1, <1>3
    <2>2. /\ \A e : At(B (+) C, e) = At(B, e) + At(C, e)
          /\ DOMAIN (B (+) C) = DOMAIN B \cup DOMAIN C
      BY <1>1, <1>3
    <2>3. /\ \A e : At(L (+) C, e) = At(L, e) + At(C, e)
          /\ DOMAIN (L (+) C) = DOMAIN L \cup DOMAIN C
      BY <1>1, <1>3
    <2> QED BY <1>1, <2>1, <2>2, <2>3
  <1>5. (B (+) L) (+) C = [e \in DOMAIN B \cup DOMAIN L \cup DOMAIN C |->
                             At(B, e) + At(L, e) + At(C, e)]
    <2>1. (B (+) L) (+) C = [e \in DOMAIN (B (+) L) \cup DOMAIN C |-> At(B (+) L, e) + At(C, e)]
      BY <1>2
    <2> QED BY <1>4, <2>1
  <1>6. (B (+) C) (+) L = [e \in DOMAIN B \cup DOMAIN L \cup DOMAIN C |->
                             At(B, e) + At(L, e) + At(C, e)]
    <2>1. (DOMAIN B \cup DOMAIN C) \cup DOMAIN L = DOMAIN B \cup DOMAIN L \cup DOMAIN C
      OBVIOUS
    <2>2. \A e : At(B, e) + At(C, e) + At(L, e) = At(B, e) + At(L, e) + At(C, e)
      BY <1>1
    <2>3. (B (+) C) (+) L = [e \in (DOMAIN B \cup DOMAIN C) \cup DOMAIN L |->
                               At(B, e) + At(C, e) + At(L, e)]
      BY <1>2, <1>4
    <2> QED BY <2>1, <2>2, <2>3
  <1>7. B (+) (L (+) C) = [e \in DOMAIN B \cup DOMAIN L \cup DOMAIN C |->
                             At(B, e) + At(L, e) + At(C, e)]
    <2>1. DOMAIN B \cup (DOMAIN L \cup DOMAIN C) = DOMAIN B \cup DOMAIN L \cup DOMAIN C
      OBVIOUS
    <2>2. \A e : At(B, e) + (At(L, e) + At(C, e)) = At(B, e) + At(L, e) + At(C, e)
      BY <1>1
    <2>3. B (+) (L (+) C) = [e \in DOMAIN B \cup (DOMAIN L \cup DOMAIN C) |->
                               At(B, e) + (At(L, e) + At(C, e))]
      BY <1>2, <1>4
    <2> QED BY <2>1, <2>2, <2>3
  <1>8. IsABag(B (+) L)
    <2>1. ASSUME NEW e \in DOMAIN B \cup DOMAIN L
          PROVE  (B (+) L)[e] \in {n \in Nat : n > 0}
      <3>1. (B (+) L)[e] = At(B, e) + At(L, e)
        BY <1>2, <2>1
      <3>2. At(B, e) > 0 \/ At(L, e) > 0
        BY <2>1 DEF At, IsABag
      <3> QED BY <1>1, <3>1, <3>2
    <2>2. B (+) L = [e \in DOMAIN B \cup DOMAIN L |-> (B (+) L)[e]]
      BY <1>2
    <2> QED BY <2>1, <2>2 DEF IsABag
  <1>9. DOMAIN EmptyBag = {} /\ IsABag(EmptyBag)
    BY DEF EmptyBag, SetToBag, IsABag
  <1>10. B (+) EmptyBag = B
    <2>1. \A e \in DOMAIN B : At(B, e) + At(EmptyBag, e) = B[e]
      BY <1>1, <1>9 DEF At
    <2>2. B (+) EmptyBag = [e \in DOMAIN B |-> At(B, e) + At(EmptyBag, e)]
      BY <1>2, <1>9
    <2>3. B = [e \in DOMAIN B |-> B[e]]
      BY DEF IsABag
    <2> QED BY <2>1, <2>2, <2>3
  <1> QED BY <1>5, <1>6, <1>7, <1>8, <1>9, <1>10

LEMMA MinusAside ==
  ASSUME NEW B, IsABag(B), NEW L, IsABag(L), NEW C, IsABag(C),
         DOMAIN C \subseteq DOMAIN B, \A e \in DOMAIN C : C[e] <= B[e]
  PROVE  (B (+) L) (-) C = (B (-) C) (+) L
  <1> DEFINE At(X, e) == IF e \in DOMAIN X THEN X[e] ELSE 0
             S == {e \in DOMAIN B : At(B, e) - At(C, e) > 0}
             T == {e \in DOMAIN B \cup DOMAIN L : (At(B, e) + At(L, e)) - At(C, e) > 0}
  <1>1. \A e : At(B, e) \in Nat /\ At(L, e) \in Nat /\ At(C, e) \in Nat
    BY DEF IsABag
  <1>2. \A e : At(C, e) <= At(B, e)
    <2> TAKE e
    <2>1. CASE e \in DOMAIN C
      BY <2>1 DEF IsABag
    <2>2. CASE e \notin DOMAIN C
      BY <1>1, <2>2
    <2> QED BY <2>1, <2>2
  <1>3. ASSUME NEW X, \A e : At(X, e) \in Nat
        PROVE  X (-) C = [e \in {d \in DOMAIN X : At(X, d) - At(C, d) > 0} |-> At(X, e) - At(C, e)]
    <2> DEFINE D == [e \in DOMAIN X |-> IF e \in DOMAIN C THEN X[e] - C[e] ELSE X[e]]
    <2>1. \A e \in DOMAIN X : D[e] = At(X, e) - At(C, e)
      <3> TAKE e \in DOMAIN X
      <3>1. CASE e \in DOMAIN C
        BY <3>1
      <3>2. CASE e \notin DOMAIN C
        <4>1. At(X, e) = X[e] /\ At(C, e) = 0 /\ X[e] \in Nat
          BY <1>3, <3>2
        <4> QED BY <3>2, <4>1
      <3> QED BY <3>1, <3>2
    <2>2. X (-) C = [e \in {d \in DOMAIN D : D[d] > 0} |-> D[e]]
      BY DEF (-)
    <2>3. DOMAIN D = DOMAIN X
      OBVIOUS
    <2> HIDE DEF D, At
    <2>4. {d \in DOMAIN D : D[d] > 0} = {d \in DOMAIN X : At(X, d) - At(C, d) > 0}
      BY <2>1, <2>3
    <2> QED BY <2>1, <2>2, <2>4
  <1>4. ASSUME NEW X, NEW Y
        PROVE  X (+) Y = [e \in DOMAIN X \cup DOMAIN Y |-> At(X, e) + At(Y, e)]
    BY DEF (+)
  <1>5. \A e : At(B (+) L, e) = At(B, e) + At(L, e)
    <2> TAKE e
    <2>1. CASE e \in DOMAIN B \cup DOMAIN L
      <3> HIDE DEF At
      <3>1. (B (+) L)[e] = At(B, e) + At(L, e) /\ e \in DOMAIN (B (+) L)
        BY <1>4, <2>1
      <3> QED BY <3>1 DEF At
    <2>2. CASE e \notin DOMAIN B \cup DOMAIN L
      <3>1. DOMAIN (B (+) L) = DOMAIN B \cup DOMAIN L
        BY <1>4
      <3> QED BY <2>2, <3>1
    <2> QED BY <2>1, <2>2
  <1>6. (B (+) L) (-) C = [e \in T |-> (At(B, e) + At(L, e)) - At(C, e)]
    <2> HIDE DEF At
    <2> DEFINE U == B (+) L
    <2>1. \A e : At(U, e) = At(B, e) + At(L, e) /\ At(U, e) \in Nat
      BY <1>1, <1>5
    <2>2. DOMAIN U = DOMAIN B \cup DOMAIN L
      BY <1>4
    <2> HIDE DEF U
    <2>3. U (-) C = [e \in {d \in DOMAIN U : At(U, d) - At(C, d) > 0} |-> At(U, e) - At(C, e)]
      BY <1>3, <2>1
    <2>4. {d \in DOMAIN U : At(U, d) - At(C, d) > 0} = T
      BY <1>1, <2>1, <2>2
    <2>5. \A e : At(U, e) - At(C, e) = (At(B, e) + At(L, e)) - At(C, e)
      BY <2>1
    <2> HIDE DEF T
    <2>6. U (-) C = [e \in T |-> (At(B, e) + At(L, e)) - At(C, e)]
      BY <2>3, <2>4, <2>5
    <2> QED BY <2>6 DEF U
  <1>7. B (-) C = [e \in S |-> At(B, e) - At(C, e)]
    <2> HIDE DEF At
    <2> QED BY <1>1, <1>3
  <1>8. \A e : At(B (-) C, e) = At(B, e) - At(C, e)
    <2> TAKE e
    <2>1. CASE e \in S
      <3> HIDE DEF S
      <3> HIDE DEF At
      <3>1. (B (-) C)[e] = At(B, e) - At(C, e) /\ e \in DOMAIN (B (-) C)
        BY <1>7, <2>1
      <3> QED BY <3>1 DEF At
    <2>2. CASE e \notin S
      <3>1. At(B (-) C, e) = 0
        BY <1>7, <2>2
      <3>2. e \notin DOMAIN B => At(B, e) = 0
        OBVIOUS
      <3>3. At(B, e) - At(C, e) = 0
        <4> HIDE DEF At
        <4>1. ~ (At(B, e) - At(C, e) > 0) \/ At(B, e) = 0
          BY <2>2, <3>2
        <4>2. At(B, e) \in Nat /\ At(C, e) \in Nat /\ At(C, e) <= At(B, e)
          BY <1>1, <1>2
        <4> QED BY <4>1, <4>2
      <3> QED BY <3>1, <3>3
    <2> QED BY <2>1, <2>2
  <1>9. T = S \cup DOMAIN L
    <2>1. \A e \in DOMAIN L : At(L, e) > 0
      BY DEF IsABag
    <2>2. \A e : e \notin DOMAIN L => At(L, e) = 0
      OBVIOUS
    <2>3. \A e : e \notin DOMAIN B => At(B, e) = 0
      OBVIOUS
    <2> HIDE DEF At
    <2> QED BY <1>1, <1>2, <2>1, <2>2, <2>3
  <1>10. (B (-) C) (+) L = [e \in S \cup DOMAIN L |-> (At(B, e) - At(C, e)) + At(L, e)]
    <2> HIDE DEF At, S
    <2>1. DOMAIN (B (-) C) = S
      BY <1>7
    <2> QED BY <1>4, <1>8, <2>1
  <1> HIDE DEF At, S, T
  <1>11. \A e : (At(B, e) - At(C, e)) + At(L, e) = (At(B, e) + At(L, e)) - At(C, e)
    BY <1>1
  <1> QED BY <1>6, <1>9, <1>10, <1>11

\* The entries of handles beside L: more handles, and fewer.
LEMMA PlusMore ==
  ASSUME NEW K, IsFiniteSet(K), NEW M, IsFiniteSet(M), K \cap M = {}, NEW L, IsABag(L)
  PROVE  (EntriesOf(K) (+) L) (+) EntriesOf(M) = EntriesOf(K \cup M) (+) L
  <1>1. IsABag(EntriesOf(K)) /\ IsABag(EntriesOf(M))
    BY EntriesBag
  <1>2. (EntriesOf(K) (+) L) (+) EntriesOf(M) = (EntriesOf(K) (+) EntriesOf(M)) (+) L
    BY <1>1, PlusAside
  <1> QED BY <1>2, PlusEntries

LEMMA MinusMore ==
  ASSUME NEW K, IsFiniteSet(K), NEW M, M \subseteq K, NEW L, IsABag(L)
  PROVE  (EntriesOf(K) (+) L) (-) EntriesOf(M) = EntriesOf(K \ M) (+) L
  <1>1. IsFiniteSet(M)
    BY FS_Subset
  <1>2. (EntriesOf(K) (+) L) (-) EntriesOf(M) = (EntriesOf(K) (-) EntriesOf(M)) (+) L
    BY <1>1, EntriesBag, SubEntries, MinusAside
  <1> QED BY <1>2, MinusEntries

-----------------------------------------------------------------------------
\* WlanClients: types and prefixes

\* Types
HeaderEntries == [ap : Aps, mac : Stations, fam : Families]
RuleEntries == [tbl : {"lan_v4", "lan_v6", "wan_v6"}, addr : V4 \cup V6,
                hdr : HeaderEntries \cup {None}]
WlanClient ==
  [mac : Stations, v4 : V4 \cup {None}, v6 : Seq(V6),
   hdr : [Families -> HeaderEntries], rt : [Families -> Seq(RuleEntries)]]

LEMMA NeedsTyped ==
  ASSUME NEW c \in WlanClient, NEW fam \in Families
  PROVE  Needs(c, fam) \in Seq(RuleEntries)
  <1>1. "v4" \in Families /\ c.hdr.v4 \in HeaderEntries /\ c.hdr.v6 \in HeaderEntries
    BY DEF WlanClient, Families
  <1>2. CASE fam = "v4"
    <2>1. CASE c.v4 = None
      BY <1>2, <2>1 DEF Needs
    <2>2. CASE c.v4 # None
      <3>1. Rule("lan_v4", c.v4, c.hdr.v4) \in RuleEntries
        BY <1>1, <2>2 DEF WlanClient, Rule, RuleEntries
      <3> QED BY <1>2, <2>2, <3>1 DEF Needs
    <2> QED BY <2>1, <2>2
  <1>3. CASE fam # "v4"
    <2> DEFINE m == Len(c.v6)
    <2>1. c.v6 \in Seq(V6) /\ m \in Nat
      BY DEF WlanClient
    <2>2. ASSUME NEW n \in 1 .. 2 * m
          PROVE  (IF n % 2 = 1 THEN Rule("lan_v6", c.v6[(n + 1) \div 2], None)
                  ELSE Rule("wan_v6", c.v6[n \div 2], c.hdr.v6)) \in RuleEntries
      <3>1. CASE n % 2 = 1
        <4>1. (n + 1) \div 2 \in 1 .. m
          BY <2>1, <3>1
        <4>2. c.v6[(n + 1) \div 2] \in V6
          BY <2>1, <4>1
        <4> QED BY <3>1, <4>2 DEF Rule, RuleEntries
      <3>2. CASE n % 2 # 1
        <4>1. n \div 2 \in 1 .. m
          BY <2>1, <3>2
        <4>2. c.v6[n \div 2] \in V6
          BY <2>1, <4>1
        <4> QED BY <1>1, <3>2, <4>2 DEF Rule, RuleEntries
      <3> QED BY <3>1, <3>2
    <2>3. 2 * m \in Nat
      BY <2>1
    <2>4. Needs(c, fam) \in [1 .. 2 * m -> RuleEntries]
      BY <1>3, <2>2 DEF Needs
    <2> QED BY <2>3, <2>4, SeqDef
  <1> QED BY <1>2, <1>3

LEMMA PrefixFacts ==
  ASSUME NEW S, NEW s \in Seq(S), NEW t \in Seq(S)
  PROVE  /\ IsPrefix(s, t) <=> Len(s) <= Len(t) /\ \A n \in 1 .. Len(s) : s[n] = t[n]
         /\ IsPrefix(s, t) => s \o SubSeq(t, Len(s) + 1, Len(t)) = t
         /\ IsPrefix(<<>>, t) /\ IsPrefix(t, t)
  <1>1. IsPrefix(s, t) <=> Len(s) <= Len(t) /\ \A n \in 1 .. Len(s) : s[n] = t[n]
    <2>1. SubSeq(s, 1, Len(s)) = s
      OBVIOUS
    <2>2. ASSUME Len(s) <= Len(t)
          PROVE  SubSeq(t, 1, Len(s)) = s <=> \A n \in 1 .. Len(s) : s[n] = t[n]
      <3>1. SubSeq(t, 1, Len(s)) = [n \in 1 .. Len(s) |-> t[n]]
        BY <2>2
      <3>2. s = [n \in 1 .. Len(s) |-> s[n]]
        OBVIOUS
      <3> QED BY <3>1, <3>2
    <2> QED BY <2>1, <2>2 DEF IsPrefix
  <1>2. ASSUME IsPrefix(s, t) PROVE s \o SubSeq(t, Len(s) + 1, Len(t)) = t
    <2> DEFINE u == s \o SubSeq(t, Len(s) + 1, Len(t))
    <2>1. u \in Seq(S) /\ Len(u) = Len(t)
      BY <1>1, <1>2
    <2>2. \A n \in 1 .. Len(t) : u[n] = t[n]
      BY <1>1, <1>2
    <2> QED BY <2>1, <2>2, SeqEqual
  <1>3. IsPrefix(<<>>, t) /\ IsPrefix(t, t)
    BY DEF IsPrefix
  <1> QED BY <1>1, <1>2, <1>3

-----------------------------------------------------------------------------
\* WlanClients: what a client holds

\* The rules of a client are those it needs, in their order, from the first on.
RulesFit(c) == \A fam \in Families : IsPrefix(c.rt[fam], Needs(c, fam))

LEMMA HandlesFinite ==
  ASSUME NEW c \in WlanClient
  PROVE  /\ \A fam \in Families : IsFiniteSet(RuleHandles(c, fam))
         /\ IsFiniteSet(HeaderHandles(c)) /\ IsFiniteSet(Handles(c))
         /\ \A k \in Handles(c) : k.of = c.hdr
         /\ \A fam \in Families : RuleHandles(c, fam) \subseteq Handles(c)
  <1>1. ASSUME NEW fam \in Families PROVE IsFiniteSet(RuleHandles(c, fam))
    <2> DEFINE D == DOMAIN c.rt[fam]
               f == [n \in D |-> Handle(c, fam, n, c.rt[fam][n])]
    <2>1. IsFiniteSet(D)
      <3>1. c.rt[fam] \in Seq(RuleEntries)
        BY DEF WlanClient
      <3>2. D = 1 .. Len(c.rt[fam]) /\ Len(c.rt[fam]) \in Nat
        BY <3>1
      <3>3. \A m \in Nat : IsFiniteSet(1 .. m)
        BY FS_Interval
      <3> QED BY <3>2, <3>3
    <2>2. f \in Surjection(D, RuleHandles(c, fam))
      <3>1. RuleHandles(c, fam) = {Handle(c, fam, n, c.rt[fam][n]) : n \in D}
        BY DEF RuleHandles
      <3>2. f \in [D -> RuleHandles(c, fam)]
        BY <3>1
      <3>3. \A k \in RuleHandles(c, fam) : \E n \in D : f[n] = k
        BY <3>1
      <3> QED BY <3>2, <3>3 DEF Surjection
    <2> QED BY <2>1, <2>2, FS_Surjection
  <1>2. HeaderHandles(c) = {Handle(c, "v4", 0, c.hdr["v4"])} \cup {Handle(c, "v6", 0, c.hdr["v6"])}
    BY DEF HeaderHandles, Families
  <1>3. IsFiniteSet(HeaderHandles(c))
    <2>1. \A x, y : IsFiniteSet({x} \cup {y})
      BY FS_Singleton, FS_Union
    <2> QED BY <1>2, <2>1
  <1>4. IsFiniteSet(Handles(c))
    <2>1. IsFiniteSet(RuleHandles(c, "v4")) /\ IsFiniteSet(RuleHandles(c, "v6"))
      BY <1>1 DEF Families
    <2>2. IsFiniteSet(HeaderHandles(c) \cup RuleHandles(c, "v4"))
      BY <1>3, <2>1, FS_Union
    <2> QED BY <2>1, <2>2, FS_Union DEF Handles
  <1>5. \A k \in Handles(c) : k.of = c.hdr
    BY DEF Handles, HeaderHandles, RuleHandles, Handle
  <1>6. \A fam \in Families : RuleHandles(c, fam) \subseteq Handles(c)
    BY DEF Handles, Families
  <1> QED BY <1>1, <1>3, <1>4, <1>5, <1>6

\* A handle of a rule is not one of a header or of the other family.
LEMMA OtherHandles ==
  ASSUME NEW c \in WlanClient, NEW d \in WlanClient, NEW fam \in Families, NEW g \in Families
  PROVE  /\ RuleHandles(d, fam) \cap HeaderHandles(c) = {}
         /\ fam # g => RuleHandles(d, fam) \cap RuleHandles(c, g) = {}
  <1>1. \A k \in RuleHandles(d, fam) : k.n # 0 /\ k.fam = fam
    <2>1. d.rt[fam] \in Seq(RuleEntries)
      BY DEF WlanClient
    <2>2. \A n \in DOMAIN d.rt[fam] : n # 0
      BY <2>1
    <2> QED BY <2>2 DEF RuleHandles, Handle
  <1>2. \A k \in HeaderHandles(c) : k.n = 0
    BY DEF HeaderHandles, Handle
  <1>3. \A k \in RuleHandles(c, g) : k.fam = g
    BY DEF RuleHandles, Handle
  <1> QED BY <1>1, <1>2, <1>3

\* c is one of the clients, the others have the handles O, and the hardware h
\* has the entries of all these handles and beside them the bag L.
Holds(O, L, c, h) == IsABag(L) /\ h = EntriesOf(O \cup Handles(c)) (+) L
OfOthers(O, c) == IsFiniteSet(O) /\ \A k \in O : k.of # c.hdr

\* A client gets the rules it lacks, or none and some are left.
LEMMA RouteHolds ==
  ASSUME NEW c \in WlanClient, NEW fam \in Families, NEW h, NEW O, NEW L,
         OfOthers(O, c), Holds(O, L, c, h), RulesFit(c), NEW r \in Route(c, fam, h)
  PROVE  /\ r.c \in WlanClient /\ r.c = [c EXCEPT !.rt = r.c.rt] /\ RulesFit(r.c)
         /\ Holds(O, L (+) r.left, r.c, r.h) /\ IsABag(r.left)
  <1> DEFINE d == [c EXCEPT !.rt[fam] = @ \o Lacks(c, fam)]
             New == RuleHandles(d, fam) \ RuleHandles(c, fam)
  <1>1. /\ c.rt \in [Families -> Seq(RuleEntries)] /\ c.rt[fam] \in Seq(RuleEntries)
        /\ Needs(c, fam) \in Seq(RuleEntries) /\ IsPrefix(c.rt[fam], Needs(c, fam))
    BY NeedsTyped DEF WlanClient, RulesFit
  <1>2. c.rt[fam] \o Lacks(c, fam) = Needs(c, fam)
    BY <1>1, PrefixFacts DEF Lacks
  <1>3. d = [c EXCEPT !.rt = [c.rt EXCEPT ![fam] = Needs(c, fam)]]
    BY <1>2
  <1>4. /\ d \in WlanClient /\ d.rt = [c.rt EXCEPT ![fam] = Needs(c, fam)]
        /\ d = [c EXCEPT !.rt = d.rt] /\ d.hdr = c.hdr /\ d.v4 = c.v4 /\ d.v6 = c.v6
    BY <1>1, <1>3 DEF WlanClient
  <1> HIDE DEF d
  <1>5. \A g \in Families : Needs(d, g) = Needs(c, g)
    BY <1>4 DEF Needs
  <1>6. RulesFit(d)
    <2> SUFFICES ASSUME NEW g \in Families PROVE IsPrefix(d.rt[g], Needs(d, g))
      BY DEF RulesFit
    <2>1. CASE g = fam
      BY <1>1, <1>4, <1>5, <2>1, PrefixFacts
    <2>2. CASE g # fam
      BY <1>1, <1>4, <1>5, <2>2 DEF RulesFit
    <2> QED BY <2>1, <2>2
  <1>7. RuleHandles(c, fam) \subseteq RuleHandles(d, fam)
    <2>1. d.rt[fam] = Needs(c, fam)
      BY <1>1, <1>4
    <2>2. \A n \in DOMAIN c.rt[fam] : n \in DOMAIN d.rt[fam] /\ d.rt[fam][n] = c.rt[fam][n]
      BY <1>1, <2>1, PrefixFacts
    <2> QED BY <1>4, <2>2 DEF RuleHandles, Handle
  <1>8. /\ HeaderHandles(d) = HeaderHandles(c)
        /\ \A g \in Families \ {fam} : RuleHandles(d, g) = RuleHandles(c, g)
    BY <1>1, <1>4 DEF HeaderHandles, RuleHandles, Handle
  <1>9. Handles(d) = Handles(c) \cup New
    BY <1>7, <1>8 DEF Handles, Families
  <1>10. New \cap (O \cup Handles(c)) = {}
    <2>1. New \cap Handles(c) = {}
      BY <1>4, OtherHandles DEF Handles, Families
    <2>2. \A k \in New : k.of = c.hdr
      BY <1>4, HandlesFinite
    <2> QED BY <2>1, <2>2 DEF OfOthers
  <1>11. IsFiniteSet(New) /\ IsFiniteSet(O \cup Handles(c))
    BY <1>4, HandlesFinite, FS_Difference, FS_Union DEF OfOthers
  <1>12. h (+) EntriesOf(New) = EntriesOf(O \cup Handles(d)) (+) L
    <2>1. (O \cup Handles(c)) \cup New = O \cup Handles(d)
      BY <1>9
    <2> QED BY <1>10, <1>11, <2>1, PlusMore DEF Holds
  <1>13. \/ r = [c |-> d, h |-> h (+) EntriesOf(New), left |-> EmptyBag]
         \/ \E x \in New : r = [c |-> c, h |-> h (+) EntriesOf({k \in New : k.n < x.n}),
                                left |-> EntriesOf({k \in New : k.n < x.n})]
    BY DEF Route, d
  <1>14. c = [c EXCEPT !.rt = c.rt]
    BY DEF WlanClient
  <1>15. CASE \E x \in New : r = [c |-> c, h |-> h (+) EntriesOf({k \in New : k.n < x.n}),
                                  left |-> EntriesOf({k \in New : k.n < x.n})]
    <2> PICK x \in New : r = [c |-> c, h |-> h (+) EntriesOf({k \in New : k.n < x.n}),
                              left |-> EntriesOf({k \in New : k.n < x.n})]
      BY <1>15
    <2> DEFINE B == EntriesOf({k \in New : k.n < x.n})
               E == EntriesOf(O \cup Handles(c))
    <2>1. IsABag(B) /\ IsABag(E) /\ IsABag(L)
      <3>1. IsFiniteSet({k \in New : k.n < x.n})
        BY <1>11, FS_Subset
      <3> QED BY <1>11, <3>1, EntriesBag DEF Holds
    <2>2. r.c = c /\ r.left = B /\ r.h = (E (+) L) (+) B
      BY DEF Holds
    <2> HIDE DEF B
    <2>3. r.h = E (+) (L (+) B) /\ IsABag(L (+) B)
      BY <2>1, <2>2, PlusAside
    <2> QED BY <1>14, <2>1, <2>2, <2>3 DEF Holds
  <1>16. CASE r = [c |-> d, h |-> h (+) EntriesOf(New), left |-> EmptyBag]
    <2>1. IsABag(L) /\ L (+) EmptyBag = L /\ IsABag(EmptyBag)
      BY PlusAside DEF Holds
    <2> QED BY <1>4, <1>6, <1>12, <1>16, <2>1 DEF Holds
  <1> QED BY <1>13, <1>15, <1>16

\* A client loses the rules of a family.
LEMMA UnrouteHolds ==
  ASSUME NEW c \in WlanClient, NEW fam \in Families, NEW h, NEW O, NEW L,
         OfOthers(O, c), Holds(O, L, c, h), RulesFit(c)
  PROVE  /\ Unrouted(c, fam) \in WlanClient
         /\ Unrouted(c, fam) = [c EXCEPT !.rt = Unrouted(c, fam).rt]
         /\ Unrouted(c, fam).rt[fam] = <<>>
         /\ RulesFit(Unrouted(c, fam)) /\ Holds(O, L, Unrouted(c, fam), Unroute(c, fam, h))
         /\ Handles(Unrouted(c, fam)) = Handles(c) \ RuleHandles(c, fam)
  <1> DEFINE d == Unrouted(c, fam)
  <1>1. c.rt \in [Families -> Seq(RuleEntries)] /\ d = [c EXCEPT !.rt = [c.rt EXCEPT ![fam] = <<>>]]
    BY DEF WlanClient, Unrouted
  <1>2. /\ d \in WlanClient /\ d.rt = [c.rt EXCEPT ![fam] = <<>>]
        /\ d = [c EXCEPT !.rt = d.rt] /\ d.hdr = c.hdr /\ d.v4 = c.v4 /\ d.v6 = c.v6
    <2>1. <<>> \in Seq(RuleEntries)
      OBVIOUS
    <2>2. [c.rt EXCEPT ![fam] = <<>>] \in [Families -> Seq(RuleEntries)]
      BY <1>1, <2>1
    <2> HIDE DEF d
    <2> QED BY <1>1, <2>2 DEF WlanClient
  <1> HIDE DEF d
  <1>3. RulesFit(d)
    <2> SUFFICES ASSUME NEW g \in Families PROVE IsPrefix(d.rt[g], Needs(d, g))
      BY DEF RulesFit
    <2>1. Needs(d, g) = Needs(c, g)
      BY <1>2 DEF Needs
    <2>2. CASE g = fam
      BY <1>1, <1>2, <2>1, <2>2, NeedsTyped, PrefixFacts
    <2>3. CASE g # fam
      BY <1>1, <1>2, <2>1, <2>3 DEF RulesFit
    <2> QED BY <2>2, <2>3
  <1>4. /\ HeaderHandles(d) = HeaderHandles(c) /\ RuleHandles(d, fam) = {}
        /\ \A g \in Families \ {fam} : RuleHandles(d, g) = RuleHandles(c, g)
    BY <1>1, <1>2 DEF HeaderHandles, RuleHandles, Handle
  <1>5. Handles(d) = Handles(c) \ RuleHandles(c, fam)
    BY <1>4, OtherHandles DEF Handles, Families
  <1>6. Holds(O, L, d, Unroute(c, fam, h))
    <2>1. (O \cup Handles(c)) \ RuleHandles(c, fam) = O \cup Handles(d)
      <3>1. \A k \in RuleHandles(c, fam) : k.of = c.hdr
        BY HandlesFinite
      <3> QED BY <1>5, <3>1 DEF OfOthers
    <2>2. IsFiniteSet(O \cup Handles(c)) /\ RuleHandles(c, fam) \subseteq O \cup Handles(c)
      BY HandlesFinite, FS_Union DEF OfOthers
    <2> QED BY <2>1, <2>2, MinusMore DEF Holds, Unroute
  <1>7. d.rt[fam] = <<>>
    BY <1>1, <1>2
  <1> QED BY <1>2, <1>3, <1>5, <1>6, <1>7 DEF d

\* A client that joins and one that leaves.
LEMMA NewHolds ==
  ASSUME NEW p \in Aps, NEW mac \in Stations, NEW O, NEW L, IsABag(L),
         IsFiniteSet(O), \A k \in O : k.of # NewClient(p, mac).hdr
  PROVE  LET c == NewClient(p, mac)
         IN  /\ c \in WlanClient /\ RulesFit(c)
             /\ c.mac = mac /\ c.v4 = None /\ c.hdr = NewClient(p, c.mac).hdr
             /\ Holds(O, L, c, (EntriesOf(O) (+) L) (+) EntriesOf(HeaderHandles(c)))
  <1> DEFINE c == NewClient(p, mac)
  <1>1. \A fam \in Families : Header(p, mac, fam) \in HeaderEntries
    BY DEF Header, HeaderEntries
  <1>2. /\ c \in WlanClient /\ c.mac = mac /\ c.v4 = None /\ c.v6 = <<>>
        /\ c.rt = [fam \in Families |-> <<>>] /\ c.hdr = NewClient(p, c.mac).hdr
    BY <1>1 DEF NewClient, WlanClient
  <1> HIDE DEF c
  <1>3. RulesFit(c)
    BY <1>2, NeedsTyped, PrefixFacts DEF RulesFit
  <1>4. Handles(c) = HeaderHandles(c)
    BY <1>2 DEF Handles, RuleHandles, Families
  <1>5. O \cap HeaderHandles(c) = {}
    BY <1>2, <1>4, HandlesFinite DEF c
  <1>6. IsFiniteSet(HeaderHandles(c))
    BY <1>2, HandlesFinite
  <1> QED BY <1>2, <1>3, <1>4, <1>5, <1>6, PlusMore DEF Holds, c

LEMMA RemovedHolds ==
  ASSUME NEW c \in WlanClient, NEW h, NEW O, NEW L, OfOthers(O, c), Holds(O, L, c, h)
  PROVE  Removed(c, h) = EntriesOf(O) (+) L
  <1>1. (O \cup Handles(c)) \ Handles(c) = O
    BY HandlesFinite DEF OfOthers
  <1>2. IsFiniteSet(O \cup Handles(c))
    BY HandlesFinite, FS_Union DEF OfOthers
  <1> QED BY <1>1, <1>2, MinusMore DEF Holds, Removed

\* A client whose IPv4 rule is gone takes another address; one more IPv6
\* address needs rules behind those of the others.
LEMMA TakesV4 ==
  ASSUME NEW c \in WlanClient, RulesFit(c), c.rt["v4"] = <<>>, NEW ip \in V4, NEW h, NEW O,
         NEW L, Holds(O, L, c, h)
  PROVE  LET d == [c EXCEPT !.v4 = ip]
         IN  d \in WlanClient /\ RulesFit(d) /\ Holds(O, L, d, h)
  <1> DEFINE d == [c EXCEPT !.v4 = ip]
  <1>1. /\ d \in WlanClient /\ d.rt = c.rt /\ d.hdr = c.hdr /\ d.v6 = c.v6
    BY DEF WlanClient
  <1> HIDE DEF d
  <1>2. RulesFit(d)
    <2>1. IsPrefix(d.rt["v4"], Needs(d, "v4"))
      BY <1>1, NeedsTyped, PrefixFacts DEF Families
    <2>2. Needs(d, "v6") = Needs(c, "v6")
      BY <1>1 DEF Needs
    <2> QED BY <1>1, <2>1, <2>2 DEF RulesFit, Families
  <1>3. Handles(d) = Handles(c)
    BY <1>1 DEF Handles, HeaderHandles, RuleHandles, Handle
  <1> QED BY <1>1, <1>2, <1>3 DEF Holds, d

LEMMA TakesV6 ==
  ASSUME NEW c \in WlanClient, RulesFit(c), NEW ip \in V6, NEW h, NEW O, NEW L,
         Holds(O, L, c, h)
  PROVE  LET d == [c EXCEPT !.v6 = Append(@, ip)]
         IN  d \in WlanClient /\ RulesFit(d) /\ Holds(O, L, d, h)
  <1> DEFINE d == [c EXCEPT !.v6 = Append(@, ip)]
  <1>1. /\ d \in WlanClient /\ d.rt = c.rt /\ d.hdr = c.hdr /\ d.v4 = c.v4
        /\ d.v6 = Append(c.v6, ip) /\ c.v6 \in Seq(V6)
    <2>1. c.v6 \in Seq(V6) /\ d = [c EXCEPT !.v6 = Append(c.v6, ip)]
      BY DEF WlanClient
    <2>2. Append(c.v6, ip) \in Seq(V6)
      BY <2>1
    <2> HIDE DEF d
    <2> QED BY <2>1, <2>2 DEF WlanClient
  <1> HIDE DEF d
  <1>2. RulesFit(d)
    <2>1. Needs(d, "v4") = Needs(c, "v4")
      BY <1>1 DEF Needs
    <2>2. IsPrefix(Needs(c, "v6"), Needs(d, "v6"))
      <3> DEFINE m == Len(c.v6)
      <3>1. m \in Nat /\ Len(d.v6) = m + 1 /\ \A j \in 1 .. m : d.v6[j] = c.v6[j]
        BY <1>1
      <3>2. /\ Needs(c, "v6") \in Seq(RuleEntries) /\ Len(Needs(c, "v6")) = 2 * m
            /\ Needs(d, "v6") \in Seq(RuleEntries) /\ Len(Needs(d, "v6")) = 2 * (m + 1)
        <4>1. Needs(c, "v6") \in Seq(RuleEntries) /\ Needs(d, "v6") \in Seq(RuleEntries)
          BY <1>1, NeedsTyped DEF Families
        <4>2. DOMAIN Needs(c, "v6") = 1 .. 2 * m /\ DOMAIN Needs(d, "v6") = 1 .. 2 * (m + 1)
          BY <3>1 DEF Needs
        <4>3. 2 * m \in Nat /\ 2 * (m + 1) \in Nat
          BY <3>1
        <4> HIDE DEF m
        <4>4. Len(Needs(c, "v6")) = 2 * m
          BY <4>1, <4>2, <4>3
        <4>5. Len(Needs(d, "v6")) = 2 * (m + 1)
          BY <4>1, <4>2, <4>3
        <4> QED BY <4>1, <4>4, <4>5
      <3>3. \A n \in 1 .. 2 * m : Needs(c, "v6")[n] = Needs(d, "v6")[n]
        <4> TAKE n \in 1 .. 2 * m
        <4>1. n % 2 = 1 => (n + 1) \div 2 \in 1 .. m
          BY <3>1
        <4>2. n % 2 # 1 => n \div 2 \in 1 .. m
          BY <3>1
        <4>3. n \in 1 .. 2 * Len(d.v6)
          BY <3>1
        <4> QED BY <1>1, <3>1, <4>1, <4>2, <4>3 DEF Needs
      <3>4. Len(Needs(c, "v6")) <= Len(Needs(d, "v6"))
        BY <3>1, <3>2
      <3> HIDE DEF m
      <3> QED BY <3>2, <3>3, <3>4, PrefixFacts
    <2>3. IsPrefix(d.rt["v6"], Needs(d, "v6"))
      <3>1. c.rt["v6"] \in Seq(RuleEntries) /\ IsPrefix(c.rt["v6"], Needs(c, "v6"))
        BY DEF WlanClient, RulesFit, Families
      <3>2. Needs(c, "v6") \in Seq(RuleEntries) /\ Needs(d, "v6") \in Seq(RuleEntries)
        BY <1>1, NeedsTyped DEF Families
      <3> QED BY <1>1, <2>2, <3>1, <3>2, PrefixFacts
    <2> QED BY <1>1, <2>1, <2>3 DEF RulesFit, Families
  <1>3. Handles(d) = Handles(c)
    BY <1>1 DEF Handles, HeaderHandles, RuleHandles, Handle
  <1> QED BY <1>1, <1>2, <1>3 DEF Holds, d

-----------------------------------------------------------------------------
\* WlanClients: slots, the neighbour cache and the inductive invariant

LEMMA LeastOf ==
  ASSUME NEW T, T \subseteq Nat, T # {}
  PROVE  \E m \in T : \A k \in T : m <= k
  <1>1. PICK m \in T : \A k \in T : ~ (<<k, m>> \in OpToRel(<, Nat))
    BY NatLessThanWellFounded, WFMin
  <1>2. \A k \in T : ~ (k < m)
    BY <1>1 DEF OpToRel
  <1> QED BY <1>2

LEMMA ImageFinite ==
  ASSUME NEW S, IsFiniteSet(S), NEW f, f = [x \in S |-> f[x]]
  PROVE  IsFiniteSet({f[x] : x \in S})
  <1>1. f \in Surjection(S, {f[x] : x \in S})
    BY DEF Surjection
  <1> QED BY <1>1, FS_Surjection

LEMMA RangeFinite ==
  ASSUME NEW S, NEW s \in Seq(S)
  PROVE  IsFiniteSet(Range(s)) /\ IsFiniteSet(DOMAIN s)
  <1>1. DOMAIN s = 1 .. Len(s) /\ Len(s) \in Nat /\ s = [i \in DOMAIN s |-> s[i]]
    OBVIOUS
  <1>2. IsFiniteSet(DOMAIN s)
    <2>1. \A m \in Nat : IsFiniteSet(1 .. m)
      BY FS_Interval
    <2> QED BY <1>1, <2>1
  <1> QED BY <1>1, <1>2, ImageFinite DEF Range

LEMMA RemoveFacts ==
  ASSUME NEW S, NEW s \in Seq(S), NEW i \in 1 .. Len(s)
  PROVE  /\ RemoveAt(s, i) \in Seq(S) /\ Len(RemoveAt(s, i)) = Len(s) - 1
         /\ \A j \in 1 .. Len(s) - 1 : RemoveAt(s, i)[j] = IF j < i THEN s[j] ELSE s[j + 1]
  <1> DEFINE a == SubSeq(s, 1, i - 1)
             b == SubSeq(s, i + 1, Len(s))
  <1>1. a \in Seq(S) /\ Len(a) = i - 1 /\ \A j \in 1 .. i - 1 : a[j] = s[j]
    OBVIOUS
  <1>2. b \in Seq(S) /\ Len(b) = Len(s) - i /\ \A j \in 1 .. Len(s) - i : b[j] = s[i + j]
    OBVIOUS
  <1>3. RemoveAt(s, i) = a \o b
    BY DEF RemoveAt
  <1> HIDE DEF a, b
  <1>4. RemoveAt(s, i) \in Seq(S) /\ Len(RemoveAt(s, i)) = Len(s) - 1
    BY <1>1, <1>2, <1>3
  <1>5. ASSUME NEW j \in 1 .. Len(s) - 1
        PROVE  RemoveAt(s, i)[j] = IF j < i THEN s[j] ELSE s[j + 1]
    <2>1. (a \o b)[j] = IF j <= Len(a) THEN a[j] ELSE b[j - Len(a)]
      BY <1>1, <1>2, ConcatProperties
    <2>2. CASE j < i
      BY <1>1, <1>3, <2>1, <2>2
    <2>3. CASE ~ (j < i)
      <3>1. j - Len(a) \in 1 .. Len(s) - i /\ i + (j - Len(a)) = j + 1 /\ ~ (j <= Len(a))
        BY <1>1, <2>3
      <3> QED BY <1>2, <1>3, <2>1, <2>3, <3>1
    <2> QED BY <2>2, <2>3
  <1> QED BY <1>4, <1>5

\* The inductive invariant
Neighbors == [mac : Stations, num : Aps, v4 : V4 \cup {None}]
AddrEvents == [ap : Aps, mac : Stations, fam : {"v4"}, ip : V4]
                \cup [ap : Aps, mac : Stations, fam : {"v6"}, ip : V6]
WlanTypeOK ==
  /\ active \in [Aps -> BOOLEAN]
  /\ slots \in [Aps -> Seq(WlanClient)]
  /\ cache \in Seq(Neighbors) /\ Len(cache) <= MaxNeighbors /\ circular \in 1 .. MaxNeighbors
  /\ queue \in Seq(AddrEvents)
  /\ joined \subseteq Aps \X Stations

\* A slot has a station that joined, in no other slot, with its headers.
SlotsOK ==
  \A p \in Aps :
    /\ Len(slots[p]) <= MaxStations
    /\ ~ active[p] => slots[p] = <<>>
    /\ \A i \in DOMAIN slots[p] :
         LET c == slots[p][i]
         IN  /\ c.hdr = NewClient(p, c.mac).hdr /\ RulesFit(c) /\ <<p, c.mac>> \in joined
             /\ \A j \in DOMAIN slots[p] : slots[p][j].mac = c.mac => j = i

AllHandles == UNION {Handles(c) : c \in AllClients}
HwOK == IsABag(lost) /\ hw = EntriesOf(AllHandles) (+) lost

\* IPACM_Neighbor has a station once.  While its access point has it too, the last
\* news of its IPv4 address that waits is the address known, and with no such news
\* the station has that address.
IsNews(n, e) == e.ap = n.num /\ e.mac = n.mac /\ e.fam = "v4"
NoNews(n) == \A q \in DOMAIN queue : ~ IsNews(n, queue[q])
LastNews(n) ==
  \E q \in DOMAIN queue : /\ IsNews(n, queue[q]) /\ queue[q].ip = n.v4
                          /\ \A r \in DOMAIN queue : r > q => ~ IsNews(n, queue[r])
CacheOK == \A i, j \in DOMAIN cache : cache[i].mac = cache[j].mac => i = j
KnownOK ==
  \A i \in DOMAIN cache : cache[i].v4 # None =>
    LET n == cache[i]
    IN  \A k \in DOMAIN slots[n.num] : slots[n.num][k].mac = n.mac =>
          LastNews(n) \/ (NoNews(n) /\ slots[n.num][k].v4 = n.v4)

WlanInv == WlanTypeOK /\ SlotsOK /\ HwOK /\ RecordsAgree /\ CacheOK /\ KnownOK

LEMMA IndexFacts ==
  ASSUME WlanTypeOK, NEW p \in Aps, NEW mac
  PROVE  /\ IndexOf(p, mac) \in 0 .. Len(slots[p])
         /\ IndexOf(p, mac) = 0 => \A i \in DOMAIN slots[p] : slots[p][i].mac # mac
         /\ IndexOf(p, mac) # 0 => slots[p][IndexOf(p, mac)].mac = mac
                                   /\ IndexOf(p, mac) \in DOMAIN slots[p]
  <1> DEFINE I == {i \in 1 .. Len(slots[p]) : slots[p][i].mac = mac}
  <1>1. DOMAIN slots[p] = 1 .. Len(slots[p]) /\ Len(slots[p]) \in Nat
    BY DEF WlanTypeOK
  <1>2. IndexOf(p, mac) = IF I # {} THEN Min(I) ELSE 0
    BY DEF IndexOf, SelectInSeq
  <1>3. I # {} => Min(I) \in I
    <2>1. I \subseteq Nat
      BY <1>1
    <2>2. I # {} => \E m \in I : \A k \in I : m <= k
      BY <2>1, LeastOf
    <2> QED BY <2>2 DEF Min
  <1> QED BY <1>1, <1>2, <1>3

LEMMA CacheFacts ==
  ASSUME WlanTypeOK, NEW mac
  PROVE  /\ CacheIndex(mac) \in 0 .. Len(cache)
         /\ CacheIndex(mac) = 0 => \A i \in DOMAIN cache : cache[i].mac # mac
         /\ CacheIndex(mac) # 0 => cache[CacheIndex(mac)].mac = mac
                                   /\ CacheIndex(mac) \in DOMAIN cache
  <1> DEFINE I == {i \in 1 .. Len(cache) : cache[i].mac = mac}
  <1>1. DOMAIN cache = 1 .. Len(cache) /\ Len(cache) \in Nat
    BY DEF WlanTypeOK
  <1>2. CacheIndex(mac) = IF I # {} THEN Min(I) ELSE 0
    BY DEF CacheIndex, SelectInSeq
  <1>3. I # {} => Min(I) \in I
    <2>1. I \subseteq Nat
      BY <1>1
    <2>2. I # {} => \E m \in I : \A k \in I : m <= k
      BY <2>1, LeastOf
    <2> QED BY <2>2 DEF Min
  <1> QED BY <1>1, <1>2, <1>3

-----------------------------------------------------------------------------
\* WlanClients: one client, one access point changes

LEMMA SlotsTyped ==
  ASSUME WlanTypeOK, NEW p \in Aps
  PROVE  /\ slots[p] \in Seq(WlanClient) /\ Len(slots[p]) \in Nat
         /\ DOMAIN slots[p] = 1 .. Len(slots[p])
         /\ \A i \in DOMAIN slots[p] : slots[p][i] \in WlanClient
  BY DEF WlanTypeOK

LEMMA AllHandlesAre ==
  ASSUME NEW k
  PROVE  k \in AllHandles <=> \E p \in Aps : \E i \in DOMAIN slots[p] : k \in Handles(slots[p][i])
  BY DEF AllHandles, AllClients, Range

LEMMA AllFinite ==
  ASSUME WlanTypeOK
  PROVE  IsFiniteSet(AllHandles) /\ IsFiniteSet(AllClients) /\ IsFiniteSet(Occupied)
  <1>1. IsFiniteSet(AllClients)
    <2> DEFINE f == [p \in Aps |-> Range(slots[p])]
    <2>1. IsFiniteSet({f[p] : p \in Aps})
      <3>1. IsFiniteSet(Aps)
        BY WlanClientsAssumption
      <3> QED BY <3>1, ImageFinite
    <2>2. \A T \in {f[p] : p \in Aps} : IsFiniteSet(T)
      BY SlotsTyped, RangeFinite
    <2>3. AllClients = UNION {f[p] : p \in Aps}
      BY DEF AllClients
    <2> QED BY <2>1, <2>2, <2>3, FS_UNION
  <1>2. IsFiniteSet(AllHandles)
    <2> DEFINE f == [c \in AllClients |-> Handles(c)]
    <2>1. IsFiniteSet({f[c] : c \in AllClients})
      BY <1>1, ImageFinite
    <2>2. \A c \in AllClients : c \in WlanClient
      BY SlotsTyped DEF AllClients, Range
    <2>3. \A T \in {f[c] : c \in AllClients} : IsFiniteSet(T)
      BY <2>2, HandlesFinite
    <2>4. AllHandles = UNION {f[c] : c \in AllClients}
      BY DEF AllHandles
    <2> QED BY <2>1, <2>3, <2>4, FS_UNION
  <1>3. IsFiniteSet(Occupied)
    <2>1. IsFiniteSet(1 .. MaxStations)
      <3>1. MaxStations \in Nat
        BY WlanClientsAssumption
      <3> QED BY <3>1, FS_Interval
    <2>2. IsFiniteSet(Aps \X (1 .. MaxStations))
      BY <2>1, FS_Product, WlanClientsAssumption
    <2>3. Occupied \subseteq Aps \X (1 .. MaxStations)
      BY DEF Occupied
    <2> QED BY <2>2, <2>3, FS_Subset
  <1> QED BY <1>1, <1>2, <1>3

\* The headers tell stations apart.
LEMMA HeadersTell ==
  ASSUME WlanTypeOK, SlotsOK, NEW p \in Aps, NEW i \in DOMAIN slots[p],
         NEW q \in Aps, NEW j \in DOMAIN slots[q]
  PROVE  slots[p][i].hdr = slots[q][j].hdr => p = q /\ i = j
  <1> DEFINE c == slots[p][i]
             d == slots[q][j]
  <1>1. c.hdr = NewClient(p, c.mac).hdr /\ d.hdr = NewClient(q, d.mac).hdr
    BY DEF SlotsOK
  <1>2. c.hdr["v4"] = Header(p, c.mac, "v4") /\ d.hdr["v4"] = Header(q, d.mac, "v4")
    BY <1>1 DEF NewClient, Families
  <1>3. c.hdr = d.hdr => p = q /\ c.mac = d.mac
    BY <1>2 DEF Header
  <1> QED BY <1>3 DEF SlotsOK

LEMMA TheOthers ==
  ASSUME WlanTypeOK, SlotsOK, HwOK, NEW p \in Aps, NEW i \in DOMAIN slots[p]
  PROVE  LET c == slots[p][i]
             O == AllHandles \ Handles(c)
         IN  /\ c \in WlanClient /\ RulesFit(c) /\ OfOthers(O, c) /\ Holds(O, lost, c, hw)
             /\ \A k : k \in O <=> \E q \in Aps : \E j \in DOMAIN slots[q] :
                                     <<q, j>> # <<p, i>> /\ k \in Handles(slots[q][j])
  <1> DEFINE c == slots[p][i]
             O == AllHandles \ Handles(c)
  <1>1. c \in WlanClient /\ RulesFit(c)
    BY SlotsTyped DEF SlotsOK
  <1>2. \A k \in Handles(c) : k \in AllHandles /\ k.of = c.hdr
    BY <1>1, AllHandlesAre, HandlesFinite
  <1>3. \A q \in Aps : \A j \in DOMAIN slots[q] : \A k \in Handles(slots[q][j]) :
          k.of = slots[q][j].hdr
    BY SlotsTyped, HandlesFinite
  <1>4. ASSUME NEW k
        PROVE  k \in O <=> \E q \in Aps : \E j \in DOMAIN slots[q] :
                             <<q, j>> # <<p, i>> /\ k \in Handles(slots[q][j])
    <2>1. ASSUME k \in O
          PROVE  \E q \in Aps : \E j \in DOMAIN slots[q] :
                   <<q, j>> # <<p, i>> /\ k \in Handles(slots[q][j])
      <3>1. PICK q \in Aps : \E j \in DOMAIN slots[q] : k \in Handles(slots[q][j])
        BY <2>1, AllHandlesAre
      <3>2. PICK j \in DOMAIN slots[q] : k \in Handles(slots[q][j])
        BY <3>1
      <3>3. <<q, j>> # <<p, i>>
        BY <2>1, <3>2
      <3> QED BY <3>2, <3>3
    <2>2. ASSUME NEW q \in Aps, NEW j \in DOMAIN slots[q],
                 <<q, j>> # <<p, i>>, k \in Handles(slots[q][j])
          PROVE  k \in O
      <3>1. k \in AllHandles /\ k.of = slots[q][j].hdr
        BY <1>3, <2>2, AllHandlesAre
      <3>2. slots[q][j].hdr # c.hdr
        BY <2>2, HeadersTell
      <3> QED BY <1>2, <3>1, <3>2
    <2> QED BY <2>1, <2>2
  <1>5. \A k \in O : k.of # c.hdr
    <2> SUFFICES ASSUME NEW k \in O PROVE k.of # c.hdr
      OBVIOUS
    <2>1. PICK q \in Aps : \E j \in DOMAIN slots[q] :
                             <<q, j>> # <<p, i>> /\ k \in Handles(slots[q][j])
      BY <1>4
    <2>2. PICK j \in DOMAIN slots[q] : <<q, j>> # <<p, i>> /\ k \in Handles(slots[q][j])
      BY <2>1
    <2> QED BY <1>3, <2>2, HeadersTell
  <1>6. OfOthers(O, c)
    BY <1>5, AllFinite, FS_Difference DEF OfOthers
  <1>7. Holds(O, lost, c, hw)
    <2>1. O \cup Handles(c) = AllHandles
      BY <1>2
    <2> QED BY <2>1 DEF Holds, HwOK
  <1> QED BY <1>1, <1>4, <1>6, <1>7

\* One client changes, and what it holds changes with the hardware.
ClientIs(p, i, d) ==
  /\ d \in WlanClient /\ RulesFit(d)
  /\ d.mac = slots[p][i].mac /\ d.hdr = slots[p][i].hdr

LEMMA ClientChanges ==
  ASSUME WlanTypeOK, SlotsOK, HwOK, NEW p \in Aps, NEW i \in DOMAIN slots[p], NEW d,
         ClientIs(p, i, d), Holds(AllHandles \ Handles(slots[p][i]), lost', d, hw'),
         slots' = [slots EXCEPT ![p][i] = d], UNCHANGED <<active, joined>>
  PROVE  /\ slots' \in [Aps -> Seq(WlanClient)] /\ SlotsOK' /\ HwOK' /\ Occupied' = Occupied
         /\ \A q \in Aps : /\ DOMAIN slots'[q] = DOMAIN slots[q]
                           /\ \A j \in DOMAIN slots[q] :
                                slots'[q][j] = IF q = p /\ j = i THEN d ELSE slots[q][j]
  <1>1. slots \in [Aps -> Seq(WlanClient)] /\ slots[p] \in Seq(WlanClient)
    BY DEF WlanTypeOK
  <1>2. slots' = [slots EXCEPT ![p] = [slots[p] EXCEPT ![i] = d]]
    BY <1>1
  <1>3. /\ [slots[p] EXCEPT ![i] = d] \in Seq(WlanClient)
        /\ Len([slots[p] EXCEPT ![i] = d]) = Len(slots[p])
        /\ \A j \in 1 .. Len(slots[p]) :
             [slots[p] EXCEPT ![i] = d][j] = IF j = i THEN d ELSE slots[p][j]
    <2>1. d \in WlanClient /\ i \in 1 .. Len(slots[p])
      BY SlotsTyped DEF ClientIs
    <2> QED BY <1>1, <2>1, ExceptSeq
  <1>4. slots' \in [Aps -> Seq(WlanClient)]
    BY <1>1, <1>2, <1>3
  <1>5. \A q \in Aps : /\ DOMAIN slots'[q] = DOMAIN slots[q] /\ Len(slots'[q]) = Len(slots[q])
                       /\ \A j \in DOMAIN slots[q] :
                            slots'[q][j] = IF q = p /\ j = i THEN d ELSE slots[q][j]
    <2> TAKE q \in Aps
    <2>1. CASE q = p
      BY <1>1, <1>2, <1>3, <2>1, SlotsTyped
    <2>2. CASE q # p
      BY <1>1, <1>2, <2>2
    <2> QED BY <2>1, <2>2
  <1>6. \A q \in Aps : \A j \in DOMAIN slots[q] :
          slots'[q][j].mac = slots[q][j].mac /\ slots'[q][j].hdr = slots[q][j].hdr
    BY <1>5 DEF ClientIs
  <1>7. SlotsOK'
    <2> SUFFICES ASSUME NEW q \in Aps
                 PROVE  /\ Len(slots'[q]) <= MaxStations
                        /\ ~ active'[q] => slots'[q] = <<>>
                        /\ \A j \in DOMAIN slots'[q] :
                             LET c == slots'[q][j]
                             IN  /\ c.hdr = NewClient(q, c.mac).hdr /\ RulesFit(c)
                                 /\ <<q, c.mac>> \in joined'
                                 /\ \A m \in DOMAIN slots'[q] : slots'[q][m].mac = c.mac => m = j
      BY DEF SlotsOK
    <2>1. Len(slots'[q]) <= MaxStations
      BY <1>5 DEF SlotsOK
    <2>2. ~ active'[q] => slots'[q] = <<>>
      <3>1. CASE q = p
        BY <3>1, SlotsTyped DEF SlotsOK
      <3>2. CASE q # p
        BY <1>1, <1>2, <3>2 DEF SlotsOK
      <3> QED BY <3>1, <3>2
    <2>3. ASSUME NEW j \in DOMAIN slots'[q]
          PROVE  LET c == slots'[q][j]
                 IN  /\ c.hdr = NewClient(q, c.mac).hdr /\ RulesFit(c)
                     /\ <<q, c.mac>> \in joined'
                     /\ \A m \in DOMAIN slots'[q] : slots'[q][m].mac = c.mac => m = j
      <3>1. j \in DOMAIN slots[q]
        BY <1>5
      <3>2. RulesFit(slots'[q][j])
        <4>1. RulesFit(slots[q][j]) /\ RulesFit(d)
          BY <3>1 DEF ClientIs, SlotsOK
        <4>2. slots'[q][j] = d \/ slots'[q][j] = slots[q][j]
          BY <1>5, <3>1
        <4> QED BY <4>1, <4>2
      <3>3. \A m \in DOMAIN slots'[q] : slots'[q][m].mac = slots'[q][j].mac => m = j
        <4>1. DOMAIN slots'[q] = DOMAIN slots[q]
          BY <1>5
        <4>2. \A m \in DOMAIN slots[q] : slots'[q][m].mac = slots[q][m].mac
          BY <1>6
        <4>3. \A m \in DOMAIN slots[q] : slots[q][m].mac = slots[q][j].mac => m = j
          BY <3>1 DEF SlotsOK
        <4> HIDE DEF SlotsOK
        <4> QED BY <3>1, <4>1, <4>2, <4>3
      <3>4. /\ slots'[q][j].hdr = NewClient(q, slots'[q][j].mac).hdr
            /\ <<q, slots'[q][j].mac>> \in joined'
        BY <1>6, <3>1 DEF SlotsOK
      <3> QED BY <3>2, <3>3, <3>4
    <2> QED BY <2>1, <2>2, <2>3
  <1>8. HwOK'
    <2> DEFINE O == AllHandles \ Handles(slots[p][i])
    <2>1. \A k : k \in O <=> \E q \in Aps : \E j \in DOMAIN slots[q] :
                               <<q, j>> # <<p, i>> /\ k \in Handles(slots[q][j])
      BY TheOthers
    <2>2. \A k : k \in AllHandles' <=>
                   \E q \in Aps : \E j \in DOMAIN slots'[q] : k \in Handles(slots'[q][j])
      BY DEF AllHandles, AllClients, Range
    <2>3. ASSUME NEW k PROVE k \in AllHandles' <=> k \in O \cup Handles(d)
      <3>1. ASSUME k \in AllHandles' PROVE k \in O \cup Handles(d)
        <4>1. PICK q \in Aps : \E j \in DOMAIN slots'[q] : k \in Handles(slots'[q][j])
          BY <2>2, <3>1
        <4>2. PICK j \in DOMAIN slots'[q] : k \in Handles(slots'[q][j])
          BY <4>1
        <4>3. CASE q = p /\ j = i
          BY <1>5, <4>2, <4>3
        <4>4. CASE ~ (q = p /\ j = i)
          <5>1. j \in DOMAIN slots[q] /\ slots'[q][j] = slots[q][j] /\ <<q, j>> # <<p, i>>
            BY <1>5, <4>4
          <5> QED BY <2>1, <4>2, <5>1
        <4> QED BY <4>3, <4>4
      <3>2. ASSUME k \in Handles(d) PROVE k \in AllHandles'
        <4>1. i \in DOMAIN slots'[p] /\ slots'[p][i] = d
          BY <1>5
        <4> QED BY <2>2, <3>2, <4>1
      <3>3. ASSUME k \in O PROVE k \in AllHandles'
        <4>1. PICK q \in Aps : \E j \in DOMAIN slots[q] :
                                 <<q, j>> # <<p, i>> /\ k \in Handles(slots[q][j])
          BY <2>1, <3>3
        <4>2. PICK j \in DOMAIN slots[q] : <<q, j>> # <<p, i>> /\ k \in Handles(slots[q][j])
          BY <4>1
        <4>3. slots'[q][j] = slots[q][j] /\ j \in DOMAIN slots'[q]
          BY <1>5, <4>2
        <4> QED BY <2>2, <4>2, <4>3
      <3> QED BY <3>1, <3>2, <3>3
    <2>4. AllHandles' = O \cup Handles(d)
      BY <2>3
    <2> QED BY <2>4 DEF HwOK, Holds
  <1>9. Occupied' = Occupied
    BY <1>5 DEF Occupied
  <1> QED BY <1>4, <1>5, <1>7, <1>8, <1>9

LEMMA NextHandlesAre ==
  ASSUME NEW k
  PROVE  k \in AllHandles' <=>
           \E p \in Aps : \E i \in DOMAIN slots'[p] : k \in Handles(slots'[p][i])
  BY DEF AllHandles, AllClients, Range

\* A station joins: the slot behind the last is taken.
LEMMA ClientJoins ==
  ASSUME WlanTypeOK, SlotsOK, HwOK, NEW p \in Aps, NEW mac \in Stations,
         <<p, mac>> \notin joined, joined' = joined \cup {<<p, mac>>},
         Len(slots[p]) < MaxStations, active[p], active' = active,
         slots' = [slots EXCEPT ![p] = Append(@, NewClient(p, mac))],
         hw' = hw (+) EntriesOf(HeaderHandles(NewClient(p, mac))), lost' = lost
  PROVE  /\ slots' \in [Aps -> Seq(WlanClient)] /\ SlotsOK' /\ HwOK'
         /\ Occupied' = Occupied \cup {<<p, Len(slots[p]) + 1>>}
         /\ <<p, Len(slots[p]) + 1>> \notin Occupied
         /\ \A q \in Aps : \A j \in DOMAIN slots'[q] :
              \/ q = p /\ slots'[q][j] = NewClient(p, mac)
              \/ j \in DOMAIN slots[q] /\ slots'[q][j] = slots[q][j]
         /\ \A q \in Aps : \A j \in DOMAIN slots[q] :
              j \in DOMAIN slots'[q] /\ slots'[q][j] = slots[q][j]
  <1> DEFINE c == NewClient(p, mac)
             l == Len(slots[p]) + 1
  <1>1. /\ slots \in [Aps -> Seq(WlanClient)] /\ slots[p] \in Seq(WlanClient)
        /\ Len(slots[p]) \in Nat /\ DOMAIN slots[p] = 1 .. Len(slots[p])
        /\ MaxStations \in Nat
    BY WlanClientsAssumption DEF WlanTypeOK
  <1>2. \A k \in AllHandles : k.of # c.hdr
    <2> SUFFICES ASSUME NEW k \in AllHandles, k.of = c.hdr PROVE FALSE
      OBVIOUS
    <2>1. PICK q \in Aps : \E j \in DOMAIN slots[q] : k \in Handles(slots[q][j])
      BY AllHandlesAre
    <2>2. PICK j \in DOMAIN slots[q] : k \in Handles(slots[q][j])
      BY <2>1
    <2> DEFINE d == slots[q][j]
    <2>3. k.of = d.hdr
      BY <2>2, SlotsTyped, HandlesFinite
    <2>4. d.hdr = NewClient(q, d.mac).hdr /\ <<q, d.mac>> \in joined
      BY DEF SlotsOK
    <2>5. d.hdr["v4"] = Header(q, d.mac, "v4") /\ c.hdr["v4"] = Header(p, mac, "v4")
      BY <2>4 DEF NewClient, Families
    <2> QED BY <2>3, <2>4, <2>5 DEF Header
  <1>3. /\ c \in WlanClient /\ RulesFit(c) /\ c.mac = mac /\ c.hdr = NewClient(p, c.mac).hdr
        /\ Holds(AllHandles, lost, c, hw')
    BY <1>2, AllFinite, NewHolds DEF HwOK
  <1> HIDE DEF c
  <1>4. /\ Append(slots[p], c) \in Seq(WlanClient) /\ Len(Append(slots[p], c)) = l
        /\ DOMAIN Append(slots[p], c) = 1 .. l
        /\ \A j \in 1 .. l : Append(slots[p], c)[j] = IF j = l THEN c ELSE slots[p][j]
    BY <1>1, <1>3
  <1>5. slots' = [slots EXCEPT ![p] = Append(slots[p], c)]
    BY DEF c
  <1>6. /\ slots' \in [Aps -> Seq(WlanClient)]
        /\ slots'[p] = Append(slots[p], c) /\ \A q \in Aps \ {p} : slots'[q] = slots[q]
    BY <1>1, <1>4, <1>5
  <1>7. l \notin DOMAIN slots[p] /\ \A j \in DOMAIN slots[p] : j \in 1 .. l /\ j # l
    BY <1>1
  <1>8. \A q \in Aps : \A j \in DOMAIN slots'[q] :
          \/ q = p /\ slots'[q][j] = c
          \/ j \in DOMAIN slots[q] /\ slots'[q][j] = slots[q][j]
    <2> TAKE q \in Aps
    <2> TAKE j \in DOMAIN slots'[q]
    <2>1. CASE q = p
      BY <1>1, <1>4, <1>6, <2>1
    <2>2. CASE q # p
      BY <1>6, <2>2
    <2> QED BY <2>1, <2>2
  <1>9. \A q \in Aps : \A j \in DOMAIN slots[q] :
          j \in DOMAIN slots'[q] /\ slots'[q][j] = slots[q][j]
    <2> TAKE q \in Aps
    <2> TAKE j \in DOMAIN slots[q]
    <2>1. CASE q = p
      BY <1>4, <1>6, <1>7, <2>1
    <2>2. CASE q # p
      BY <1>6, <2>2
    <2> QED BY <2>1, <2>2
  <1>10. l \in DOMAIN slots'[p] /\ slots'[p][l] = c
    BY <1>1, <1>4, <1>6
  <1>11. HwOK'
    <2>1. AllHandles' = AllHandles \cup Handles(c)
      <3>1. ASSUME NEW k \in AllHandles' PROVE k \in AllHandles \cup Handles(c)
        <4>1. PICK q \in Aps : \E j \in DOMAIN slots'[q] : k \in Handles(slots'[q][j])
          BY NextHandlesAre
        <4>2. PICK j \in DOMAIN slots'[q] : k \in Handles(slots'[q][j])
          BY <4>1
        <4> QED BY <1>8, <4>2, AllHandlesAre
      <3>2. ASSUME NEW k \in AllHandles PROVE k \in AllHandles'
        <4>1. PICK q \in Aps : \E j \in DOMAIN slots[q] : k \in Handles(slots[q][j])
          BY AllHandlesAre
        <4>2. PICK j \in DOMAIN slots[q] : k \in Handles(slots[q][j])
          BY <4>1
        <4> QED BY <1>9, <4>2, NextHandlesAre
      <3>3. ASSUME NEW k \in Handles(c) PROVE k \in AllHandles'
        BY <1>10, NextHandlesAre
      <3> QED BY <3>1, <3>2, <3>3
    <2> QED BY <1>3, <2>1 DEF HwOK, Holds
  <1>12. SlotsOK'
    <2> SUFFICES ASSUME NEW q \in Aps
                 PROVE  /\ Len(slots'[q]) <= MaxStations
                        /\ ~ active'[q] => slots'[q] = <<>>
                        /\ \A j \in DOMAIN slots'[q] :
                             LET d == slots'[q][j]
                             IN  /\ d.hdr = NewClient(q, d.mac).hdr /\ RulesFit(d)
                                 /\ <<q, d.mac>> \in joined'
                                 /\ \A m \in DOMAIN slots'[q] : slots'[q][m].mac = d.mac => m = j
      BY DEF SlotsOK
    <2>1. Len(slots'[q]) <= MaxStations
      BY <1>1, <1>4, <1>6 DEF SlotsOK
    <2>2. ~ active'[q] => slots'[q] = <<>>
      BY <1>6 DEF SlotsOK
    <2>3. \A j \in DOMAIN slots[q] :
            LET d == slots[q][j]
            IN  /\ d.hdr = NewClient(q, d.mac).hdr /\ RulesFit(d) /\ <<q, d.mac>> \in joined
                /\ \A m \in DOMAIN slots[q] : slots[q][m].mac = d.mac => m = j
      BY DEF SlotsOK
    <2>4. \A j \in DOMAIN slots[p] : slots[p][j].mac # mac
      BY DEF SlotsOK
    <2>5. ASSUME NEW j \in DOMAIN slots'[q]
          PROVE  LET d == slots'[q][j]
                 IN  /\ d.hdr = NewClient(q, d.mac).hdr /\ RulesFit(d)
                     /\ <<q, d.mac>> \in joined'
                     /\ \A m \in DOMAIN slots'[q] : slots'[q][m].mac = d.mac => m = j
      <3>1. CASE q # p
        <4>1. slots'[q] = slots[q] /\ \A x \in joined : x \in joined'
          BY <1>6, <3>1
        <4> QED BY <2>3, <4>1
      <3>2. CASE q = p /\ j # l
        <4>1. j \in DOMAIN slots[p] /\ slots'[p][j] = slots[p][j]
          BY <1>1, <1>4, <1>6, <3>2
        <4>2. \A m \in DOMAIN slots'[p] : m = l \/ (m \in DOMAIN slots[p] /\ slots'[p][m] = slots[p][m])
          BY <1>1, <1>4, <1>6
        <4>3. \A m \in DOMAIN slots'[p] : slots'[p][m].mac = slots[p][j].mac => m = j
          <5> TAKE m \in DOMAIN slots'[p]
          <5>1. CASE m = l
            BY <1>3, <1>10, <2>4, <4>1, <5>1
          <5>2. CASE m \in DOMAIN slots[p] /\ slots'[p][m] = slots[p][m]
            BY <2>3, <3>2, <4>1, <5>2
          <5> QED BY <4>2, <5>1, <5>2
        <4>4. \A x \in joined : x \in joined'
          OBVIOUS
        <4> QED BY <2>3, <3>2, <4>1, <4>3, <4>4
      <3>3. CASE q = p /\ j = l
        <4>1. \A m \in DOMAIN slots'[p] : m = l \/ (m \in DOMAIN slots[p] /\ slots'[p][m] = slots[p][m])
          BY <1>1, <1>4, <1>6
        <4>2. \A m \in DOMAIN slots'[p] : slots'[p][m].mac = mac => m = l
          BY <2>4, <4>1
        <4> QED BY <1>3, <1>10, <3>3, <4>2
      <3> QED BY <3>1, <3>2, <3>3
    <2> QED BY <2>1, <2>2, <2>5
  <1>13. Occupied' = Occupied \cup {<<p, l>>} /\ <<p, l>> \notin Occupied
    <2>1. \A q \in Aps : DOMAIN slots'[q] = IF q = p THEN DOMAIN slots[q] \cup {l} ELSE DOMAIN slots[q]
      <3>1. DOMAIN slots'[p] = DOMAIN slots[p] \cup {l}
        <4>1. 1 .. l = (1 .. Len(slots[p])) \cup {l}
          <5>1. \A m \in Nat : 1 .. m + 1 = (1 .. m) \cup {m + 1}
            OBVIOUS
          <5> QED BY <1>1, <5>1
        <4> QED BY <1>1, <1>4, <1>6, <4>1
      <3> QED BY <3>1, <1>6
    <2>2. l \in 1 .. MaxStations
      BY <1>1
    <2> HIDE DEF l
    <2>3. \A q \in Aps, j \in 1 .. MaxStations :
            /\ <<q, j>> \in Occupied <=> j \in DOMAIN slots[q]
            /\ <<q, j>> \in Occupied' <=> j \in DOMAIN slots'[q]
      BY DEF Occupied
    <2>4. Occupied \subseteq Aps \X (1 .. MaxStations) /\ Occupied' \subseteq Aps \X (1 .. MaxStations)
      BY DEF Occupied
    <2>5. \A x \in Aps \X (1 .. MaxStations) : x \in Occupied' <=> x \in Occupied \/ x = <<p, l>>
      <3> SUFFICES ASSUME NEW q \in Aps, NEW j \in 1 .. MaxStations
                   PROVE  <<q, j>> \in Occupied' <=> <<q, j>> \in Occupied \/ <<q, j>> = <<p, l>>
        OBVIOUS
      <3>1. <<q, j>> = <<p, l>> <=> q = p /\ j = l
        OBVIOUS
      <3> QED BY <2>1, <2>3, <3>1
    <2>6. <<p, l>> \notin Occupied
      BY <1>7, <2>2, <2>3
    <2>7. <<p, l>> \in Aps \X (1 .. MaxStations)
      BY <2>2
    <2> HIDE DEF Occupied
    <2> QED BY <2>4, <2>5, <2>6, <2>7
  <1> QED BY <1>6, <1>8, <1>9, <1>11, <1>12, <1>13 DEF c

\* The clients are those there were but for this one.
OthersStay(p, i) ==
  /\ \A q \in Aps : \A j \in DOMAIN slots'[q] : \E k \in DOMAIN slots[q] :
       <<q, k>> # <<p, i>> /\ slots'[q][j] = slots[q][k]
  /\ \A q \in Aps : \A k \in DOMAIN slots[q] : <<q, k>> # <<p, i>> =>
       \E j \in DOMAIN slots'[q] : slots'[q][j] = slots[q][k]

\* A station leaves: those behind it move up.
LEMMA ClientLeaves ==
  ASSUME WlanTypeOK, SlotsOK, HwOK, NEW p \in Aps, NEW i \in DOMAIN slots[p],
         joined' = joined \ {<<p, slots[p][i].mac>>}, active' = active,
         slots' = [slots EXCEPT ![p] = RemoveAt(@, i)],
         hw' = Removed(slots[p][i], hw), lost' = lost
  PROVE  /\ slots' \in [Aps -> Seq(WlanClient)] /\ SlotsOK' /\ HwOK'
         /\ Occupied' = Occupied \ {<<p, Len(slots[p])>>} /\ <<p, Len(slots[p])>> \in Occupied
         /\ OthersStay(p, i)
  <1> DEFINE l == Len(slots[p])
             c == slots[p][i]
             From(q, j) == IF q = p /\ j >= i THEN j + 1 ELSE j
  <1>1. /\ slots \in [Aps -> Seq(WlanClient)] /\ slots[p] \in Seq(WlanClient)
        /\ l \in Nat /\ DOMAIN slots[p] = 1 .. l /\ i \in 1 .. l /\ MaxStations \in Nat
        /\ l <= MaxStations
    BY WlanClientsAssumption DEF WlanTypeOK, SlotsOK
  <1>2. /\ RemoveAt(slots[p], i) \in Seq(WlanClient) /\ Len(RemoveAt(slots[p], i)) = l - 1
        /\ DOMAIN RemoveAt(slots[p], i) = 1 .. l - 1
        /\ \A j \in 1 .. l - 1 :
             RemoveAt(slots[p], i)[j] = IF j < i THEN slots[p][j] ELSE slots[p][j + 1]
    <2>1. RemoveAt(slots[p], i) \in Seq(WlanClient) /\ Len(RemoveAt(slots[p], i)) = l - 1
      BY <1>1, RemoveFacts
    <2> QED BY <1>1, <2>1, RemoveFacts
  <1>3. /\ slots' \in [Aps -> Seq(WlanClient)]
        /\ slots'[p] = RemoveAt(slots[p], i) /\ \A q \in Aps \ {p} : slots'[q] = slots[q]
    BY <1>1, <1>2
  <1>4. ASSUME NEW q \in Aps, NEW j \in DOMAIN slots'[q]
        PROVE  /\ From(q, j) \in DOMAIN slots[q] /\ <<q, From(q, j)>> # <<p, i>>
               /\ slots'[q][j] = slots[q][From(q, j)]
               /\ \A k \in DOMAIN slots'[q] : From(q, k) = From(q, j) => k = j
    <2>1. CASE q = p
      <3>1. j \in 1 .. l - 1 /\ DOMAIN slots'[q] = 1 .. l - 1
        BY <1>2, <1>3, <2>1
      <3>2. From(q, j) \in 1 .. l /\ From(q, j) # i
        BY <1>1, <2>1, <3>1
      <3>3. slots'[q][j] = slots[q][From(q, j)]
        BY <1>1, <1>2, <1>3, <2>1, <3>1
      <3>4. \A k \in 1 .. l - 1 : From(q, k) = From(q, j) => k = j
        BY <1>1, <2>1, <3>1
      <3> QED BY <1>1, <2>1, <3>1, <3>2, <3>3, <3>4
    <2>2. CASE q # p
      BY <1>3, <2>2
    <2> QED BY <2>1, <2>2
  <1>5. ASSUME NEW q \in Aps, NEW k \in DOMAIN slots[q], <<q, k>> # <<p, i>>
        PROVE  \E j \in DOMAIN slots'[q] : slots'[q][j] = slots[q][k]
    <2>1. CASE q = p /\ k < i
      <3>1. k \in 1 .. l - 1
        BY <1>1, <2>1
      <3> QED BY <1>2, <1>3, <2>1, <3>1
    <2>2. CASE q = p /\ ~ (k < i)
      <3>1. k - 1 \in 1 .. l - 1 /\ ~ (k - 1 < i) /\ (k - 1) + 1 = k
        BY <1>1, <1>5, <2>2
      <3> QED BY <1>2, <1>3, <2>2, <3>1
    <2>3. CASE q # p
      BY <1>3, <2>3
    <2> QED BY <2>1, <2>2, <2>3
  <1>6. HwOK'
    <2> DEFINE O == AllHandles \ Handles(c)
    <2>1. /\ c \in WlanClient /\ OfOthers(O, c) /\ Holds(O, lost, c, hw)
          /\ \A k : k \in O <=> \E q \in Aps : \E j \in DOMAIN slots[q] :
                                  <<q, j>> # <<p, i>> /\ k \in Handles(slots[q][j])
      BY TheOthers
    <2>2. hw' = EntriesOf(O) (+) lost
      BY <2>1, RemovedHolds
    <2>3. ASSUME NEW k PROVE k \in AllHandles' <=> k \in O
      <3>1. ASSUME k \in AllHandles' PROVE k \in O
        <4>1. PICK q \in Aps : \E j \in DOMAIN slots'[q] : k \in Handles(slots'[q][j])
          BY <3>1, NextHandlesAre
        <4>2. PICK j \in DOMAIN slots'[q] : k \in Handles(slots'[q][j])
          BY <4>1
        <4> QED BY <1>4, <2>1, <4>2
      <3>2. ASSUME k \in O PROVE k \in AllHandles'
        <4>1. PICK q \in Aps : \E j \in DOMAIN slots[q] :
                                 <<q, j>> # <<p, i>> /\ k \in Handles(slots[q][j])
          BY <2>1, <3>2
        <4>2. PICK j \in DOMAIN slots[q] : <<q, j>> # <<p, i>> /\ k \in Handles(slots[q][j])
          BY <4>1
        <4>3. PICK m \in DOMAIN slots'[q] : slots'[q][m] = slots[q][j]
          BY <1>5, <4>2
        <4> QED BY <4>2, <4>3, NextHandlesAre
      <3> QED BY <3>1, <3>2
    <2>4. AllHandles' = O
      BY <2>3
    <2> QED BY <2>2, <2>4 DEF HwOK
  <1>7. SlotsOK'
    <2> SUFFICES ASSUME NEW q \in Aps
                 PROVE  /\ Len(slots'[q]) <= MaxStations
                        /\ ~ active'[q] => slots'[q] = <<>>
                        /\ \A j \in DOMAIN slots'[q] :
                             LET d == slots'[q][j]
                             IN  /\ d.hdr = NewClient(q, d.mac).hdr /\ RulesFit(d)
                                 /\ <<q, d.mac>> \in joined'
                                 /\ \A m \in DOMAIN slots'[q] : slots'[q][m].mac = d.mac => m = j
      BY DEF SlotsOK
    <2>1. Len(slots'[q]) <= MaxStations
      BY <1>1, <1>2, <1>3 DEF SlotsOK
    <2>2. ~ active'[q] => slots'[q] = <<>>
      <3>1. active[p]
        BY <1>1 DEF SlotsOK
      <3> QED BY <1>3, <3>1 DEF SlotsOK
    <2>3. \A k \in DOMAIN slots[q] :
            LET d == slots[q][k]
            IN  /\ d.hdr = NewClient(q, d.mac).hdr /\ RulesFit(d) /\ <<q, d.mac>> \in joined
                /\ \A m \in DOMAIN slots[q] : slots[q][m].mac = d.mac => m = k
      BY DEF SlotsOK
    <2>4. ASSUME NEW j \in DOMAIN slots'[q]
          PROVE  LET d == slots'[q][j]
                 IN  /\ d.hdr = NewClient(q, d.mac).hdr /\ RulesFit(d)
                     /\ <<q, d.mac>> \in joined'
                     /\ \A m \in DOMAIN slots'[q] : slots'[q][m].mac = d.mac => m = j
      <3> DEFINE k == From(q, j)
                 d == slots[q][k]
      <3>1. k \in DOMAIN slots[q] /\ <<q, k>> # <<p, i>> /\ slots'[q][j] = d
        BY <1>4
      <3>2. /\ d.hdr = NewClient(q, d.mac).hdr /\ RulesFit(d) /\ <<q, d.mac>> \in joined
            /\ \A m \in DOMAIN slots[q] : slots[q][m].mac = d.mac => m = k
        BY <2>3, <3>1
      <3>3. <<q, d.mac>> # <<p, c.mac>>
        BY <3>1, <3>2
      <3>4. ASSUME NEW m \in DOMAIN slots'[q], slots'[q][m].mac = d.mac PROVE m = j
        <4>1. From(q, m) \in DOMAIN slots[q] /\ slots'[q][m] = slots[q][From(q, m)]
          BY <1>4
        <4>2. From(q, m) = k
          BY <3>2, <3>4, <4>1
        <4> QED BY <1>4, <4>2
      <3> HIDE DEF From
      <3> QED BY <3>1, <3>2, <3>3, <3>4
    <2> QED BY <2>1, <2>2, <2>4
  <1>8. Occupied' = Occupied \ {<<p, l>>} /\ <<p, l>> \in Occupied
    <2>1. \A q \in Aps : DOMAIN slots'[q] = IF q = p THEN DOMAIN slots[q] \ {l} ELSE DOMAIN slots[q]
      <3>1. DOMAIN slots'[p] = DOMAIN slots[p] \ {l}
        <4>1. 1 .. l - 1 = (1 .. l) \ {l}
          <5>1. \A m \in Nat : 1 .. m - 1 = (1 .. m) \ {m}
            OBVIOUS
          <5> QED BY <1>1, <5>1
        <4> QED BY <1>1, <1>2, <1>3, <4>1
      <3> QED BY <3>1, <1>3
    <2>2. l \in 1 .. MaxStations /\ l \in DOMAIN slots[p]
      BY <1>1
    <2> HIDE DEF l
    <2>3. \A q \in Aps, j \in 1 .. MaxStations :
            /\ <<q, j>> \in Occupied <=> j \in DOMAIN slots[q]
            /\ <<q, j>> \in Occupied' <=> j \in DOMAIN slots'[q]
      BY DEF Occupied
    <2>4. Occupied \subseteq Aps \X (1 .. MaxStations) /\ Occupied' \subseteq Aps \X (1 .. MaxStations)
      BY DEF Occupied
    <2>5. \A x \in Aps \X (1 .. MaxStations) : x \in Occupied' <=> x \in Occupied /\ x # <<p, l>>
      <3> SUFFICES ASSUME NEW q \in Aps, NEW j \in 1 .. MaxStations
                   PROVE  <<q, j>> \in Occupied' <=> <<q, j>> \in Occupied /\ <<q, j>> # <<p, l>>
        OBVIOUS
      <3>1. <<q, j>> = <<p, l>> <=> q = p /\ j = l
        OBVIOUS
      <3> QED BY <2>1, <2>3, <3>1
    <2>6. <<p, l>> \in Occupied
      BY <2>2, <2>3
    <2> HIDE DEF Occupied
    <2> QED BY <2>4, <2>5, <2>6
  <1>9. \A q \in Aps : \A j \in DOMAIN slots'[q] : \E k \in DOMAIN slots[q] :
          <<q, k>> # <<p, i>> /\ slots'[q][j] = slots[q][k]
    BY <1>4
  <1> HIDE DEF From
  <1>10. OthersStay(p, i)
    BY <1>5, <1>9 DEF OthersStay
  <1> QED BY <1>3, <1>6, <1>7, <1>8, <1>10

LEMMA OneOwner ==
  ASSUME WlanTypeOK, SlotsOK, NEW p \in Aps, NEW i \in DOMAIN slots[p],
         NEW q \in Aps, NEW j \in DOMAIN slots[q], NEW k,
         k \in Handles(slots[p][i]), k \in Handles(slots[q][j])
  PROVE  p = q /\ i = j
  <1>1. slots[p][i] \in WlanClient /\ slots[q][j] \in WlanClient
    BY SlotsTyped
  <1>2. k.of = slots[p][i].hdr
    BY <1>1, HandlesFinite
  <1>3. k.of = slots[q][j].hdr
    BY <1>1, HandlesFinite
  <1>4. slots[p][i].hdr = slots[q][j].hdr
    BY <1>2, <1>3
  <1> QED BY <1>4, HeadersTell

\* An access point goes down with its stations.
LEMMA ApGoes ==
  ASSUME WlanTypeOK, SlotsOK, HwOK, NEW p \in Aps,
         active' = [active EXCEPT ![p] = FALSE], joined' = joined \ OfAp(p, joined),
         slots' = [slots EXCEPT ![p] = <<>>],
         hw' = hw (-) EntriesOf(UNION {Handles(c) : c \in Range(slots[p])}), lost' = lost
  PROVE  /\ slots' \in [Aps -> Seq(WlanClient)] /\ SlotsOK' /\ HwOK'
         /\ Cardinality(Occupied') = Cardinality(Occupied) - Len(slots[p])
         /\ \A q \in Aps : slots'[q] = IF q = p THEN <<>> ELSE slots[q]
  <1> DEFINE M == UNION {Handles(c) : c \in Range(slots[p])}
             l == Len(slots[p])
  <1>1. slots \in [Aps -> Seq(WlanClient)] /\ l \in Nat /\ DOMAIN slots[p] = 1 .. l
        /\ MaxStations \in Nat /\ l <= MaxStations
    BY WlanClientsAssumption DEF WlanTypeOK, SlotsOK
  <1>2. slots' \in [Aps -> Seq(WlanClient)] /\ \A q \in Aps : slots'[q] = IF q = p THEN <<>> ELSE slots[q]
    BY <1>1
  <1>3. \A k : k \in M <=> \E i \in DOMAIN slots[p] : k \in Handles(slots[p][i])
    BY DEF Range
  <1> HIDE DEF M
  <1>4. M \subseteq AllHandles
    BY <1>3, AllHandlesAre
  <1>5. AllHandles' = AllHandles \ M
    <2>1. ASSUME NEW k \in AllHandles' PROVE k \in AllHandles /\ k \notin M
      <3>1. PICK q \in Aps : \E j \in DOMAIN slots'[q] : k \in Handles(slots'[q][j])
        BY NextHandlesAre
      <3>2. PICK j \in DOMAIN slots'[q] : k \in Handles(slots'[q][j])
        BY <3>1
      <3>3. q # p /\ slots'[q] = slots[q]
        BY <1>2, <3>2
      <3>4. k \in AllHandles
        BY <3>2, <3>3, AllHandlesAre
      <3>5. \A i \in DOMAIN slots[p] : k \notin Handles(slots[p][i])
        BY <3>2, <3>3, OneOwner
      <3> QED BY <1>3, <3>4, <3>5
    <2>2. ASSUME NEW k \in AllHandles, k \notin M PROVE k \in AllHandles'
      <3>1. PICK q \in Aps : \E j \in DOMAIN slots[q] : k \in Handles(slots[q][j])
        BY AllHandlesAre
      <3>2. slots'[q] = slots[q]
        BY <1>2, <1>3, <2>2, <3>1
      <3> QED BY <3>1, <3>2, NextHandlesAre
    <2> QED BY <2>1, <2>2
  <1>6. HwOK'
    BY <1>4, <1>5, AllFinite, MinusMore DEF HwOK, M
  <1>7. SlotsOK'
    <2> SUFFICES ASSUME NEW q \in Aps
                 PROVE  /\ Len(slots'[q]) <= MaxStations
                        /\ ~ active'[q] => slots'[q] = <<>>
                        /\ \A j \in DOMAIN slots'[q] :
                             LET d == slots'[q][j]
                             IN  /\ d.hdr = NewClient(q, d.mac).hdr /\ RulesFit(d)
                                 /\ <<q, d.mac>> \in joined'
                                 /\ \A m \in DOMAIN slots'[q] : slots'[q][m].mac = d.mac => m = j
      BY DEF SlotsOK
    <2>1. CASE q = p
      <3>1. slots'[q] = <<>>
        BY <1>2, <2>1
      <3>2. Len(<<>>) = 0 /\ DOMAIN <<>> = {}
        OBVIOUS
      <3>3. \A j \in DOMAIN slots'[q] : FALSE
        BY <3>1, <3>2
      <3>4. Len(slots'[q]) <= MaxStations
        BY <1>1, <3>1, <3>2
      <3> QED BY <3>1, <3>3, <3>4
    <2>2. CASE q # p
      <3>1. slots'[q] = slots[q] /\ active'[q] = active[q]
        BY <1>2, <2>2 DEF WlanTypeOK
      <3>2. \A m : <<q, m>> \in joined => <<q, m>> \in joined'
        BY <2>2 DEF OfAp
      <3>3. /\ Len(slots[q]) <= MaxStations
            /\ ~ active[q] => slots[q] = <<>>
            /\ \A j \in DOMAIN slots[q] :
                 LET d == slots[q][j]
                 IN  /\ d.hdr = NewClient(q, d.mac).hdr /\ RulesFit(d)
                     /\ <<q, d.mac>> \in joined
                     /\ \A m \in DOMAIN slots[q] : slots[q][m].mac = d.mac => m = j
        BY DEF SlotsOK
      <3> QED BY <3>1, <3>2, <3>3
    <2> QED BY <2>1, <2>2
  <1>8. Cardinality(Occupied') = Cardinality(Occupied) - l
    <2>1. Occupied \subseteq Aps \X (1 .. MaxStations) /\ Occupied' \subseteq Aps \X (1 .. MaxStations)
      BY DEF Occupied
    <2>2. \A q \in Aps, j \in 1 .. MaxStations :
            /\ <<q, j>> \in Occupied <=> j \in DOMAIN slots[q]
            /\ <<q, j>> \in Occupied' <=> j \in DOMAIN slots'[q]
      BY DEF Occupied
    <2>3. \A x \in Aps \X (1 .. MaxStations) :
            /\ x \in Occupied' <=> x \in Occupied /\ x \notin {p} \X (1 .. l)
            /\ x \in {p} \X (1 .. l) => x \in Occupied
      <3> SUFFICES ASSUME NEW q \in Aps, NEW j \in 1 .. MaxStations
                   PROVE  /\ <<q, j>> \in Occupied' <=>
                               <<q, j>> \in Occupied /\ <<q, j>> \notin {p} \X (1 .. l)
                          /\ <<q, j>> \in {p} \X (1 .. l) => <<q, j>> \in Occupied
        OBVIOUS
      <3>1. <<q, j>> \in {p} \X (1 .. l) <=> q = p /\ j \in 1 .. l
        OBVIOUS
      <3> QED BY <1>1, <1>2, <2>2, <3>1
    <2>4. {p} \X (1 .. l) \subseteq Aps \X (1 .. MaxStations)
      BY <1>1
    <2> DEFINE P == {p} \X (1 .. l)
    <2>5. Occupied' = Occupied \ P /\ Occupied \cap P = P
      <3> HIDE DEF Occupied
      <3> QED BY <2>1, <2>3, <2>4
    <2>6. Cardinality(P) = l
      <3>1. IsFiniteSet(1 .. l) /\ Cardinality(1 .. l) = l
        <4>1. \A m \in Nat : IsFiniteSet(1 .. m) /\ Cardinality(1 .. m) = m
          <5> TAKE m \in Nat
          <5>1. 1 \in Int /\ m \in Int
            OBVIOUS
          <5>2. /\ IsFiniteSet(1 .. m)
                /\ Cardinality(1 .. m) = (IF 1 > m THEN 0 ELSE m - 1 + 1)
            BY <5>1, FS_Interval
          <5>3. (IF 1 > m THEN 0 ELSE m - 1 + 1) = m
            OBVIOUS
          <5> QED BY <5>2, <5>3
        <4> QED BY <1>1, <4>1
      <3>2. IsFiniteSet({p}) /\ Cardinality({p}) = 1
        BY FS_Singleton
      <3>3. Cardinality(P) = 1 * l
        BY <3>1, <3>2, FS_Product
      <3>4. \A m \in Nat : 1 * m = m
        OBVIOUS
      <3> QED BY <1>1, <3>3, <3>4
    <2>7. Cardinality(Occupied \ P) = Cardinality(Occupied) - Cardinality(Occupied \cap P)
      BY AllFinite, FS_Difference
    <2> QED BY <2>5, <2>6, <2>7
  <1> QED BY <1>2, <1>6, <1>7, <1>8

\* The stations of an access point lose their IPv6 addresses.
LEMMA Forgotten6 ==
  ASSUME NEW c \in WlanClient, RulesFit(c)
  PROVE  LET d == Forgets6(c)
         IN  /\ d \in WlanClient /\ RulesFit(d) /\ d.mac = c.mac /\ d.hdr = c.hdr /\ d.v4 = c.v4
             /\ Handles(d) = Handles(c) \ RuleHandles(c, "v6")
  <1> DEFINE u == Unrouted(c, "v6")
             d == Forgets6(c)
  <1>1. "v6" \in Families
    BY DEF Families
  <1>2. /\ OfOthers({}, c) /\ Holds({}, EmptyBag, c, EntriesOf(Handles(c)) (+) EmptyBag)
    BY FS_EmptySet DEF OfOthers, Holds, EmptyBag, SetToBag, IsABag
  <1>3. /\ u \in WlanClient /\ u = [c EXCEPT !.rt = u.rt] /\ u.rt["v6"] = <<>> /\ RulesFit(u)
        /\ Handles(u) = Handles(c) \ RuleHandles(c, "v6")
    BY <1>1, <1>2, UnrouteHolds
  <1> HIDE DEF u
  <1>4. d = [u EXCEPT !.v6 = <<>>] /\ u.mac = c.mac /\ u.hdr = c.hdr /\ u.v4 = c.v4
    <2>1. d = [u EXCEPT !.v6 = <<>>]
      BY DEF Forgets6, u
    <2>2. u.mac = c.mac /\ u.hdr = c.hdr /\ u.v4 = c.v4
      BY DEF u, Unrouted, WlanClient
    <2> QED BY <2>1, <2>2
  <1> HIDE DEF d
  <1>5. /\ d \in WlanClient /\ d.mac = c.mac /\ d.hdr = c.hdr /\ d.v4 = c.v4
        /\ d.rt = u.rt /\ d.hdr = u.hdr /\ d.v4 = u.v4
    <2>1. d.mac = u.mac /\ d.hdr = u.hdr /\ d.v4 = u.v4 /\ d.rt = u.rt
      BY <1>3, <1>4 DEF WlanClient
    <2>2. d \in WlanClient
      <3>1. <<>> \in Seq(V6) /\ d = [u EXCEPT !.v6 = <<>>]
        BY <1>4
      <3>2. \A s \in Seq(V6) : [u EXCEPT !.v6 = s] \in WlanClient
        BY <1>3 DEF WlanClient
      <3> QED BY <3>1, <3>2
    <2> QED BY <1>4, <2>1, <2>2
  <1>6. RulesFit(d)
    <2>1. Needs(d, "v4") = Needs(u, "v4")
      BY <1>5 DEF Needs
    <2>2. IsPrefix(d.rt["v6"], Needs(d, "v6"))
      BY <1>1, <1>3, <1>5, NeedsTyped, PrefixFacts
    <2> QED BY <1>3, <1>5, <2>1, <2>2 DEF RulesFit, Families
  <1>7. Handles(d) = Handles(u)
    BY <1>5 DEF Handles, HeaderHandles, RuleHandles, Handle
  <1> QED BY <1>3, <1>5, <1>6, <1>7 DEF d

LEMMA ApForgets6 ==
  ASSUME WlanTypeOK, SlotsOK, HwOK, NEW p \in Aps, active' = active, joined' = joined,
         slots' = [slots EXCEPT ![p] = [i \in DOMAIN @ |-> Forgets6(@[i])]],
         hw' = hw (-) EntriesOf(UNION {RuleHandles(c, "v6") : c \in Range(slots[p])}),
         lost' = lost
  PROVE  /\ slots' \in [Aps -> Seq(WlanClient)] /\ SlotsOK' /\ HwOK' /\ Occupied' = Occupied
         /\ \A q \in Aps : /\ DOMAIN slots'[q] = DOMAIN slots[q]
                           /\ \A j \in DOMAIN slots[q] :
                                slots'[q][j] = IF q = p THEN Forgets6(slots[q][j]) ELSE slots[q][j]
  <1> DEFINE M == UNION {RuleHandles(c, "v6") : c \in Range(slots[p])}
             New == [i \in DOMAIN slots[p] |-> Forgets6(slots[p][i])]
  <1>1. /\ slots \in [Aps -> Seq(WlanClient)] /\ slots[p] \in Seq(WlanClient)
        /\ DOMAIN slots[p] = 1 .. Len(slots[p]) /\ Len(slots[p]) \in Nat
    BY DEF WlanTypeOK
  <1>2. \A q \in Aps : \A j \in DOMAIN slots[q] :
          LET d == Forgets6(slots[q][j])
              c == slots[q][j]
          IN  /\ d \in WlanClient /\ RulesFit(d) /\ d.mac = c.mac /\ d.hdr = c.hdr
              /\ Handles(d) = Handles(c) \ RuleHandles(c, "v6")
    <2> TAKE q \in Aps
    <2> TAKE j \in DOMAIN slots[q]
    <2>1. slots[q][j] \in WlanClient /\ RulesFit(slots[q][j])
      BY SlotsTyped DEF SlotsOK
    <2> QED BY <2>1, Forgotten6
  <1>3. New \in Seq(WlanClient) /\ Len(New) = Len(slots[p])
    <2>1. New \in [1 .. Len(slots[p]) -> WlanClient]
      BY <1>1, <1>2
    <2> HIDE DEF New
    <2>2. New \in Seq(WlanClient) /\ DOMAIN New = 1 .. Len(slots[p])
      BY <1>1, <2>1, SeqDef
    <2> QED BY <1>1, <2>2
  <1>4. slots' = [slots EXCEPT ![p] = New]
    BY <1>1
  <1>5. slots' \in [Aps -> Seq(WlanClient)]
    BY <1>1, <1>3, <1>4
  <1>6. \A q \in Aps : /\ DOMAIN slots'[q] = DOMAIN slots[q] /\ Len(slots'[q]) = Len(slots[q])
                       /\ \A j \in DOMAIN slots[q] :
                            slots'[q][j] = IF q = p THEN Forgets6(slots[q][j]) ELSE slots[q][j]
    <2> TAKE q \in Aps
    <2>1. CASE q = p
      <3>1. slots'[p] = New
        BY <1>1, <1>4
      <3>2. DOMAIN New = DOMAIN slots[p] /\ \A j \in DOMAIN slots[p] : New[j] = Forgets6(slots[p][j])
        OBVIOUS
      <3> HIDE DEF New
      <3> QED BY <1>3, <2>1, <3>1, <3>2
    <2>2. CASE q # p
      BY <1>1, <1>4, <2>2
    <2> QED BY <2>1, <2>2
  <1> HIDE DEF New
  <1>7. \A k : k \in M <=> \E i \in DOMAIN slots[p] : k \in RuleHandles(slots[p][i], "v6")
    BY DEF Range
  <1> HIDE DEF M
  <1>8. \A q \in Aps : \A i \in DOMAIN slots[q] : RuleHandles(slots[q][i], "v6") \subseteq Handles(slots[q][i])
    BY SlotsTyped, HandlesFinite DEF Families
  <1>9. M \subseteq AllHandles
    BY <1>7, <1>8, AllHandlesAre
  <1>10. AllHandles' = AllHandles \ M
    <2>1. ASSUME NEW k \in AllHandles' PROVE k \in AllHandles /\ k \notin M
      <3>1. PICK q \in Aps : \E j \in DOMAIN slots'[q] : k \in Handles(slots'[q][j])
        BY NextHandlesAre
      <3>2. PICK j \in DOMAIN slots'[q] : k \in Handles(slots'[q][j])
        BY <3>1
      <3>3. j \in DOMAIN slots[q]
        BY <1>6
      <3>4. k \in Handles(slots[q][j]) /\ (q = p => k \notin RuleHandles(slots[q][j], "v6"))
        <4>1. CASE q = p
          <5>1. k \in Handles(Forgets6(slots[q][j]))
            BY <1>6, <3>2, <3>3, <4>1
          <5>2. Handles(Forgets6(slots[q][j])) = Handles(slots[q][j]) \ RuleHandles(slots[q][j], "v6")
            BY <1>2, <3>3
          <5> QED BY <5>1, <5>2
        <4>2. CASE q # p
          BY <1>6, <3>2, <3>3, <4>2
        <4> QED BY <4>1, <4>2
      <3>5. k \in AllHandles
        BY <3>3, <3>4, AllHandlesAre
      <3>6. \A i \in DOMAIN slots[p] : k \notin RuleHandles(slots[p][i], "v6")
        BY <1>8, <3>3, <3>4, OneOwner
      <3> QED BY <1>7, <3>5, <3>6
    <2>2. ASSUME NEW k \in AllHandles, k \notin M PROVE k \in AllHandles'
      <3>1. PICK q \in Aps : \E j \in DOMAIN slots[q] : k \in Handles(slots[q][j])
        BY AllHandlesAre
      <3>2. PICK j \in DOMAIN slots[q] : k \in Handles(slots[q][j])
        BY <3>1
      <3>3. q = p => k \notin RuleHandles(slots[q][j], "v6")
        BY <1>7, <2>2
      <3>4. k \in Handles(slots'[q][j]) /\ j \in DOMAIN slots'[q]
        <4>1. CASE q = p
          <5>1. slots'[q][j] = Forgets6(slots[q][j]) /\ j \in DOMAIN slots'[q]
            BY <1>6, <4>1
          <5>2. Handles(Forgets6(slots[q][j])) = Handles(slots[q][j]) \ RuleHandles(slots[q][j], "v6")
            BY <1>2
          <5> QED BY <3>2, <3>3, <4>1, <5>1, <5>2
        <4>2. CASE q # p
          BY <1>6, <3>2, <4>2
        <4> QED BY <4>1, <4>2
      <3> QED BY <3>4, NextHandlesAre
    <2> QED BY <2>1, <2>2
  <1>11. HwOK'
    BY <1>9, <1>10, AllFinite, MinusMore DEF HwOK, M
  <1>12. \A q \in Aps : \A j \in DOMAIN slots[q] :
           /\ slots'[q][j].mac = slots[q][j].mac /\ slots'[q][j].hdr = slots[q][j].hdr
           /\ RulesFit(slots'[q][j])
    <2> TAKE q \in Aps
    <2> TAKE j \in DOMAIN slots[q]
    <2>1. RulesFit(slots[q][j])
      BY DEF SlotsOK
    <2>2. CASE q = p
      <3>1. slots'[q][j] = Forgets6(slots[q][j])
        BY <1>6, <2>2
      <3> QED BY <1>2, <3>1
    <2>3. CASE q # p
      <3>1. slots'[q][j] = slots[q][j]
        BY <1>6, <2>3
      <3> QED BY <2>1, <3>1
    <2> QED BY <2>2, <2>3
  <1>13. SlotsOK'
    <2> SUFFICES ASSUME NEW q \in Aps
                 PROVE  /\ Len(slots'[q]) <= MaxStations
                        /\ ~ active'[q] => slots'[q] = <<>>
                        /\ \A j \in DOMAIN slots'[q] :
                             LET d == slots'[q][j]
                             IN  /\ d.hdr = NewClient(q, d.mac).hdr /\ RulesFit(d)
                                 /\ <<q, d.mac>> \in joined'
                                 /\ \A m \in DOMAIN slots'[q] : slots'[q][m].mac = d.mac => m = j
      BY DEF SlotsOK
    <2>1. Len(slots'[q]) <= MaxStations
      BY <1>6 DEF SlotsOK
    <2>2. ~ active'[q] => slots'[q] = <<>>
      <3>1. ~ active[q] => slots[q] = <<>> /\ Len(slots[q]) = 0
        BY DEF SlotsOK
      <3>2. slots'[q] \in Seq(WlanClient) /\ Len(slots'[q]) = Len(slots[q])
        BY <1>5, <1>6
      <3> QED BY <3>1, <3>2
    <2>3. ASSUME NEW j \in DOMAIN slots'[q]
          PROVE  LET d == slots'[q][j]
                 IN  /\ d.hdr = NewClient(q, d.mac).hdr /\ RulesFit(d)
                     /\ <<q, d.mac>> \in joined'
                     /\ \A m \in DOMAIN slots'[q] : slots'[q][m].mac = d.mac => m = j
      <3>1. j \in DOMAIN slots[q] /\ DOMAIN slots'[q] = DOMAIN slots[q]
        BY <1>6
      <3>2. LET c == slots[q][j]
            IN  /\ c.hdr = NewClient(q, c.mac).hdr /\ <<q, c.mac>> \in joined
                /\ \A m \in DOMAIN slots[q] : slots[q][m].mac = c.mac => m = j
        BY <3>1 DEF SlotsOK
      <3> QED BY <1>12, <3>1, <3>2
    <2> QED BY <2>1, <2>2, <2>3
  <1>14. Occupied' = Occupied
    BY <1>6 DEF Occupied
  <1> QED BY <1>5, <1>6, <1>11, <1>13, <1>14

-----------------------------------------------------------------------------
\* WlanClients: the news that waits

\* One more event waits: it is the last news of whom it is news, and the others
\* have the news they had.
LEMMA NewsPosted ==
  ASSUME NEW n, NEW e, queue \in Seq(AddrEvents), queue' = Append(queue, e)
  PROVE  /\ IsNews(n, e) /\ e.ip = n.v4 => LastNews(n)'
         /\ ~ IsNews(n, e) => (LastNews(n) => LastNews(n)') /\ (NoNews(n) => NoNews(n)')
  <1> DEFINE l == Len(queue) + 1
  <1>1. /\ DOMAIN queue = 1 .. Len(queue) /\ Len(queue) \in Nat /\ DOMAIN queue' = 1 .. l
        /\ queue'[l] = e /\ \A q \in DOMAIN queue : queue'[q] = queue[q]
    OBVIOUS
  <1>2. /\ \A q \in DOMAIN queue' : q = l \/ q \in DOMAIN queue
        /\ \A q \in DOMAIN queue : q \in DOMAIN queue' /\ q # l /\ ~ (q > l)
        /\ l \in DOMAIN queue' /\ ~ (l > l)
    BY <1>1
  <1> HIDE DEF l
  <1>3. ASSUME IsNews(n, e), e.ip = n.v4 PROVE LastNews(n)'
    <2>1. \A r \in DOMAIN queue' : r > l => ~ IsNews(n, queue'[r])
      BY <1>2
    <2> QED BY <1>1, <1>2, <1>3, <2>1 DEF LastNews, IsNews
  <1>4. ASSUME ~ IsNews(n, e), LastNews(n) PROVE LastNews(n)'
    <2>1. PICK q \in DOMAIN queue : /\ IsNews(n, queue[q]) /\ queue[q].ip = n.v4
                                    /\ \A r \in DOMAIN queue : r > q => ~ IsNews(n, queue[r])
      BY <1>4 DEF LastNews
    <2>2. \A r \in DOMAIN queue' : r > q => ~ IsNews(n, queue'[r])
      BY <1>1, <1>2, <1>4, <2>1
    <2>3. q \in DOMAIN queue' /\ queue'[q] = queue[q]
      BY <1>1, <1>2
    <2>4. IsNews(n, queue'[q]) /\ queue'[q].ip = n.v4
      BY <2>1, <2>3
    <2> QED BY <2>2, <2>3, <2>4 DEF LastNews, IsNews
  <1>5. ASSUME ~ IsNews(n, e), NoNews(n) PROVE NoNews(n)'
    <2>1. \A q \in DOMAIN queue' : ~ IsNews(n, queue'[q])
      BY <1>1, <1>2, <1>5 DEF NoNews
    <2> QED BY <2>1 DEF NoNews, IsNews
  <1> QED BY <1>3, <1>4, <1>5

\* The first event is taken.
LEMMA NewsTaken ==
  ASSUME NEW n, queue \in Seq(AddrEvents), queue # <<>>, queue' = Tail(queue)
  PROVE  /\ NoNews(n) => NoNews(n)' /\ ~ IsNews(n, Head(queue))
         /\ LastNews(n) => \/ LastNews(n)'
                           \/ IsNews(n, Head(queue)) /\ Head(queue).ip = n.v4 /\ NoNews(n)'
  <1>1. /\ DOMAIN queue = 1 .. Len(queue) /\ Len(queue) \in Nat \ {0} /\ Head(queue) = queue[1]
        /\ DOMAIN queue' = 1 .. Len(queue) - 1
        /\ \A q \in 1 .. Len(queue) - 1 : queue'[q] = queue[q + 1]
    OBVIOUS
  <1>2. /\ 1 \in DOMAIN queue
        /\ \A q \in DOMAIN queue' : q + 1 \in DOMAIN queue /\ q + 1 > 1 /\ queue'[q] = queue[q + 1]
        /\ \A q \in DOMAIN queue : q # 1 => q - 1 \in DOMAIN queue' /\ queue'[q - 1] = queue[q]
        /\ \A q \in DOMAIN queue, r \in DOMAIN queue' : r > q - 1 => r + 1 > q
    BY <1>1
  <1>3. ASSUME NoNews(n) PROVE NoNews(n)' /\ ~ IsNews(n, Head(queue))
    <2>1. \A q \in DOMAIN queue' : ~ IsNews(n, queue'[q])
      BY <1>2, <1>3 DEF NoNews
    <2>2. NoNews(n)'
      BY <2>1 DEF NoNews, IsNews
    <2> QED BY <1>1, <1>2, <1>3, <2>2 DEF NoNews
  <1>4. ASSUME LastNews(n)
        PROVE  \/ LastNews(n)'
               \/ IsNews(n, Head(queue)) /\ Head(queue).ip = n.v4 /\ NoNews(n)'
    <2>1. PICK q \in DOMAIN queue : /\ IsNews(n, queue[q]) /\ queue[q].ip = n.v4
                                    /\ \A r \in DOMAIN queue : r > q => ~ IsNews(n, queue[r])
      BY <1>4 DEF LastNews
    <2>2. CASE q = 1
      <3>1. \A r \in DOMAIN queue' : ~ IsNews(n, queue'[r])
        BY <1>2, <2>1, <2>2
      <3>2. NoNews(n)'
        BY <3>1 DEF NoNews, IsNews
      <3> QED BY <1>1, <2>1, <2>2, <3>2
    <2>3. CASE q # 1
      <3>1. q - 1 \in DOMAIN queue' /\ queue'[q - 1] = queue[q]
        BY <1>2, <2>3
      <3>2. \A r \in DOMAIN queue' : r > q - 1 => ~ IsNews(n, queue'[r])
        BY <1>2, <2>1
      <3>3. IsNews(n, queue'[q - 1]) /\ queue'[q - 1].ip = n.v4
        BY <2>1, <3>1
      <3> QED BY <3>1, <3>2, <3>3 DEF LastNews, IsNews
    <2> QED BY <2>2, <2>3
  <1> QED BY <1>3, <1>4

\* A slot of access point q with its station and its IPv4 address
HasSlot(q, c) ==
  \E m \in DOMAIN slots[q] : slots[q][m].mac = c.mac /\ slots[q][m].v4 = c.v4
Known(n) ==
  \A k \in DOMAIN slots[n.num] : slots[n.num][k].mac = n.mac =>
    LastNews(n) \/ (NoNews(n) /\ slots[n.num][k].v4 = n.v4)

LEMMA KnownAre ==
  /\ KnownOK <=> \A i \in DOMAIN cache : cache[i].v4 # None => Known(cache[i])
  /\ KnownOK' <=> \A i \in DOMAIN cache' : cache'[i].v4 # None => Known(cache[i])'
  BY DEF KnownOK, Known

LEMMA SameNews ==
  ASSUME NEW n, UNCHANGED queue
  PROVE  LastNews(n)' = LastNews(n) /\ NoNews(n)' = NoNews(n)
  BY DEF LastNews, NoNews, IsNews

\* The stations are those that were there.
LEMMA KnownKeeps ==
  ASSUME KnownOK, UNCHANGED queue,
         \A i \in DOMAIN cache' : cache'[i].v4 # None =>
           /\ \E j \in DOMAIN cache : cache'[i] = cache[j]
           /\ \A k \in DOMAIN slots'[cache'[i].num] :
                slots'[cache'[i].num][k].mac = cache'[i].mac =>
                  HasSlot(cache'[i].num, slots'[cache'[i].num][k])
  PROVE  KnownOK'
  <1> SUFFICES ASSUME NEW i \in DOMAIN cache', cache'[i].v4 # None,
                      NEW n, n = cache'[i],
                      NEW k \in DOMAIN slots'[n.num], slots'[n.num][k].mac = n.mac
               PROVE  \/ LastNews(n)'
                      \/ NoNews(n)' /\ slots'[n.num][k].v4 = n.v4
    BY DEF KnownOK
  <1>1. PICK j \in DOMAIN cache : n = cache[j]
    OBVIOUS
  <1>2. PICK m \in DOMAIN slots[n.num] :
          slots[n.num][m].mac = n.mac /\ slots[n.num][m].v4 = slots'[n.num][k].v4
    BY DEF HasSlot
  <1>3. LastNews(n) \/ (NoNews(n) /\ slots[n.num][m].v4 = n.v4)
    BY <1>1, <1>2 DEF KnownOK
  <1> QED BY <1>2, <1>3, SameNews

\* An event is posted: it is the news of a neighbour, or of none that is known.
LEMMA KnownPosted ==
  ASSUME WlanTypeOK, KnownOK, NEW e, queue' = Append(queue, e),
         \A i \in DOMAIN cache' : cache'[i].v4 # None =>
           \/ IsNews(cache'[i], e) /\ e.ip = cache'[i].v4
           \/ /\ ~ IsNews(cache'[i], e)
              /\ \E j \in DOMAIN cache : cache'[i] = cache[j]
              /\ \A k \in DOMAIN slots'[cache'[i].num] :
                   slots'[cache'[i].num][k].mac = cache'[i].mac =>
                     HasSlot(cache'[i].num, slots'[cache'[i].num][k])
  PROVE  KnownOK'
  <1> SUFFICES ASSUME NEW i \in DOMAIN cache', cache'[i].v4 # None,
                      NEW n, n = cache'[i],
                      NEW k \in DOMAIN slots'[n.num], slots'[n.num][k].mac = n.mac
               PROVE  \/ LastNews(n)'
                      \/ NoNews(n)' /\ slots'[n.num][k].v4 = n.v4
    BY DEF KnownOK
  <1>1. queue \in Seq(AddrEvents)
    BY DEF WlanTypeOK
  <1>2. CASE IsNews(n, e) /\ e.ip = n.v4
    BY <1>1, <1>2, NewsPosted
  <1>3. CASE ~ (IsNews(n, e) /\ e.ip = n.v4)
    <2>1. /\ ~ IsNews(n, e)
          /\ \E j \in DOMAIN cache : n = cache[j]
          /\ HasSlot(n.num, slots'[n.num][k])
      BY <1>3
    <2>2. PICK j \in DOMAIN cache : n = cache[j]
      BY <2>1
    <2>3. PICK m \in DOMAIN slots[n.num] :
            slots[n.num][m].mac = n.mac /\ slots[n.num][m].v4 = slots'[n.num][k].v4
      BY <2>1 DEF HasSlot
    <2>4. LastNews(n) \/ (NoNews(n) /\ slots[n.num][m].v4 = n.v4)
      BY <2>2, <2>3 DEF KnownOK
    <2> QED BY <1>1, <2>1, <2>3, <2>4, NewsPosted
  <1> QED BY <1>2, <1>3

\* The first event is handled: the station it is for has its address.
LEMMA KnownTaken ==
  ASSUME WlanTypeOK, KnownOK, queue # <<>>, queue' = Tail(queue), UNCHANGED cache,
         \A q \in Aps : \A j \in DOMAIN slots'[q] :
           /\ j \in DOMAIN slots[q] /\ slots'[q][j].mac = slots[q][j].mac
           /\ slots'[q][j].v4 = IF /\ Head(queue).fam = "v4" /\ q = Head(queue).ap
                                   /\ slots[q][j].mac = Head(queue).mac
                                THEN Head(queue).ip ELSE slots[q][j].v4
  PROVE  KnownOK'
  <1> SUFFICES ASSUME NEW i \in DOMAIN cache, cache[i].v4 # None,
                      NEW n, n = cache[i],
                      NEW k \in DOMAIN slots'[n.num], slots'[n.num][k].mac = n.mac
               PROVE  \/ LastNews(n)'
                      \/ NoNews(n)' /\ slots'[n.num][k].v4 = n.v4
    BY DEF KnownOK
  <1>1. queue \in Seq(AddrEvents) /\ n.num \in Aps
    <2>1. queue \in Seq(AddrEvents) /\ cache \in Seq(Neighbors)
      BY DEF WlanTypeOK
    <2>2. n \in Neighbors
      BY <2>1
    <2> QED BY <2>1, <2>2 DEF Neighbors
  <1>2. /\ k \in DOMAIN slots[n.num] /\ slots[n.num][k].mac = n.mac
        /\ slots'[n.num][k].v4 = IF IsNews(n, Head(queue))
                                 THEN Head(queue).ip ELSE slots[n.num][k].v4
    BY <1>1 DEF IsNews
  <1>3. LastNews(n) \/ (NoNews(n) /\ slots[n.num][k].v4 = n.v4)
    BY <1>2 DEF KnownOK
  <1>4. CASE NoNews(n) /\ slots[n.num][k].v4 = n.v4
    <2>1. NoNews(n)' /\ ~ IsNews(n, Head(queue))
      BY <1>1, <1>4, NewsTaken
    <2> QED BY <1>2, <1>4, <2>1
  <1>5. CASE LastNews(n)
    <2>1. \/ LastNews(n)'
          \/ IsNews(n, Head(queue)) /\ Head(queue).ip = n.v4 /\ NoNews(n)'
      BY <1>1, <1>5, NewsTaken
    <2> QED BY <1>2, <2>1
  <1> QED BY <1>3, <1>4, <1>5

CacheFits ==
  cache \in Seq(Neighbors) /\ Len(cache) <= MaxNeighbors /\ circular \in 1 .. MaxNeighbors

\* The entry of a MAC is put in, or changed: no other has that MAC.
LEMMA EntrySet ==
  ASSUME WlanTypeOK, CacheOK, NEW mac \in Stations, NEW p \in Aps, NEW ip \in V4 \cup {None},
         NEW i \in DOMAIN cache, cache' = [cache EXCEPT ![i] = Neighbor(mac, p, ip)],
         \A j \in DOMAIN cache : cache[j].mac = mac => j = i
  PROVE  /\ cache' \in Seq(Neighbors) /\ Len(cache') = Len(cache) /\ CacheOK'
         /\ \A k \in DOMAIN cache' :
              \/ cache'[k] = Neighbor(mac, p, ip)
              \/ \E j \in DOMAIN cache : cache'[k] = cache[j] /\ cache[j].mac # mac
  <1> DEFINE n == Neighbor(mac, p, ip)
  <1>1. n \in Neighbors /\ n.mac = mac
    BY DEF Neighbor, Neighbors
  <1> HIDE DEF n
  <1>2. /\ cache \in Seq(Neighbors) /\ DOMAIN cache = 1 .. Len(cache) /\ i \in 1 .. Len(cache)
    BY DEF WlanTypeOK
  <1>3. cache' = [cache EXCEPT ![i] = n]
    BY DEF n
  <1>4. /\ cache' \in Seq(Neighbors) /\ Len(cache') = Len(cache)
        /\ \A j \in 1 .. Len(cache) : cache'[j] = IF j = i THEN n ELSE cache[j]
    BY <1>1, <1>2, <1>3, ExceptSeq
  <1>5. DOMAIN cache' = DOMAIN cache
    BY <1>2, <1>4
  <1>6. CacheOK'
    <2> SUFFICES ASSUME NEW j \in DOMAIN cache, NEW k \in DOMAIN cache,
                        cache'[j].mac = cache'[k].mac
                 PROVE  j = k
      BY <1>5 DEF CacheOK
    <2>1. \A m \in DOMAIN cache : cache'[m].mac = IF m = i THEN mac ELSE cache[m].mac
      BY <1>1, <1>2, <1>4
    <2>2. CASE j = i \/ k = i
      BY <2>1, <2>2
    <2>3. CASE j # i /\ k # i
      BY <2>1, <2>3 DEF CacheOK
    <2> QED BY <2>2, <2>3
  <1>7. ASSUME NEW k \in DOMAIN cache'
        PROVE  \/ cache'[k] = n
               \/ \E j \in DOMAIN cache : cache'[k] = cache[j] /\ cache[j].mac # mac
    BY <1>2, <1>4, <1>5
  <1> QED BY <1>4, <1>6, <1>7 DEF n

\* Remember: a MAC that has no entry gets one.
LEMMA EntryNew ==
  ASSUME WlanTypeOK, CacheOK, NEW mac \in Stations, NEW p \in Aps, NEW ip \in V4 \cup {None},
         CacheIndex(mac) = 0, Remember(mac, p, ip)
  PROVE  /\ CacheFits' /\ CacheOK'
         /\ \A k \in DOMAIN cache' : cache'[k].v4 # None =>
              \/ cache'[k] = Neighbor(mac, p, ip)
              \/ \E j \in DOMAIN cache : cache'[k] = cache[j] /\ cache[j].mac # mac
  <1>1. \A j \in DOMAIN cache : cache[j].mac # mac
    BY CacheFacts
  <1>2. /\ cache \in Seq(Neighbors) /\ DOMAIN cache = 1 .. Len(cache) /\ Len(cache) \in Nat
        /\ Len(cache) <= MaxNeighbors /\ MaxNeighbors \in Nat /\ circular \in 1 .. MaxNeighbors
    BY WlanClientsAssumption DEF WlanTypeOK
  <1>3. CASE Len(cache) < MaxNeighbors
    <2> DEFINE n == Neighbor(mac, p, ip)
               l == Len(cache) + 1
    <2>1. n \in Neighbors /\ n.mac = mac
      BY DEF Neighbor, Neighbors
    <2>2. cache' = Append(cache, n) /\ circular' = circular
      BY <1>3 DEF Remember
    <2> HIDE DEF n
    <2>3. /\ cache' \in Seq(Neighbors) /\ Len(cache') = l /\ DOMAIN cache' = 1 .. l
          /\ cache'[l] = n /\ \A j \in 1 .. Len(cache) : cache'[j] = cache[j]
      BY <1>2, <2>1, <2>2
    <2>4. CacheFits'
      BY <1>2, <1>3, <2>2, <2>3 DEF CacheFits
    <2>5. \A j \in DOMAIN cache' : j = l \/ (j \in DOMAIN cache /\ cache'[j] = cache[j])
      BY <1>2, <2>3
    <2>6. CacheOK'
      <3> SUFFICES ASSUME NEW j \in DOMAIN cache', NEW k \in DOMAIN cache',
                          cache'[j].mac = cache'[k].mac
                   PROVE  j = k
        BY DEF CacheOK
      <3>1. j = l \/ (j \in DOMAIN cache /\ cache'[j] = cache[j])
        BY <2>5
      <3>2. k = l \/ (k \in DOMAIN cache /\ cache'[k] = cache[k])
        BY <2>5
      <3>3. CASE j \in DOMAIN cache /\ k \in DOMAIN cache /\ cache'[j] = cache[j] /\ cache'[k] = cache[k]
        BY <3>3 DEF CacheOK
      <3> QED BY <1>1, <2>1, <2>3, <3>1, <3>2, <3>3
    <2>7. \A k \in DOMAIN cache' :
            \/ cache'[k] = n
            \/ \E j \in DOMAIN cache : cache'[k] = cache[j] /\ cache[j].mac # mac
      BY <1>1, <2>3, <2>5
    <2> QED BY <2>4, <2>6, <2>7 DEF n
  <1>4. CASE ~ (Len(cache) < MaxNeighbors)
    <2>1. cache' = [cache EXCEPT ![circular] = Neighbor(mac, p, None)]
          /\ circular' = (circular % MaxNeighbors) + 1
      BY <1>4 DEF Remember
    <2>2. circular \in DOMAIN cache
      BY <1>2, <1>4
    <2>3. /\ cache' \in Seq(Neighbors) /\ Len(cache') = Len(cache) /\ CacheOK'
          /\ \A k \in DOMAIN cache' :
               \/ cache'[k] = Neighbor(mac, p, None)
               \/ \E j \in DOMAIN cache : cache'[k] = cache[j] /\ cache[j].mac # mac
      BY <1>1, <2>1, <2>2, EntrySet
    <2>4. circular' \in 1 .. MaxNeighbors
      BY <1>2, <2>1
    <2>5. Neighbor(mac, p, None).v4 = None
      BY DEF Neighbor
    <2>6. CacheFits'
      BY <1>2, <2>3, <2>4 DEF CacheFits
    <2> QED BY <2>3, <2>5, <2>6
  <1> QED BY <1>3, <1>4

\* An entry is taken out.
LEMMA EntryGone ==
  ASSUME WlanTypeOK, CacheOK, NEW i \in DOMAIN cache, cache' = RemoveAt(cache, i),
         UNCHANGED circular
  PROVE  /\ CacheFits' /\ CacheOK'
         /\ \A k \in DOMAIN cache' : \E j \in DOMAIN cache : cache'[k] = cache[j]
  <1> DEFINE From(k) == IF k < i THEN k ELSE k + 1
  <1>1. /\ cache \in Seq(Neighbors) /\ DOMAIN cache = 1 .. Len(cache) /\ Len(cache) \in Nat
        /\ Len(cache) <= MaxNeighbors /\ MaxNeighbors \in Nat /\ circular \in 1 .. MaxNeighbors
        /\ i \in 1 .. Len(cache)
    BY WlanClientsAssumption DEF WlanTypeOK
  <1>2. /\ cache' \in Seq(Neighbors) /\ Len(cache') = Len(cache) - 1
        /\ \A k \in 1 .. Len(cache) - 1 : cache'[k] = IF k < i THEN cache[k] ELSE cache[k + 1]
    BY <1>1, RemoveFacts
  <1>3. DOMAIN cache' = 1 .. Len(cache) - 1
    BY <1>1, <1>2
  <1>4. \A k \in DOMAIN cache' :
          /\ From(k) \in DOMAIN cache /\ cache'[k] = cache[From(k)]
          /\ \A m \in DOMAIN cache' : From(k) = From(m) => k = m
    BY <1>1, <1>2, <1>3
  <1>5. CacheFits'
    BY <1>1, <1>2 DEF CacheFits
  <1> HIDE DEF From
  <1>6. CacheOK'
    BY <1>4 DEF CacheOK
  <1> QED BY <1>4, <1>5, <1>6

-----------------------------------------------------------------------------
\* WlanClients: the steps

LEMMA SlotsStay ==
  ASSUME WlanTypeOK, SlotsOK, HwOK, UNCHANGED <<slots, hw, lost>>,
         \A p \in Aps : active[p] => active'[p],
         \A p \in Aps : \A i \in DOMAIN slots[p] : <<p, slots[p][i].mac>> \in joined'
  PROVE  SlotsOK' /\ HwOK' /\ Occupied' = Occupied /\ AllClients' = AllClients
  <1>1. HwOK'
    <2>1. AllHandles' = AllHandles
      BY DEF AllHandles, AllClients
    <2> QED BY <2>1 DEF HwOK
  <1>2. Occupied' = Occupied /\ AllClients' = AllClients
    BY DEF Occupied, AllClients
  <1>3. SlotsOK'
    BY DEF SlotsOK
  <1> QED BY <1>1, <1>2, <1>3

\* Neighbour reports leave the stations alone.
StationsStay == UNCHANGED <<active, slots, total, hw, lost, natIfs, joined>>

LEMMA StationsKeep ==
  ASSUME WlanInv, StationsStay
  PROVE  /\ SlotsOK' /\ HwOK' /\ RecordsAgree'
         /\ CacheFits' /\ queue' \in Seq(AddrEvents) => WlanTypeOK'
         /\ \A q : \A k \in DOMAIN slots'[q] : HasSlot(q, slots'[q][k])
  <1>1. /\ WlanTypeOK /\ SlotsOK /\ HwOK /\ RecordsAgree
        /\ UNCHANGED <<active, slots, total, hw, lost, natIfs, joined>>
    BY DEF WlanInv, StationsStay
  <1>2. \A p \in Aps : \A i \in DOMAIN slots[p] : <<p, slots[p][i].mac>> \in joined'
    BY <1>1 DEF SlotsOK
  <1>3. SlotsOK' /\ HwOK' /\ Occupied' = Occupied /\ AllClients' = AllClients
    BY <1>1, <1>2, SlotsStay
  <1>4. RecordsAgree'
    BY <1>1, <1>3 DEF RecordsAgree
  <1>5. \A q : \A k \in DOMAIN slots'[q] : HasSlot(q, slots'[q][k])
    BY <1>1 DEF HasSlot
  <1>6. CacheFits' /\ queue' \in Seq(AddrEvents) => WlanTypeOK'
    BY <1>1 DEF WlanTypeOK, CacheFits
  <1> QED BY <1>3, <1>4, <1>5, <1>6

LEMMA PostTyped ==
  ASSUME WlanTypeOK, NEW p \in Aps, NEW mac \in Stations, NEW fam, NEW ip, Post(p, mac, fam, ip),
         (fam = "v4" /\ ip \in V4) \/ (fam = "v6" /\ ip \in V6)
  PROVE  /\ queue' = Append(queue, [ap |-> p, mac |-> mac, fam |-> fam, ip |-> ip])
         /\ queue' \in Seq(AddrEvents)
  <1>1. [ap |-> p, mac |-> mac, fam |-> fam, ip |-> ip] \in AddrEvents
    BY DEF AddrEvents
  <1>2. queue' = Append(queue, [ap |-> p, mac |-> mac, fam |-> fam, ip |-> ip])
    BY DEF Post
  <1>3. queue \in Seq(AddrEvents)
    BY DEF WlanTypeOK
  <1> QED BY <1>1, <1>2, <1>3, AppendProperties

LEMMA NewNeigh4Step ==
  ASSUME WlanInv, NEW p \in Aps, NEW mac \in Stations, NEW ip \in V4, NewNeigh4(p, mac, ip)
  PROVE  WlanInv'
  <1> DEFINE e == [ap |-> p, mac |-> mac, fam |-> "v4", ip |-> ip]
  <1>1. WlanTypeOK /\ CacheOK /\ KnownOK /\ StationsStay
    BY DEF WlanInv, NewNeigh4, StationsStay, driver
  <1>2. queue' = Append(queue, e) /\ queue' \in Seq(AddrEvents)
    BY <1>1, PostTyped DEF NewNeigh4
  <1>3. /\ CacheFits' /\ CacheOK'
        /\ \A k \in DOMAIN cache' : cache'[k].v4 # None =>
             \/ cache'[k] = Neighbor(mac, p, ip)
             \/ \E j \in DOMAIN cache : cache'[k] = cache[j] /\ cache[j].mac # mac
    <2>1. CASE CacheIndex(mac) = 0
      <3>1. Remember(mac, p, ip)
        BY <2>1 DEF NewNeigh4
      <3> QED BY <1>1, <2>1, <3>1, EntryNew
    <2>2. CASE CacheIndex(mac) # 0
      <3>1. cache' = [cache EXCEPT ![CacheIndex(mac)] = Neighbor(mac, p, ip)]
            /\ circular' = circular
        BY <2>2 DEF NewNeigh4
      <3>2. CacheIndex(mac) \in DOMAIN cache /\ cache[CacheIndex(mac)].mac = mac
        BY <1>1, <2>2, CacheFacts
      <3>3. \A j \in DOMAIN cache : cache[j].mac = mac => j = CacheIndex(mac)
        BY <1>1, <3>2 DEF CacheOK
      <3>4. /\ cache' \in Seq(Neighbors) /\ Len(cache') = Len(cache) /\ CacheOK'
            /\ \A k \in DOMAIN cache' :
                 \/ cache'[k] = Neighbor(mac, p, ip)
                 \/ \E j \in DOMAIN cache : cache'[k] = cache[j] /\ cache[j].mac # mac
        BY <1>1, <3>1, <3>2, <3>3, EntrySet
      <3>5. CacheFits'
        BY <1>1, <3>1, <3>4 DEF CacheFits, WlanTypeOK
      <3> QED BY <3>4, <3>5
    <2> QED BY <2>1, <2>2
  <1>4. KnownOK'
    <2>1. ASSUME NEW k \in DOMAIN cache', cache'[k].v4 # None
          PROVE  \/ IsNews(cache'[k], e) /\ e.ip = cache'[k].v4
                 \/ /\ ~ IsNews(cache'[k], e)
                    /\ \E j \in DOMAIN cache : cache'[k] = cache[j]
      <3>1. CASE cache'[k] = Neighbor(mac, p, ip)
        BY <3>1 DEF Neighbor, IsNews
      <3>2. CASE \E j \in DOMAIN cache : cache'[k] = cache[j] /\ cache[j].mac # mac
        BY <3>2 DEF IsNews
      <3> QED BY <1>3, <2>1, <3>1, <3>2
    <2> HIDE DEF e
    <2> QED BY <1>1, <1>2, <2>1, StationsKeep, KnownPosted
  <1> QED BY <1>1, <1>2, <1>3, <1>4, StationsKeep DEF WlanInv

LEMMA NewNeigh6Step ==
  ASSUME WlanInv, NEW p \in Aps, NEW mac \in Stations, NEW ip \in V6, NewNeigh6(p, mac, ip)
  PROVE  WlanInv'
  <1> DEFINE e == [ap |-> p, mac |-> mac, fam |-> "v6", ip |-> ip]
  <1>1. /\ WlanTypeOK /\ CacheOK /\ KnownOK /\ StationsStay /\ UNCHANGED <<cache, circular>>
    BY DEF WlanInv, NewNeigh6, StationsStay, driver
  <1>2. queue' = Append(queue, e) /\ queue' \in Seq(AddrEvents)
    BY <1>1, PostTyped DEF NewNeigh6
  <1>3. CacheFits' /\ CacheOK'
    BY <1>1 DEF CacheFits, WlanTypeOK, CacheOK
  <1>4. KnownOK'
    <2>1. \A k \in DOMAIN cache' : /\ ~ IsNews(cache'[k], e)
                                   /\ \E j \in DOMAIN cache : cache'[k] = cache[j]
      BY <1>1 DEF IsNews
    <2> HIDE DEF e
    <2> QED BY <1>1, <1>2, <2>1, StationsKeep, KnownPosted
  <1> QED BY <1>1, <1>2, <1>3, <1>4, StationsKeep DEF WlanInv

LEMMA NewMacStep ==
  ASSUME WlanInv, NEW p \in Aps, NEW mac \in Stations, NewMac(p, mac)
  PROVE  WlanInv'
  <1> DEFINE i == CacheIndex(mac)
  <1>1. WlanTypeOK /\ CacheOK /\ KnownOK /\ StationsStay
    BY DEF WlanInv, NewMac, StationsStay, driver
  <1>2. queue \in Seq(AddrEvents) /\ CacheFits
    BY <1>1 DEF WlanTypeOK, CacheFits
  <1>3. CASE i = 0
    <2>1. Remember(mac, p, None) /\ queue' = queue
      BY <1>3 DEF NewMac
    <2>2. /\ CacheFits' /\ CacheOK'
          /\ \A k \in DOMAIN cache' : cache'[k].v4 # None =>
               \/ cache'[k] = Neighbor(mac, p, None)
               \/ \E j \in DOMAIN cache : cache'[k] = cache[j] /\ cache[j].mac # mac
      BY <1>1, <1>3, <2>1, EntryNew
    <2>3. \A k \in DOMAIN cache' : cache'[k].v4 # None =>
            \E j \in DOMAIN cache : cache'[k] = cache[j]
      BY <2>2 DEF Neighbor
    <2>4. KnownOK'
      BY <1>1, <2>1, <2>3, StationsKeep, KnownKeeps
    <2> QED BY <1>1, <1>2, <2>1, <2>2, <2>4, StationsKeep DEF WlanInv
  <1>4. CASE i # 0
    <2>1. UNCHANGED <<cache, circular>> /\ i \in DOMAIN cache /\ cache[i].mac = mac
      BY <1>1, <1>4, CacheFacts DEF NewMac
    <2>2. CacheFits' /\ CacheOK'
      BY <1>1, <1>2, <2>1 DEF CacheFits, CacheOK
    <2>3. CASE cache[i].v4 = None
      <3>1. queue' = queue
        BY <1>4, <2>3 DEF NewMac
      <3>2. KnownOK'
        BY <1>1, <2>1, <3>1, StationsKeep, KnownKeeps
      <3> QED BY <1>1, <1>2, <2>2, <3>1, <3>2, StationsKeep DEF WlanInv
    <2>4. CASE cache[i].v4 # None
      <3> DEFINE e == [ap |-> p, mac |-> mac, fam |-> "v4", ip |-> cache[i].v4]
      <3>1. Post(p, mac, "v4", cache[i].v4) /\ cache[i].v4 \in V4
        <4>1. cache[i] \in Neighbors
          BY <1>1, <2>1 DEF WlanTypeOK
        <4> QED BY <1>4, <2>4, <4>1 DEF NewMac, Neighbors
      <3>2. queue' = Append(queue, e) /\ queue' \in Seq(AddrEvents)
        BY <1>1, <3>1, PostTyped
      <3>3. \A k \in DOMAIN cache' :
              \/ IsNews(cache'[k], e) /\ e.ip = cache'[k].v4
              \/ ~ IsNews(cache'[k], e) /\ \E j \in DOMAIN cache : cache'[k] = cache[j]
        <4> SUFFICES ASSUME NEW k \in DOMAIN cache
                     PROVE  IsNews(cache[k], e) => e.ip = cache[k].v4
          BY <2>1
        <4>1. cache[k].mac = mac => k = i
          BY <1>1, <2>1 DEF CacheOK
        <4> QED BY <4>1 DEF IsNews
      <3>4. KnownOK'
        <4> HIDE DEF e
        <4> QED BY <1>1, <3>2, <3>3, StationsKeep, KnownPosted
      <3> QED BY <1>1, <2>2, <3>2, <3>4, StationsKeep DEF WlanInv
    <2> QED BY <2>3, <2>4
  <1> QED BY <1>3, <1>4

LEMMA DelNeighStep ==
  ASSUME WlanInv, NEW mac \in Stations, DelNeigh(mac)
  PROVE  WlanInv'
  <1>1. /\ WlanTypeOK /\ CacheOK /\ KnownOK /\ StationsStay /\ UNCHANGED <<circular, queue>>
        /\ CacheIndex(mac) # 0 /\ cache' = RemoveAt(cache, CacheIndex(mac))
    BY DEF WlanInv, DelNeigh, StationsStay, driver
  <1>2. CacheIndex(mac) \in DOMAIN cache
    BY <1>1, CacheFacts
  <1>3. /\ CacheFits' /\ CacheOK'
        /\ \A k \in DOMAIN cache' : \E j \in DOMAIN cache : cache'[k] = cache[j]
    BY <1>1, <1>2, EntryGone
  <1>4. KnownOK'
    BY <1>1, <1>3, StationsKeep, KnownKeeps
  <1>5. queue' \in Seq(AddrEvents)
    BY <1>1 DEF WlanTypeOK
  <1> QED BY <1>1, <1>3, <1>4, <1>5, StationsKeep DEF WlanInv

\* Every address translated is that of a slot.
Translated(a) == \E q \in Aps : \E j \in DOMAIN slots[q] : slots[q][j].v4 = a

LEMMA RecordsAre ==
  /\ RecordsAgree <=> (\A a \in natIfs : Translated(a)) /\ total = Cardinality(Occupied)
  /\ RecordsAgree' <=> (\A a \in natIfs' : Translated(a)') /\ total' = Cardinality(Occupied')
  <1>1. \A a : a \in {c.v4 : c \in AllClients} <=> Translated(a)
    BY DEF AllClients, Range, Translated
  <1>2. \A a : a \in {c.v4 : c \in AllClients'} <=> Translated(a)'
    BY DEF AllClients, Range, Translated
  <1> QED BY <1>1, <1>2 DEF RecordsAgree

\* The stations keep their addresses, and nothing is known of others.
SameStations ==
  \A q \in Aps : /\ DOMAIN slots'[q] = DOMAIN slots[q]
                 /\ \A j \in DOMAIN slots[q] : /\ slots'[q][j].mac = slots[q][j].mac
                                               /\ slots'[q][j].v4 = slots[q][j].v4

LEMMA NeighborsKeep ==
  ASSUME WlanTypeOK, CacheOK, UNCHANGED neighbors
  PROVE  /\ CacheFits' /\ CacheOK' /\ queue' \in Seq(AddrEvents) /\ queue' = queue
         /\ cache' = cache /\ circular' = circular
         /\ \A i \in DOMAIN cache' : cache'[i].num \in Aps /\ cache'[i] = cache[i]
  <1>1. cache' = cache /\ circular' = circular /\ queue' = queue
    BY DEF neighbors
  <1>2. cache \in Seq(Neighbors) /\ queue \in Seq(AddrEvents)
    BY DEF WlanTypeOK
  <1>3. \A i \in DOMAIN cache : cache[i] \in Neighbors
    BY <1>2
  <1>4. CacheFits' /\ CacheOK'
    BY <1>1 DEF WlanTypeOK, CacheFits, CacheOK
  <1> QED BY <1>1, <1>2, <1>3, <1>4 DEF Neighbors

LEMMA AddressesStay ==
  ASSUME WlanInv, UNCHANGED <<total, natIfs, joined, neighbors>>, active' \in [Aps -> BOOLEAN],
         slots' \in [Aps -> Seq(WlanClient)], SlotsOK', HwOK', Occupied' = Occupied, SameStations
  PROVE  WlanInv'
  <1>1. WlanTypeOK /\ CacheOK /\ KnownOK /\ RecordsAgree /\ UNCHANGED neighbors
    BY DEF WlanInv
  <1>2. RecordsAgree'
    <2>1. \A a : Translated(a) => Translated(a)'
      BY DEF SameStations, Translated
    <2> QED BY <1>1, <2>1, RecordsAre
  <1>3. KnownOK'
    <2>1. \A q \in Aps : \A k \in DOMAIN slots'[q] : HasSlot(q, slots'[q][k])
      BY DEF SameStations, HasSlot
    <2>2. \A i \in DOMAIN cache' : cache'[i].num \in Aps /\ \E j \in DOMAIN cache : cache'[i] = cache[j]
      BY <1>1, NeighborsKeep
    <2> QED BY <1>1, <2>1, <2>2, KnownKeeps, NeighborsKeep
  <1>4. WlanTypeOK'
    <2>1. joined' \subseteq Aps \X Stations
      BY <1>1 DEF WlanTypeOK
    <2> QED BY <1>1, <2>1, NeighborsKeep DEF WlanTypeOK, CacheFits
  <1> QED BY <1>1, <1>2, <1>3, <1>4, NeighborsKeep DEF WlanInv

LEMMA NothingMoves ==
  ASSUME WlanInv, UNCHANGED <<active, slots, total, hw, lost, natIfs, joined, neighbors>>
  PROVE  WlanInv'
  <1>1. WlanTypeOK /\ UNCHANGED <<active, slots>>
    BY DEF WlanInv
  <1>2. SlotsOK' /\ HwOK' /\ Occupied' = Occupied
    <2>1. SlotsOK' /\ HwOK'
      BY StationsKeep DEF StationsStay
    <2> QED BY <1>1, <2>1 DEF Occupied
  <1>3. SameStations
    BY <1>1 DEF SameStations
  <1>4. active' \in [Aps -> BOOLEAN] /\ slots' \in [Aps -> Seq(WlanClient)]
    BY <1>1 DEF WlanTypeOK
  <1> QED BY <1>2, <1>3, <1>4, AddressesStay

\* The stations stay, and one of them has this address.
AddressIs(p, i, a) ==
  \A q \in Aps : /\ DOMAIN slots'[q] = DOMAIN slots[q]
                 /\ \A j \in DOMAIN slots[q] :
                      /\ slots'[q][j].mac = slots[q][j].mac
                      /\ slots'[q][j].v4 = IF q = p /\ j = i THEN a ELSE slots[q][j].v4

\* A client that gets the rules it lacks, or none, or sleeps
LEMMA RoutedHolds ==
  ASSUME WlanTypeOK, SlotsOK, HwOK, NEW p \in Aps, NEW i \in DOMAIN slots[p], NEW c, NEW h,
         ClientIs(p, i, c), Holds(AllHandles \ Handles(slots[p][i]), lost, c, h),
         NEW fam \in Families, Routed(p, i, c, fam, h), UNCHANGED <<active, joined>>
  PROVE  /\ slots' \in [Aps -> Seq(WlanClient)] /\ SlotsOK' /\ HwOK' /\ Occupied' = Occupied
         /\ AddressIs(p, i, c.v4)
  <1> DEFINE O == AllHandles \ Handles(slots[p][i])
  <1>1. c \in WlanClient /\ RulesFit(c) /\ c.mac = slots[p][i].mac /\ c.hdr = slots[p][i].hdr
    BY DEF ClientIs
  <1>2. OfOthers(O, c)
    <2>1. OfOthers(O, slots[p][i])
      BY TheOthers
    <2> QED BY <1>1, <2>1 DEF OfOthers
  <1>3. PICK r \in (IF ps[p][i] THEN {[c |-> c, h |-> h, left |-> EmptyBag]}
                              ELSE Route(c, fam, h)) :
          slots' = [slots EXCEPT ![p][i] = r.c] /\ hw' = r.h /\ lost' = lost (+) r.left
    BY DEF Routed, Lose
  <1> HIDE DEF O
  <1>4. r.c \in WlanClient /\ RulesFit(r.c) /\ Holds(O, lost (+) r.left, r.c, r.h)
        /\ r.c.mac = c.mac /\ r.c.hdr = c.hdr /\ r.c.v4 = c.v4
    <2>1. CASE r = [c |-> c, h |-> h, left |-> EmptyBag]
      <3>1. lost (+) r.left = lost
        BY <2>1, PlusAside DEF Holds
      <3> QED BY <1>1, <2>1, <3>1 DEF O
    <2>2. CASE r \in Route(c, fam, h)
      <3>1. Holds(O, lost, c, h)
        BY DEF O
      <3>2. /\ r.c \in WlanClient /\ r.c = [c EXCEPT !.rt = r.c.rt] /\ RulesFit(r.c)
            /\ Holds(O, lost (+) r.left, r.c, r.h)
        BY <1>1, <1>2, <2>2, <3>1, RouteHolds
      <3>3. r.c.mac = c.mac /\ r.c.hdr = c.hdr /\ r.c.v4 = c.v4
        BY <1>1, <3>2 DEF WlanClient
      <3> QED BY <3>2, <3>3
    <2>3. r = [c |-> c, h |-> h, left |-> EmptyBag] \/ r \in Route(c, fam, h)
      BY <1>3
    <2> QED BY <2>1, <2>2, <2>3
  <1>5. ClientIs(p, i, r.c)
    BY <1>1, <1>4 DEF ClientIs
  <1>6. Holds(AllHandles \ Handles(slots[p][i]), lost', r.c, hw')
    BY <1>3, <1>4 DEF O
  <1>7. /\ slots' \in [Aps -> Seq(WlanClient)] /\ SlotsOK' /\ HwOK' /\ Occupied' = Occupied
        /\ \A q \in Aps : /\ DOMAIN slots'[q] = DOMAIN slots[q]
                          /\ \A j \in DOMAIN slots[q] :
                               slots'[q][j] = IF q = p /\ j = i THEN r.c ELSE slots[q][j]
    BY <1>3, <1>5, <1>6, ClientChanges
  <1>8. ASSUME NEW q \in Aps, NEW j \in DOMAIN slots[q]
        PROVE  /\ slots'[q][j].mac = slots[q][j].mac
               /\ slots'[q][j].v4 = IF q = p /\ j = i THEN c.v4 ELSE slots[q][j].v4
    <2>1. CASE q = p /\ j = i
      BY <1>1, <1>4, <1>7, <2>1
    <2>2. CASE ~ (q = p /\ j = i)
      BY <1>7, <2>2
    <2> QED BY <2>1, <2>2
  <1>9. AddressIs(p, i, c.v4)
    BY <1>7, <1>8 DEF AddressIs
  <1> QED BY <1>7, <1>9

\* A client that has other rules than before
LEMMA RulesChange ==
  ASSUME WlanInv, NEW p \in Aps, NEW i \in DOMAIN slots[p], NEW d, d \in WlanClient, RulesFit(d),
         d.mac = slots[p][i].mac, d.hdr = slots[p][i].hdr, d.v4 = slots[p][i].v4,
         Holds(AllHandles \ Handles(slots[p][i]), lost', d, hw'),
         slots' = [slots EXCEPT ![p][i] = d],
         UNCHANGED <<active, total, natIfs, joined, neighbors>>
  PROVE  WlanInv'
  <1>1. WlanTypeOK /\ SlotsOK /\ HwOK /\ ClientIs(p, i, d) /\ UNCHANGED <<active, joined>>
    BY DEF WlanInv, ClientIs
  <1>2. /\ slots' \in [Aps -> Seq(WlanClient)] /\ SlotsOK' /\ HwOK' /\ Occupied' = Occupied
        /\ \A q \in Aps : /\ DOMAIN slots'[q] = DOMAIN slots[q]
                          /\ \A j \in DOMAIN slots[q] :
                               slots'[q][j] = IF q = p /\ j = i THEN d ELSE slots[q][j]
    BY <1>1, ClientChanges
  <1>3. SameStations
    <2> SUFFICES ASSUME NEW q \in Aps, NEW j \in DOMAIN slots[q]
                 PROVE  slots'[q][j].mac = slots[q][j].mac /\ slots'[q][j].v4 = slots[q][j].v4
      BY <1>2 DEF SameStations
    <2>1. CASE q = p /\ j = i
      BY <1>2, <2>1
    <2>2. CASE ~ (q = p /\ j = i)
      BY <1>2, <2>2
    <2> QED BY <2>1, <2>2
  <1>4. active' \in [Aps -> BOOLEAN]
    BY <1>1 DEF WlanTypeOK
  <1> QED BY <1>2, <1>3, <1>4, AddressesStay

LEMMA SleepStep ==
  ASSUME WlanInv, NEW p \in Aps, NEW mac \in Stations, Sleep(p, mac)
  PROVE  WlanInv'
  <1> DEFINE i == IndexOf(p, mac)
             c == slots[p][i]
             u == Unrouted(c, "v4")
             d == Unrouted(u, "v6")
             O == AllHandles \ Handles(c)
  <1>1. WlanTypeOK /\ SlotsOK /\ HwOK /\ UNCHANGED <<active, total, natIfs, joined, neighbors>>
    BY DEF WlanInv, Sleep
  <1>2. CASE i = 0 \/ ps[p][i]
    <2>1. UNCHANGED <<slots, hw, lost>>
      BY <1>2 DEF Sleep
    <2> QED BY <1>1, <2>1, NothingMoves
  <1>3. CASE ~ (i = 0 \/ ps[p][i])
    <2>1. /\ hw' = UnrouteAll(c, hw) /\ lost' = lost
          /\ slots' = [slots EXCEPT ![p][i] = Unrouted(Unrouted(@, "v4"), "v6")]
      BY <1>3 DEF Sleep
    <2>2. i \in DOMAIN slots[p]
      BY <1>1, <1>3, IndexFacts
    <2> HIDE DEF i
    <2>3. slots' = [slots EXCEPT ![p][i] = d]
      BY <2>1
    <2>4. c \in WlanClient /\ RulesFit(c) /\ OfOthers(O, c) /\ Holds(O, lost, c, hw)
      BY <1>1, <2>2, TheOthers
    <2>5. "v4" \in Families /\ "v6" \in Families
      BY DEF Families
    <2> HIDE DEF c, u, d, O
    <2>6. /\ u \in WlanClient /\ u = [c EXCEPT !.rt = u.rt] /\ RulesFit(u)
          /\ Holds(O, lost, u, Unroute(c, "v4", hw))
      BY <2>4, <2>5, UnrouteHolds DEF u
    <2>7. u.mac = c.mac /\ u.hdr = c.hdr /\ u.v4 = c.v4
      BY <2>4, <2>6 DEF WlanClient
    <2>8. OfOthers(O, u)
      BY <2>4, <2>7 DEF OfOthers
    <2>9. /\ d \in WlanClient /\ d = [u EXCEPT !.rt = d.rt] /\ RulesFit(d)
          /\ Holds(O, lost, d, Unroute(u, "v6", Unroute(c, "v4", hw)))
      BY <2>5, <2>6, <2>8, UnrouteHolds DEF d
    <2>10. d.mac = c.mac /\ d.hdr = c.hdr /\ d.v4 = c.v4
      BY <2>6, <2>7, <2>9 DEF WlanClient
    <2>11. Unroute(u, "v6", Unroute(c, "v4", hw)) = hw'
      <3>1. u.rt["v6"] = c.rt["v6"]
        BY <2>4, <2>5 DEF u, Unrouted, WlanClient
      <3>2. RuleHandles(u, "v6") = RuleHandles(c, "v6")
        BY <2>7, <3>1 DEF RuleHandles, Handle
      <3> QED BY <2>1, <3>2 DEF UnrouteAll, Unroute
    <2>12. Holds(O, lost', d, hw')
      BY <2>1, <2>9, <2>11
    <2> QED BY <1>1, <2>2, <2>3, <2>9, <2>10, <2>12, RulesChange DEF O, c
  <1> QED BY <1>2, <1>3

LEMMA WakeStep ==
  ASSUME WlanInv, NEW p \in Aps, NEW mac \in Stations, Wake(p, mac)
  PROVE  WlanInv'
  <1> DEFINE i == IndexOf(p, mac)
             c == slots[p][i]
             O == AllHandles \ Handles(c)
  <1>1. WlanTypeOK /\ SlotsOK /\ HwOK /\ UNCHANGED <<active, total, natIfs, joined, neighbors>>
    BY DEF WlanInv, Wake
  <1>2. CASE i = 0 \/ ~ ps[p][i]
    <2>1. UNCHANGED <<slots, hw, lost>>
      BY <1>2 DEF Wake
    <2> QED BY <1>1, <2>1, NothingMoves
  <1>3. CASE ~ (i = 0 \/ ~ ps[p][i])
    <2>1. PICK r \in Route(c, "v4", hw) : \E d \in Route(r.c, "v6", r.h) :
                 /\ slots' = [slots EXCEPT ![p][i] = d.c] /\ hw' = d.h
                 /\ lost' = lost (+) (r.left (+) d.left)
      BY <1>3 DEF Wake, Lose
    <2>2. PICK d \in Route(r.c, "v6", r.h) :
            /\ slots' = [slots EXCEPT ![p][i] = d.c] /\ hw' = d.h
            /\ lost' = lost (+) (r.left (+) d.left)
      BY <2>1
    <2>3. i \in DOMAIN slots[p]
      BY <1>1, <1>3, IndexFacts
    <2> HIDE DEF i
    <2>4. c \in WlanClient /\ RulesFit(c) /\ OfOthers(O, c) /\ Holds(O, lost, c, hw)
      BY <1>1, <2>3, TheOthers
    <2>5. "v4" \in Families /\ "v6" \in Families
      BY DEF Families
    <2> HIDE DEF c, O
    <2>6. /\ r.c \in WlanClient /\ r.c = [c EXCEPT !.rt = r.c.rt] /\ RulesFit(r.c)
          /\ Holds(O, lost (+) r.left, r.c, r.h) /\ IsABag(r.left)
      BY <2>1, <2>4, <2>5, RouteHolds
    <2>7. r.c.mac = c.mac /\ r.c.hdr = c.hdr /\ r.c.v4 = c.v4
      BY <2>4, <2>6 DEF WlanClient
    <2>8. OfOthers(O, r.c)
      BY <2>4, <2>7 DEF OfOthers
    <2>9. /\ d.c \in WlanClient /\ d.c = [r.c EXCEPT !.rt = d.c.rt] /\ RulesFit(d.c)
          /\ Holds(O, (lost (+) r.left) (+) d.left, d.c, d.h) /\ IsABag(d.left)
      BY <2>2, <2>5, <2>6, <2>8, RouteHolds
    <2>10. d.c.mac = c.mac /\ d.c.hdr = c.hdr /\ d.c.v4 = c.v4
      BY <2>6, <2>7, <2>9 DEF WlanClient
    <2>11. Holds(O, lost', d.c, hw')
      <3>1. (lost (+) r.left) (+) d.left = lost (+) (r.left (+) d.left)
        BY <2>4, <2>6, <2>9, PlusAside DEF Holds
      <3> QED BY <2>2, <2>9, <3>1
    <2> QED BY <1>1, <2>2, <2>3, <2>9, <2>10, <2>11, RulesChange DEF O, c
  <1> QED BY <1>2, <1>3

LEMMA ResetV6Step ==
  ASSUME WlanInv, NEW p \in Aps, ResetV6(p)
  PROVE  WlanInv'
  <1>1. /\ WlanTypeOK /\ SlotsOK /\ HwOK /\ UNCHANGED <<total, natIfs, neighbors>>
        /\ active' = active /\ joined' = joined /\ lost' = lost
        /\ hw' = hw (-) EntriesOf(UNION {RuleHandles(c, "v6") : c \in Range(slots[p])})
        /\ slots' = [slots EXCEPT ![p] = [i \in DOMAIN @ |-> Forgets6(@[i])]]
    BY DEF WlanInv, ResetV6, driver
  <1>2. /\ slots' \in [Aps -> Seq(WlanClient)] /\ SlotsOK' /\ HwOK' /\ Occupied' = Occupied
        /\ \A q \in Aps : /\ DOMAIN slots'[q] = DOMAIN slots[q]
                          /\ \A j \in DOMAIN slots[q] :
                               slots'[q][j] = IF q = p THEN Forgets6(slots[q][j]) ELSE slots[q][j]
    BY <1>1, ApForgets6
  <1>3. SameStations
    <2> SUFFICES ASSUME NEW q \in Aps, NEW j \in DOMAIN slots[q]
                 PROVE  slots'[q][j].mac = slots[q][j].mac /\ slots'[q][j].v4 = slots[q][j].v4
      BY <1>2 DEF SameStations
    <2>1. slots[q][j] \in WlanClient /\ RulesFit(slots[q][j])
      BY <1>1, SlotsTyped DEF SlotsOK
    <2>2. CASE q = p
      BY <1>2, <2>1, <2>2, Forgotten6
    <2>3. CASE q # p
      BY <1>2, <2>3
    <2> QED BY <2>2, <2>3
  <1>4. active' \in [Aps -> BOOLEAN]
    BY <1>1 DEF WlanTypeOK
  <1> QED BY <1>1, <1>2, <1>3, <1>4, AddressesStay

LEMMA LinkUpStep ==
  ASSUME WlanInv, NEW p \in Aps, LinkUp(p)
  PROVE  WlanInv'
  <1>1. /\ WlanTypeOK /\ SlotsOK /\ HwOK /\ active' = [active EXCEPT ![p] = TRUE]
        /\ UNCHANGED <<slots, total, hw, lost, natIfs, neighbors, joined>>
    BY DEF WlanInv, LinkUp, driver
  <1>2. /\ active' \in [Aps -> BOOLEAN] /\ slots' \in [Aps -> Seq(WlanClient)]
        /\ \A q \in Aps : active[q] => active'[q]
    BY <1>1 DEF WlanTypeOK
  <1>3. \A q \in Aps : \A i \in DOMAIN slots[q] : <<q, slots[q][i].mac>> \in joined'
    BY <1>1 DEF SlotsOK
  <1>4. SlotsOK' /\ HwOK' /\ Occupied' = Occupied
    BY <1>1, <1>2, <1>3, SlotsStay
  <1>5. SameStations
    BY <1>1 DEF SameStations
  <1> QED BY <1>1, <1>2, <1>4, <1>5, AddressesStay

LEMMA LinkDownStep ==
  ASSUME WlanInv, NEW p \in Aps, LinkDown(p)
  PROVE  WlanInv'
  <1>1. /\ WlanTypeOK /\ SlotsOK /\ HwOK /\ CacheOK /\ KnownOK /\ RecordsAgree
        /\ active' = [active EXCEPT ![p] = FALSE] /\ joined' = joined \ OfAp(p, joined)
        /\ slots' = [slots EXCEPT ![p] = <<>>]
        /\ hw' = hw (-) EntriesOf(UNION {Handles(c) : c \in Range(slots[p])})
        /\ UNCHANGED neighbors /\ lost' = lost /\ total' = total - Len(slots[p])
        /\ natIfs' = natIfs \ {c.v4 : c \in Range(slots[p])}
    BY DEF WlanInv, LinkDown, CountOut
  <1>2. /\ slots' \in [Aps -> Seq(WlanClient)] /\ SlotsOK' /\ HwOK'
        /\ Cardinality(Occupied') = Cardinality(Occupied) - Len(slots[p])
        /\ \A q \in Aps : slots'[q] = IF q = p THEN <<>> ELSE slots[q]
    BY <1>1, ApGoes
  <1>3. WlanTypeOK'
    <2>1. active' \in [Aps -> BOOLEAN] /\ joined' \subseteq Aps \X Stations
      BY <1>1 DEF WlanTypeOK
    <2> QED BY <1>1, <1>2, <2>1, NeighborsKeep DEF WlanTypeOK, CacheFits
  <1>4. RecordsAgree'
    <2>1. total' = Cardinality(Occupied')
      BY <1>1, <1>2 DEF RecordsAgree
    <2>2. ASSUME NEW a \in natIfs' PROVE Translated(a)'
      <3>1. Translated(a)
        BY <1>1, <2>2, RecordsAre
      <3>2. PICK q \in Aps : \E j \in DOMAIN slots[q] : slots[q][j].v4 = a
        BY <3>1 DEF Translated
      <3>3. q # p
        BY <1>1, <2>2, <3>2 DEF Range
      <3>4. slots'[q] = slots[q]
        BY <1>2, <3>3
      <3> QED BY <3>2, <3>4 DEF Translated
    <2> QED BY <2>1, <2>2, RecordsAre
  <1>5. KnownOK'
    <2>1. \A q \in Aps : \A k \in DOMAIN slots'[q] : HasSlot(q, slots'[q][k])
      <3> SUFFICES ASSUME NEW q \in Aps, NEW k \in DOMAIN slots'[q]
                   PROVE  HasSlot(q, slots'[q][k])
        OBVIOUS
      <3>1. slots'[q] = slots[q]
        BY <1>2
      <3> QED BY <3>1 DEF HasSlot
    <2>2. \A i \in DOMAIN cache' : cache'[i].num \in Aps /\ \E j \in DOMAIN cache : cache'[i] = cache[j]
      BY <1>1, NeighborsKeep
    <2> QED BY <1>1, <2>1, <2>2, KnownKeeps, NeighborsKeep
  <1> QED BY <1>1, <1>2, <1>3, <1>4, <1>5, NeighborsKeep DEF WlanInv

\* When a station joins, the address known of it is news again.
LEMMA JoinNews ==
  ASSUME WlanInv, NEW p \in Aps, NEW mac \in Stations, Reconnect(p, mac),
         \A q \in Aps : \A k \in DOMAIN slots'[q] :
           HasSlot(q, slots'[q][k]) \/ (q = p /\ slots'[q][k].mac = mac)
  PROVE  CacheFits' /\ CacheOK' /\ KnownOK' /\ queue' \in Seq(AddrEvents)
  <1> DEFINE i == CacheIndex(mac)
  <1>1. WlanTypeOK /\ CacheOK /\ KnownOK /\ cache' = cache /\ circular' = circular
    BY DEF WlanInv, Reconnect
  <1>2. /\ queue \in Seq(AddrEvents) /\ cache \in Seq(Neighbors)
    BY <1>1 DEF WlanTypeOK
  <1>3. CacheFits' /\ CacheOK'
    BY <1>1 DEF WlanTypeOK, CacheFits, CacheOK
  <1>4. \A k \in DOMAIN cache : cache[k] \in Neighbors /\ cache[k].num \in Aps
    <2>1. \A k \in DOMAIN cache : cache[k] \in Neighbors
      BY <1>2
    <2>2. \A n \in Neighbors : n.num \in Aps
      BY DEF Neighbors
    <2> QED BY <2>1, <2>2
  <1>5. i = 0 => \A k \in DOMAIN cache : cache[k].mac # mac
    BY <1>1, CacheFacts
  <1>6. i # 0 => /\ i \in DOMAIN cache /\ cache[i].mac = mac
                 /\ \A k \in DOMAIN cache : cache[k].mac = mac => k = i
    BY <1>1, CacheFacts DEF CacheOK
  <1>7. CASE i # 0 /\ cache[i].num = p /\ cache[i].v4 # None
    <2> DEFINE e == [ap |-> p, mac |-> mac, fam |-> "v4", ip |-> cache[i].v4]
    <2>1. Post(p, mac, "v4", cache[i].v4)
      BY <1>7 DEF Reconnect
    <2>2. cache[i].v4 \in V4
      BY <1>4, <1>6, <1>7 DEF Neighbors
    <2>3. queue' = Append(queue, e) /\ queue' \in Seq(AddrEvents)
      BY <1>1, <2>1, <2>2, PostTyped
    <2>4. ASSUME NEW k \in DOMAIN cache', cache'[k].v4 # None
          PROVE  \/ IsNews(cache'[k], e) /\ e.ip = cache'[k].v4
                 \/ /\ ~ IsNews(cache'[k], e)
                    /\ \E j \in DOMAIN cache : cache'[k] = cache[j]
                    /\ \A m \in DOMAIN slots'[cache'[k].num] :
                         slots'[cache'[k].num][m].mac = cache'[k].mac =>
                           HasSlot(cache'[k].num, slots'[cache'[k].num][m])
      <3>1. k \in DOMAIN cache /\ cache'[k] = cache[k]
        BY <1>1
      <3>2. CASE cache[k].mac = mac
        BY <1>6, <1>7, <3>1, <3>2 DEF IsNews
      <3>3. CASE cache[k].mac # mac
        <4>1. ~ IsNews(cache'[k], e)
          BY <3>1, <3>3 DEF IsNews
        <4> HIDE DEF e
        <4> QED BY <1>4, <3>1, <3>3, <4>1
      <3> QED BY <3>2, <3>3
    <2> HIDE DEF e
    <2>5. KnownOK'
      <3>1. WlanTypeOK /\ KnownOK /\ queue' = Append(queue, e)
        BY <1>1, <2>3
      <3> QED BY <2>4, <3>1, KnownPosted
    <2> QED BY <1>3, <2>3, <2>5
  <1>8. CASE ~ (i # 0 /\ cache[i].num = p /\ cache[i].v4 # None)
    <2>1. queue' = queue
      BY <1>8 DEF Reconnect
    <2>2. ASSUME NEW k \in DOMAIN cache', cache'[k].v4 # None
          PROVE  /\ \E j \in DOMAIN cache : cache'[k] = cache[j]
                 /\ \A m \in DOMAIN slots'[cache'[k].num] :
                      slots'[cache'[k].num][m].mac = cache'[k].mac =>
                        HasSlot(cache'[k].num, slots'[cache'[k].num][m])
      <3>1. k \in DOMAIN cache /\ cache'[k] = cache[k]
        BY <1>1
      <3>2. ~ (cache[k].num = p /\ cache[k].mac = mac)
        BY <1>5, <1>6, <1>8, <2>2, <3>1
      <3> QED BY <1>4, <3>1, <3>2
    <2>3. KnownOK'
      BY <1>1, <2>1, <2>2, KnownKeeps
    <2> QED BY <1>2, <1>3, <2>1, <2>3
  <1> QED BY <1>7, <1>8

LEMMA JoinStep ==
  ASSUME WlanInv, NEW p \in Aps, NEW mac \in Stations, Join(p, mac)
  PROVE  WlanInv'
  <1> DEFINE c == NewClient(p, mac)
  <1>1. /\ WlanTypeOK /\ SlotsOK /\ HwOK /\ RecordsAgree
        /\ active[p] /\ <<p, mac>> \notin joined /\ joined' = joined \cup {<<p, mac>>}
        /\ Reconnect(p, mac) /\ active' = active /\ natIfs' = natIfs
    BY DEF WlanInv, Join
  <1>2. active' \in [Aps -> BOOLEAN] /\ joined' \subseteq Aps \X Stations
    BY <1>1 DEF WlanTypeOK
  <1>3. ASSUME UNCHANGED <<slots, total>>, HwOK' PROVE WlanInv'
    <2>1. \A q \in Aps : \A k \in DOMAIN slots'[q] : HasSlot(q, slots'[q][k])
      BY <1>3 DEF HasSlot
    <2>2. CacheFits' /\ CacheOK' /\ KnownOK' /\ queue' \in Seq(AddrEvents)
      BY <1>1, <2>1, JoinNews
    <2>3. \A q \in Aps : \A i \in DOMAIN slots[q] : <<q, slots[q][i].mac>> \in joined'
      BY <1>1 DEF SlotsOK
    <2>4. SlotsOK' /\ Occupied' = Occupied /\ AllClients' = AllClients
      BY <1>1, <1>3, <2>3 DEF SlotsOK, Occupied, AllClients
    <2>5. RecordsAgree'
      BY <1>1, <1>3, <2>4 DEF RecordsAgree
    <2>6. WlanTypeOK'
      BY <1>1, <1>2, <1>3, <2>2 DEF WlanTypeOK, CacheFits
    <2> QED BY <1>3, <2>2, <2>4, <2>5, <2>6 DEF WlanInv
  <1>4. CASE /\ ~ AtLimit(p) /\ total' = total + 1 /\ lost' = lost
             /\ slots' = [slots EXCEPT ![p] = Append(@, c)]
             /\ hw' = hw (+) EntriesOf(HeaderHandles(c))
    <2> DEFINE x == <<p, Len(slots[p]) + 1>>
    <2>1. Len(slots[p]) < MaxStations
      <3>1. Len(slots[p]) \in Nat /\ MaxStations \in Nat
        BY <1>1, SlotsTyped, WlanClientsAssumption
      <3> QED BY <1>4, <3>1 DEF AtLimit
    <2>2. /\ slots' \in [Aps -> Seq(WlanClient)] /\ SlotsOK' /\ HwOK'
          /\ Occupied' = Occupied \cup {x} /\ x \notin Occupied
          /\ \A q \in Aps : \A j \in DOMAIN slots'[q] :
               \/ q = p /\ slots'[q][j] = c
               \/ j \in DOMAIN slots[q] /\ slots'[q][j] = slots[q][j]
          /\ \A q \in Aps : \A j \in DOMAIN slots[q] :
               j \in DOMAIN slots'[q] /\ slots'[q][j] = slots[q][j]
      <3> HIDE DEF c, x
      <3>1. x = <<p, Len(slots[p]) + 1>> /\ c = NewClient(p, mac)
        BY DEF x, c
      <3>2. /\ slots' = [slots EXCEPT ![p] = Append(@, NewClient(p, mac))]
            /\ hw' = hw (+) EntriesOf(HeaderHandles(NewClient(p, mac))) /\ lost' = lost
        BY <1>4, <3>1
      <3>3. /\ slots' \in [Aps -> Seq(WlanClient)] /\ SlotsOK' /\ HwOK'
            /\ Occupied' = Occupied \cup {<<p, Len(slots[p]) + 1>>}
            /\ <<p, Len(slots[p]) + 1>> \notin Occupied
            /\ \A q \in Aps : \A j \in DOMAIN slots'[q] :
                 \/ q = p /\ slots'[q][j] = NewClient(p, mac)
                 \/ j \in DOMAIN slots[q] /\ slots'[q][j] = slots[q][j]
            /\ \A q \in Aps : \A j \in DOMAIN slots[q] :
                 j \in DOMAIN slots'[q] /\ slots'[q][j] = slots[q][j]
        BY <1>1, <2>1, <3>2, ClientJoins
      <3> QED BY <3>1, <3>3
    <2>3. c.mac = mac
      BY DEF NewClient
    <2> HIDE DEF c, x
    <2>4. \A q \in Aps : \A k \in DOMAIN slots'[q] :
            HasSlot(q, slots'[q][k]) \/ (q = p /\ slots'[q][k].mac = mac)
      BY <2>2, <2>3 DEF HasSlot
    <2>5. CacheFits' /\ CacheOK' /\ KnownOK' /\ queue' \in Seq(AddrEvents)
      BY <1>1, <2>4, JoinNews
    <2>6. RecordsAgree'
      <3>1. Cardinality(Occupied \cup {x}) = Cardinality(Occupied) + 1
        BY <1>1, <2>2, AllFinite, FS_AddElement
      <3>2. total' = Cardinality(Occupied')
        BY <1>1, <1>4, <2>2, <3>1 DEF RecordsAgree
      <3>3. \A a \in natIfs' : Translated(a)
        BY <1>1, RecordsAre
      <3>4. \A a : Translated(a) => Translated(a)'
        BY <2>2 DEF Translated
      <3> QED BY <3>2, <3>3, <3>4, RecordsAre
    <2>7. WlanTypeOK'
      BY <1>2, <2>2, <2>5 DEF WlanTypeOK, CacheFits
    <2> QED BY <2>2, <2>5, <2>6, <2>7 DEF WlanInv
  <1>5. CASE UNCHANGED <<slots, total, hw, lost>>
    <2>1. HwOK'
      BY <1>1, <1>5 DEF HwOK, AllHandles, AllClients
    <2> QED BY <1>3, <1>5, <2>1
  <1>6. CASE /\ UNCHANGED <<slots, total>>
             /\ hw' = hw (+) EntriesOf({k \in HeaderHandles(c) : k.fam = "v4"})
             /\ lost' = lost (+) EntriesOf({k \in HeaderHandles(c) : k.fam = "v4"})
    <2> DEFINE M == {k \in HeaderHandles(c) : k.fam = "v4"}
               B == EntriesOf(M)
               E == EntriesOf(AllHandles)
    <2>1. IsFiniteSet(M)
      <3>1. Header(p, mac, "v4") \in HeaderEntries /\ Header(p, mac, "v6") \in HeaderEntries
        BY DEF Header, HeaderEntries, Families
      <3>2. c \in WlanClient
        BY <3>1 DEF NewClient, WlanClient, Families
      <3> QED BY <3>2, HandlesFinite, FS_Subset
    <2>2. IsABag(B) /\ IsABag(E) /\ IsABag(lost) /\ hw = E (+) lost
      BY <1>1, <2>1, AllFinite, EntriesBag DEF HwOK
    <2>3. hw' = hw (+) B /\ lost' = lost (+) B /\ AllHandles' = AllHandles
      BY <1>6 DEF AllHandles, AllClients
    <2> HIDE DEF B, M
    <2>4. (E (+) lost) (+) B = E (+) (lost (+) B) /\ IsABag(lost (+) B)
      BY <2>2, PlusAside
    <2>5. HwOK'
      BY <2>2, <2>3, <2>4 DEF HwOK
    <2> QED BY <1>3, <1>6, <2>5
  <1>7. \/ UNCHANGED <<slots, total, hw, lost>>
        \/ /\ UNCHANGED <<slots, total>>
           /\ hw' = hw (+) EntriesOf({k \in HeaderHandles(c) : k.fam = "v4"})
           /\ lost' = lost (+) EntriesOf({k \in HeaderHandles(c) : k.fam = "v4"})
        \/ /\ ~ AtLimit(p) /\ total' = total + 1 /\ lost' = lost
           /\ slots' = [slots EXCEPT ![p] = Append(@, c)]
           /\ hw' = hw (+) EntriesOf(HeaderHandles(c))
    BY DEF Join, InitClient, Lose
  <1> QED BY <1>4, <1>5, <1>6, <1>7

LEMMA SlotFreed ==
  ASSUME WlanInv, NEW p \in Aps, NEW i \in DOMAIN slots[p],
         natIfs' = natIfs \ {slots[p][i].v4}, hw' = Removed(slots[p][i], hw), lost' = lost,
         slots' = [slots EXCEPT ![p] = RemoveAt(@, i)], total' = total - 1,
         joined' = joined \ {<<p, slots[p][i].mac>>}, active' = active, UNCHANGED neighbors
  PROVE  WlanInv'
  <1> DEFINE x == <<p, Len(slots[p])>>
  <1>1. WlanTypeOK /\ SlotsOK /\ HwOK /\ RecordsAgree /\ CacheOK /\ KnownOK
    BY DEF WlanInv
  <1>2. active' \in [Aps -> BOOLEAN] /\ joined' \subseteq Aps \X Stations
    BY <1>1 DEF WlanTypeOK
  <1>3. /\ slots' \in [Aps -> Seq(WlanClient)] /\ SlotsOK' /\ HwOK'
        /\ Occupied' = Occupied \ {x} /\ x \in Occupied
        /\ OthersStay(p, i)
    BY <1>1, ClientLeaves
  <1> HIDE DEF x
  <1>4. RecordsAgree'
    <2>1. Cardinality(Occupied \ {x}) = Cardinality(Occupied) - 1
      BY <1>1, <1>3, AllFinite, FS_RemoveElement
    <2>2. total' = Cardinality(Occupied')
      BY <1>1, <1>3, <2>1 DEF RecordsAgree
    <2>3. ASSUME NEW a \in natIfs' PROVE Translated(a)'
      <3>1. Translated(a) /\ a # slots[p][i].v4
        BY <1>1, <2>3, RecordsAre
      <3>2. PICK q \in Aps : \E k \in DOMAIN slots[q] : slots[q][k].v4 = a
        BY <3>1 DEF Translated
      <3>3. PICK k \in DOMAIN slots[q] : slots[q][k].v4 = a
        BY <3>2
      <3>4. <<q, k>> # <<p, i>>
        BY <3>1, <3>3
      <3>5. PICK j \in DOMAIN slots'[q] : slots'[q][j] = slots[q][k]
        BY <1>3, <3>4 DEF OthersStay
      <3>6. slots'[q][j].v4 = a
        BY <3>3, <3>5
      <3> QED BY <3>6 DEF Translated
    <2> QED BY <2>2, <2>3, RecordsAre
  <1>5. KnownOK'
    <2>1. \A q \in Aps : \A k \in DOMAIN slots'[q] : HasSlot(q, slots'[q][k])
      BY <1>3 DEF HasSlot, OthersStay
    <2>2. \A k \in DOMAIN cache' : cache'[k].num \in Aps /\ \E j \in DOMAIN cache : cache'[k] = cache[j]
      BY <1>1, NeighborsKeep
    <2> QED BY <1>1, <2>1, <2>2, NeighborsKeep, KnownKeeps
  <1>6. WlanTypeOK'
    BY <1>1, <1>2, <1>3, NeighborsKeep DEF WlanTypeOK, CacheFits
  <1> QED BY <1>1, <1>3, <1>4, <1>5, <1>6, NeighborsKeep DEF WlanInv

LEMMA LeaveStep ==
  ASSUME WlanInv, NEW p \in Aps, NEW mac \in Stations, Leave(p, mac)
  PROVE  WlanInv'
  <1> DEFINE i == IndexOf(p, mac)
  <1>1. /\ WlanTypeOK /\ SlotsOK /\ HwOK /\ RecordsAgree /\ CacheOK /\ KnownOK
        /\ joined' = joined \ {<<p, mac>>} /\ UNCHANGED <<active, neighbors>> /\ active' = active
    BY DEF WlanInv, Leave
  <1>2. active' \in [Aps -> BOOLEAN] /\ joined' \subseteq Aps \X Stations
    BY <1>1 DEF WlanTypeOK
  <1>3. CASE i = 0
    <2>1. UNCHANGED <<slots, total, hw, lost, natIfs>>
      BY <1>3 DEF Leave
    <2>2. \A k \in DOMAIN slots[p] : slots[p][k].mac # mac
      BY <1>1, <1>3, IndexFacts
    <2>3. \A q \in Aps : \A k \in DOMAIN slots[q] : <<q, slots[q][k].mac>> \in joined'
      <3> SUFFICES ASSUME NEW q \in Aps, NEW k \in DOMAIN slots[q]
                   PROVE  <<q, slots[q][k].mac>> \in joined'
        OBVIOUS
      <3>1. <<q, slots[q][k].mac>> \in joined
        BY <1>1 DEF SlotsOK
      <3>2. <<q, slots[q][k].mac>> # <<p, mac>>
        BY <2>2
      <3> QED BY <1>1, <3>1, <3>2
    <2>4. SlotsOK' /\ HwOK' /\ Occupied' = Occupied /\ AllClients' = AllClients
      BY <1>1, <2>1, <2>3, SlotsStay
    <2>5. RecordsAgree'
      BY <1>1, <2>1, <2>4 DEF RecordsAgree
    <2>6. KnownOK'
      <3>1. \A q : \A k \in DOMAIN slots'[q] : HasSlot(q, slots'[q][k])
        BY <2>1 DEF HasSlot
      <3> QED BY <1>1, <3>1, NeighborsKeep, KnownKeeps
    <2>7. WlanTypeOK'
      BY <1>1, <1>2, <2>1, NeighborsKeep DEF WlanTypeOK, CacheFits
    <2> QED BY <1>1, <2>4, <2>5, <2>6, <2>7, NeighborsKeep DEF WlanInv
  <1>4. CASE i # 0
    <2>1. PICK k \in DOMAIN slots[p] : k = i /\ slots[p][k].mac = mac
      BY <1>1, <1>4, IndexFacts
    <2>2. /\ natIfs' = natIfs \ {slots[p][k].v4} /\ hw' = Removed(slots[p][k], hw)
          /\ lost' = lost
          /\ slots' = [slots EXCEPT ![p] = RemoveAt(@, k)] /\ total' = total - 1
      BY <1>4, <2>1 DEF Leave, CloseUp, CountOut
    <2>3. joined' = joined \ {<<p, slots[p][k].mac>>} /\ active' = active /\ UNCHANGED neighbors
      BY <1>1, <2>1
    <2> HIDE DEF i
    <2> QED BY <2>2, <2>3, SlotFreed
  <1> QED BY <1>3, <1>4

\* The station an event is for has its address afterwards, or has none of the
\* family.
TakesHead ==
  \A q \in Aps : \A j \in DOMAIN slots'[q] :
    /\ j \in DOMAIN slots[q] /\ slots'[q][j].mac = slots[q][j].mac
    /\ slots'[q][j].v4 = IF /\ Head(queue).fam = "v4" /\ q = Head(queue).ap
                            /\ slots[q][j].mac = Head(queue).mac
                         THEN Head(queue).ip ELSE slots[q][j].v4

LEMMA HeadTyped ==
  ASSUME WlanTypeOK, queue # <<>>, queue' = Tail(queue)
  PROVE  /\ Head(queue).ap \in Aps /\ Head(queue).fam \in Families
         /\ Head(queue).fam = "v4" => Head(queue).ip \in V4
         /\ Head(queue).fam # "v4" => Head(queue).ip \in V6
         /\ queue' \in Seq(AddrEvents)
  <1>1. queue \in Seq(AddrEvents)
    BY DEF WlanTypeOK
  <1>2. Head(queue) \in AddrEvents /\ queue' \in Seq(AddrEvents)
    BY <1>1
  <1>3. \A e \in AddrEvents : /\ e.ap \in Aps /\ e.fam \in {"v4", "v6"}
                              /\ e.fam = "v4" => e.ip \in V4
                              /\ e.fam # "v4" => e.ip \in V6
    BY DEF AddrEvents
  <1> QED BY <1>2, <1>3 DEF Families

\* What is left to show of an event that is handled
LEMMA HeadTaken ==
  ASSUME WlanInv, queue # <<>>, queue' = Tail(queue), UNCHANGED <<cache, circular>>,
         UNCHANGED <<active, total, joined>>, slots' \in [Aps -> Seq(WlanClient)],
         SlotsOK', HwOK', Occupied' = Occupied, \A a \in natIfs' : Translated(a)', TakesHead
  PROVE  WlanInv'
  <1>1. WlanTypeOK /\ KnownOK /\ CacheOK /\ RecordsAgree /\ cache' = cache
    BY DEF WlanInv
  <1>2. KnownOK'
    BY <1>1, KnownTaken DEF TakesHead
  <1>3. WlanTypeOK'
    BY <1>1, HeadTyped DEF WlanTypeOK
  <1>4. RecordsAgree'
    BY <1>1, RecordsAre
  <1>5. CacheOK'
    BY <1>1 DEF CacheOK
  <1> QED BY <1>2, <1>3, <1>4, <1>5 DEF WlanInv

LEMMA ClientAddrStep ==
  ASSUME WlanInv, ClientAddr
  PROVE  WlanInv'
  <1> DEFINE e == Head(queue)
             p == e.ap
             i == IndexOf(p, e.mac)
             c == slots[p][i]
             O == AllHandles \ Handles(c)
  <1>1. /\ WlanTypeOK /\ SlotsOK /\ HwOK /\ RecordsAgree /\ queue # <<>> /\ queue' = Tail(queue)
        /\ UNCHANGED <<active, total, cache, circular, joined>>
        /\ UNCHANGED <<active, total, joined>> /\ UNCHANGED <<cache, circular>>
        /\ UNCHANGED <<active, joined>>
    BY DEF WlanInv, ClientAddr, driver
  <1>2. /\ p \in Aps /\ e.fam \in Families
        /\ e.fam = "v4" => e.ip \in V4
        /\ e.fam # "v4" => e.ip \in V6
    BY <1>1, HeadTyped
  <1> HIDE DEF e, p, i, c, O
  <1>3. ASSUME UNCHANGED <<slots, hw, lost, natIfs>>,
               \A j \in DOMAIN slots[p] :
                 slots[p][j].mac = e.mac /\ e.fam = "v4" => slots[p][j].v4 = e.ip
        PROVE  WlanInv'
    <2>1. SlotsOK' /\ HwOK'
      BY <1>1, <1>3, StationsKeep DEF StationsStay
    <2>2. slots' \in [Aps -> Seq(WlanClient)] /\ Occupied' = Occupied
      BY <1>1, <1>3 DEF WlanTypeOK, Occupied
    <2>3. \A a \in natIfs' : Translated(a)'
      <3>1. \A a \in natIfs' : Translated(a)
        BY <1>1, <1>3, RecordsAre
      <3> QED BY <1>3, <3>1 DEF Translated
    <2>4. TakesHead
      BY <1>3 DEF TakesHead, e, p
    <2> QED BY <1>1, <2>1, <2>2, <2>3, <2>4, HeadTaken
  <1>4. CASE ~ active[p] \/ i = 0
    <2>1. UNCHANGED <<slots, hw, lost, natIfs>>
      BY <1>4 DEF ClientAddr, e, p, i
    <2>2. ~ active[p] => slots[p] = <<>>
      BY <1>1, <1>2 DEF SlotsOK
    <2>3. \A j \in DOMAIN slots[p] : slots[p][j].mac # e.mac
      <3>1. CASE ~ active[p]
        <4>1. DOMAIN <<>> = {}
          OBVIOUS
        <4> QED BY <2>2, <3>1, <4>1
      <3>2. CASE i = 0
        BY <1>1, <1>2, <3>2, IndexFacts DEF i
      <3> QED BY <1>4, <3>1, <3>2
    <2> QED BY <1>3, <2>1, <2>3
  <1>5. ASSUME active[p], i # 0 PROVE WlanInv'
    <2>1. i \in DOMAIN slots[p] /\ c.mac = e.mac
      BY <1>1, <1>2, <1>5, IndexFacts DEF i, c
    <2>2. \A j \in DOMAIN slots[p] : slots[p][j].mac = e.mac => j = i
      <3>1. \A k \in DOMAIN slots[p] : \A j \in DOMAIN slots[p] :
              slots[p][j].mac = slots[p][k].mac => j = k
        BY <1>1, <1>2 DEF SlotsOK
      <3> QED BY <2>1, <3>1 DEF c
    <2>3. c \in WlanClient /\ RulesFit(c) /\ OfOthers(O, c) /\ Holds(O, lost, c, hw)
      BY <1>1, <1>2, <2>1, TheOthers DEF c, O
    <2>4. CASE e.fam = "v4"
      <3>1. SetV4(p, i, c, e.ip)
        BY <1>5, <2>4 DEF ClientAddr, e, p, i, c
      <3>2. CASE c.v4 = e.ip
        <4>1. UNCHANGED <<slots, hw, lost, natIfs>>
          BY <3>1, <3>2 DEF SetV4
        <4> QED BY <1>3, <2>2, <3>2, <4>1 DEF c
      <3>3. CASE c.v4 # e.ip
        <4> DEFINE u == Unrouted(c, "v4")
                   d == [u EXCEPT !.v4 = e.ip]
                   h == Unroute(c, "v4", hw)
        <4>1. /\ natIfs' = (natIfs \ {c.v4}) \cup {e.ip}
              /\ Routed(p, i, d, "v4", h)
          BY <3>1, <3>3 DEF SetV4, NatMoves
        <4>2. "v4" \in Families /\ e.ip \in V4
          BY <1>2, <2>4 DEF Families
        <4>3. u \in WlanClient /\ RulesFit(u) /\ u.rt["v4"] = <<>> /\ u = [c EXCEPT !.rt = u.rt]
              /\ Holds(O, lost, u, h)
          BY <2>3, <4>2, UnrouteHolds
        <4> HIDE DEF u, h
        <4>4. d \in WlanClient /\ RulesFit(d) /\ Holds(O, lost, d, h)
          BY <4>2, <4>3, TakesV4
        <4>5. d.mac = c.mac /\ d.hdr = c.hdr /\ d.v4 = e.ip
          BY <2>3, <4>3 DEF WlanClient
        <4> HIDE DEF d
        <4>6. ClientIs(p, i, d) /\ Holds(AllHandles \ Handles(slots[p][i]), lost, d, h)
          BY <4>4, <4>5 DEF ClientIs, c, O
        <4>7. /\ slots' \in [Aps -> Seq(WlanClient)] /\ SlotsOK' /\ HwOK' /\ Occupied' = Occupied
              /\ AddressIs(p, i, d.v4)
          BY <1>1, <1>2, <2>1, <4>1, <4>2, <4>6, RoutedHolds
        <4>8. TakesHead
          <5> SUFFICES ASSUME NEW q \in Aps, NEW j \in DOMAIN slots[q]
                       PROVE  slots'[q][j].v4 = IF e.fam = "v4" /\ q = p /\ slots[q][j].mac = e.mac
                                                THEN e.ip ELSE slots[q][j].v4
            BY <4>7 DEF TakesHead, AddressIs, e, p
          <5>1. q = p /\ slots[q][j].mac = e.mac <=> q = p /\ j = i
            BY <2>1, <2>2 DEF c
          <5> QED BY <2>4, <4>5, <4>7, <5>1 DEF AddressIs
        <4>9. \A a \in natIfs' : Translated(a)'
          <5> SUFFICES ASSUME NEW a \in natIfs' PROVE Translated(a)'
            OBVIOUS
          <5>1. CASE a = e.ip
            <6>1. slots'[p][i].v4 = a /\ i \in DOMAIN slots'[p]
              BY <1>2, <2>1, <4>5, <4>7, <5>1 DEF AddressIs
            <6> QED BY <1>2, <6>1 DEF Translated
          <5>2. CASE a # e.ip
            <6>1. a \in natIfs /\ a # c.v4
              BY <4>1, <5>2
            <6>2. PICK q \in Aps : \E j \in DOMAIN slots[q] : slots[q][j].v4 = a
              BY <1>1, <6>1, RecordsAre DEF Translated
            <6>3. PICK j \in DOMAIN slots[q] : slots[q][j].v4 = a
              BY <6>2
            <6>4. ~ (q = p /\ j = i)
              BY <6>1, <6>3 DEF c
            <6>5. slots'[q][j].v4 = a /\ j \in DOMAIN slots'[q]
              BY <4>7, <6>3, <6>4 DEF AddressIs
            <6> QED BY <6>5 DEF Translated
          <5> QED BY <5>1, <5>2
        <4> QED BY <1>1, <4>7, <4>8, <4>9, HeadTaken
      <3> QED BY <3>2, <3>3
    <2>5. CASE e.fam # "v4"
      <3>1. SetV6(p, i, c, e.ip)
        BY <1>5, <2>5 DEF ClientAddr, e, p, i, c
      <3>2. CASE UNCHANGED <<slots, hw, lost>>
        <4>1. UNCHANGED <<slots, hw, lost, natIfs>>
          BY <3>1, <3>2 DEF SetV6
        <4> QED BY <1>3, <2>5, <4>1
      <3>3. CASE ~ UNCHANGED <<slots, hw, lost>>
        <4> DEFINE d == [c EXCEPT !.v6 = Append(@, e.ip)]
        <4>1. natIfs' = natIfs /\ Routed(p, i, d, "v6", hw)
          BY <3>1, <3>3 DEF SetV6
        <4>2. "v6" \in Families /\ e.ip \in V6
          BY <1>2, <2>5 DEF Families
        <4>3. d \in WlanClient /\ RulesFit(d) /\ Holds(O, lost, d, hw)
          BY <2>3, <4>2, TakesV6
        <4>4. d.mac = c.mac /\ d.hdr = c.hdr /\ d.v4 = c.v4
          BY <2>3 DEF WlanClient
        <4> HIDE DEF d
        <4>5. ClientIs(p, i, d) /\ Holds(AllHandles \ Handles(slots[p][i]), lost, d, hw)
          BY <4>3, <4>4 DEF ClientIs, c, O
        <4>6. /\ slots' \in [Aps -> Seq(WlanClient)] /\ SlotsOK' /\ HwOK' /\ Occupied' = Occupied
              /\ AddressIs(p, i, d.v4)
          BY <1>1, <1>2, <2>1, <4>1, <4>2, <4>5, RoutedHolds
        <4>7. \A q \in Aps : \A j \in DOMAIN slots[q] :
                slots'[q][j].mac = slots[q][j].mac /\ slots'[q][j].v4 = slots[q][j].v4
          BY <4>4, <4>6 DEF c, AddressIs
        <4>8. TakesHead
          BY <2>5, <4>6, <4>7 DEF TakesHead, AddressIs, e
        <4>9. \A a \in natIfs' : Translated(a)'
          <5>1. \A a \in natIfs : Translated(a)
            BY <1>1, RecordsAre
          <5>2. \A a : Translated(a) => Translated(a)'
            BY <4>6, <4>7 DEF Translated, AddressIs
          <5> QED BY <4>1, <5>1, <5>2
        <4> QED BY <1>1, <4>6, <4>8, <4>9, HeadTaken
      <3> QED BY <3>2, <3>3
    <2> QED BY <2>4, <2>5
  <1> QED BY <1>4, <1>5

-----------------------------------------------------------------------------
\* WlanClients: the theorems

LEMMA WlanBegins ==
  ASSUME WlanInit PROVE WlanInv
  <1>1. /\ \A p \in Aps : slots[p] = <<>> /\ DOMAIN slots[p] = {} /\ Len(slots[p]) = 0
        /\ MaxStations \in Nat /\ MaxNeighbors \in Nat \ {0}
    BY WlanClientsAssumption DEF WlanInit
  <1>2. WlanTypeOK
    BY <1>1 DEF WlanInit, WlanTypeOK
  <1>3. SlotsOK
    BY <1>1 DEF SlotsOK
  <1>4. HwOK
    <2>1. AllHandles = {}
      BY <1>1 DEF AllHandles, AllClients, Range
    <2>2. EntriesOf({}) = EmptyBag
      BY DEF EntriesOf, EmptyBag, SetToBag
    <2>3. IsABag(EmptyBag)
      BY DEF EmptyBag, SetToBag, IsABag
    <2>4. EmptyBag (+) EmptyBag = EmptyBag
      BY <2>3, PlusAside
    <2> QED BY <2>1, <2>2, <2>3, <2>4 DEF HwOK, WlanInit
  <1>5. RecordsAgree
    <2>1. Occupied = {}
      BY <1>1 DEF Occupied
    <2>2. Cardinality({}) = 0
      BY FS_EmptySet
    <2> QED BY <2>1, <2>2 DEF RecordsAgree, WlanInit
  <1>6. CacheOK /\ KnownOK
    <2>1. DOMAIN cache = {}
      BY DEF WlanInit
    <2> QED BY <2>1 DEF CacheOK, KnownOK
  <1> QED BY <1>2, <1>3, <1>4, <1>5, <1>6 DEF WlanInv

\* Every step of the access points, of the driver and of IPACM_Neighbor keeps it.
THEOREM WlanInductive == WlanSpec => []WlanInv
  <1>1. WlanInit => WlanInv
    BY WlanBegins
  <1>2. WlanInv /\ [WlanNext]_wlanVars => WlanInv'
    <2> SUFFICES ASSUME WlanInv, [WlanNext]_wlanVars PROVE WlanInv'
      OBVIOUS
    <2>1. CASE UNCHANGED wlanVars
      <3>1. UNCHANGED <<active, slots, total, hw, lost, natIfs, joined, neighbors>>
        BY <2>1 DEF wlanVars, neighbors
      <3> QED BY <3>1, NothingMoves
    <2>2. CASE ClientAddr
      BY <2>2, ClientAddrStep
    <2>3. ASSUME NEW p \in Aps, LinkUp(p) \/ LinkDown(p) \/ ResetV6(p) PROVE WlanInv'
      BY <2>3, LinkUpStep, LinkDownStep, ResetV6Step
    <2>4. ASSUME NEW p \in Aps, NEW mac \in Stations,
                 \/ Join(p, mac) \/ Leave(p, mac) \/ Sleep(p, mac) \/ Wake(p, mac)
                 \/ NewMac(p, mac)
          PROVE  WlanInv'
      BY <2>4, JoinStep, LeaveStep, SleepStep, WakeStep, NewMacStep
    <2>5. ASSUME NEW p \in Aps, NEW mac \in Stations, NEW ip \in V4, NewNeigh4(p, mac, ip)
          PROVE  WlanInv'
      BY <2>5, NewNeigh4Step
    <2>6. ASSUME NEW p \in Aps, NEW mac \in Stations, NEW ip \in V6, NewNeigh6(p, mac, ip)
          PROVE  WlanInv'
      BY <2>6, NewNeigh6Step
    <2>7. ASSUME NEW mac \in Stations, DelNeigh(mac) PROVE WlanInv'
      BY <2>7, DelNeighStep
    <2> QED BY <2>1, <2>2, <2>3, <2>4, <2>5, <2>6, <2>7 DEF WlanNext
  <1> QED BY <1>1, <1>2, PTL DEF WlanSpec

\* After any history of joins, departures, sleep and lost links each station's
\* handles are its own and lead to what it has in the hardware; the hardware has
\* nothing else but what adds that half failed have left.
THEOREM HandlesAreExact == WlanSpec => []HandlesExact
  <1>1. WlanInv => HandlesExact
    <2> SUFFICES ASSUME WlanInv PROVE HandlesExact
      OBVIOUS
    <2>1. WlanTypeOK /\ SlotsOK /\ HwOK
      BY DEF WlanInv
    <2>2. ASSUME NEW p \in Aps, NEW i \in DOMAIN slots[p]
          PROVE  LET c == slots[p][i]
                 IN  /\ IndexOf(p, c.mac) = i
                     /\ c.hdr = NewClient(p, c.mac).hdr
                     /\ \A fam \in Families : IsPrefix(c.rt[fam], Needs(c, fam))
      <3> DEFINE c == slots[p][i]
                 k == IndexOf(p, c.mac)
      <3>1. k # 0 /\ k \in DOMAIN slots[p] /\ slots[p][k].mac = c.mac
        BY <2>1, IndexFacts
      <3>2. \A j \in DOMAIN slots[p] : slots[p][j].mac = c.mac => j = i
        BY <2>1 DEF SlotsOK
      <3>3. k = i
        <4> HIDE DEF k
        <4> QED BY <3>1, <3>2
      <3>4. c.hdr = NewClient(p, c.mac).hdr /\ RulesFit(c)
        BY <2>1 DEF SlotsOK
      <3> QED BY <3>3, <3>4 DEF RulesFit
    <2>3. hw = EntriesOf(UNION {Handles(c) : c \in AllClients}) (+) lost
      BY <2>1 DEF HwOK, AllHandles
    <2> QED BY <2>2, <2>3 DEF HandlesExact
  <1> QED BY <1>1, WlanInductive, PTL

\* In whatever order a station and its IPv4 address are reported, once nothing
\* waits the station has the address that is known of it.
THEOREM KnownReaches == WlanSpec => []KnownIsSet
  <1>1. WlanInv => KnownIsSet
    <2> SUFFICES ASSUME WlanInv, queue = <<>>,
                        NEW i \in DOMAIN cache, NEW p \in Aps,
                        cache[i].num = p, cache[i].v4 # None,
                        IndexOf(p, cache[i].mac) # 0
                 PROVE  slots[p][IndexOf(p, cache[i].mac)].v4 = cache[i].v4
      BY DEF KnownIsSet
    <2> DEFINE n == cache[i]
               k == IndexOf(p, n.mac)
    <2>1. WlanTypeOK /\ KnownOK
      BY DEF WlanInv
    <2>2. k \in DOMAIN slots[p] /\ slots[p][k].mac = n.mac
      BY <2>1, IndexFacts
    <2>3. ~ LastNews(n)
      <3>1. DOMAIN queue = {}
        OBVIOUS
      <3> QED BY <3>1 DEF LastNews
    <2> HIDE DEF k
    <2>4. slots[p][k].v4 = n.v4
      BY <2>1, <2>2, <2>3 DEF KnownOK
    <2> QED BY <2>4 DEF k
  <1> QED BY <1>1, WlanInductive, PTL

\* Addresses are translated, and stations counted, only while they are present.
THEOREM RecordsDoAgree == WlanSpec => []RecordsAgree
  <1>1. WlanInv => RecordsAgree
    BY DEF WlanInv
  <1> QED BY <1>1, WlanInductive, PTL
=============================================================================
