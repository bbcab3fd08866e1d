---------------------------- MODULE TetherProofs ----------------------------
(***************************************************************************)
(* Proofs about Tether: the LAN object's rules are exact, an upstream and  *)
(* a downstream together mean a rule, an upstream can be withdrawn, and    *)
(* once all is quiet no downstream is forgotten while an upstream is up.   *)
(***************************************************************************)
EXTENDS Tether, TLAPS, SequenceTheorems

-----------------------------------------------------------------------------
(* The LAN object *)

Exact(l) ==
  \A f \in Fam :
    /\ l.sta_rules[f] = IF f \in l.sta_ul_set THEN 1 ELSE 0
    /\ l.modem_rules[f] = IF f \in l.modem_ul_set THEN 1 ELSE 0
HasRule(l, f) == f \in l.sta_ul_set \cup l.modem_ul_set

Both(l) ==
  \A f \in l.is_upstream_set \cap l.is_downstream_set :
    HasRule(l, f) \/ (f = "v6" /\ l.num_dft_rt_v6 > 1)

\* What every handler of the LAN object preserves
LanOK(l) ==
  /\ l \in LanObjects /\ Exact(l)
  /\ "v6" \in l.ip_type <=> l.num_dft_rt_v6 # 0
  /\ l.is_upstream_set \subseteq l.ip_type
  /\ l.is_active => Both(l)

\* The fields rules do not touch
Same(l, m) ==
  /\ m.is_active = l.is_active /\ m.ip_type = l.ip_type
  /\ m.num_dft_rt_v6 = l.num_dft_rt_v6
  /\ m.is_upstream_set = l.is_upstream_set
  /\ m.is_downstream_set = l.is_downstream_set

LEMMA InstallRule ==
  ASSUME NEW l \in LanObjects, Exact(l), NEW f \in Fam, NEW sta \in BOOLEAN
  PROVE  LET m == Install(l, f, sta) IN
         /\ m \in LanObjects /\ Exact(m) /\ Same(l, m)
         /\ \A g \in Fam : HasRule(l, g) => HasRule(m, g)
         /\ (f = "v6" /\ l.num_dft_rt_v6 # 1) \/ HasRule(m, f)
<1>1. CASE sta /\ f \notin l.sta_ul_set
  <2> DEFINE m == [l EXCEPT !.sta_ul_set = @ \cup {f}, !.sta_rules[f] = @ + 1]
  <2>1. Install(l, f, sta) = m
    BY <1>1 DEF Install, handle_wan_up
  <2>2. m \in LanObjects /\ Same(l, m)
    <3>1. l.sta_rules \in [Fam -> Nat]
      BY DEF LanObjects
    <3>2. [l.sta_rules EXCEPT ![f] = @ + 1] \in [Fam -> Nat]
      BY <3>1
    <3> QED
      BY <3>2 DEF LanObjects, Same
  <2>3. Exact(m)
    BY <1>1 DEF Exact, LanObjects
  <2>4. /\ \A g \in Fam : HasRule(l, g) => HasRule(m, g)
        /\ HasRule(m, f)
    BY DEF HasRule, LanObjects
  <2> QED
    BY <2>1, <2>2, <2>3, <2>4
<1>2. CASE /\ ~sta /\ f \notin l.modem_ul_set
           /\ ~(f = "v6" /\ l.num_dft_rt_v6 # 1)
  <2> DEFINE m == [l EXCEPT !.modem_ul_set = @ \cup {f}, !.modem_rules[f] = @ + 1]
  <2>1. Install(l, f, sta) = m
    BY <1>2 DEF Install, handle_wan_up_ex
  <2>2. m \in LanObjects /\ Same(l, m)
    <3>1. l.modem_rules \in [Fam -> Nat]
      BY DEF LanObjects
    <3>2. [l.modem_rules EXCEPT ![f] = @ + 1] \in [Fam -> Nat]
      BY <3>1
    <3> QED
      BY <3>2 DEF LanObjects, Same
  <2>3. Exact(m)
    BY <1>2 DEF Exact, LanObjects
  <2>4. /\ \A g \in Fam : HasRule(l, g) => HasRule(m, g)
        /\ HasRule(m, f)
    BY DEF HasRule, LanObjects
  <2> QED
    BY <2>1, <2>2, <2>3, <2>4
<1>3. CASE \/ sta /\ f \in l.sta_ul_set
           \/ ~sta /\ (f \in l.modem_ul_set \/ (f = "v6" /\ l.num_dft_rt_v6 # 1))
  <2>1. Install(l, f, sta) = l
    BY <1>3 DEF Install, handle_wan_up, handle_wan_up_ex
  <2>2. Same(l, l)
    BY DEF Same
  <2>3. (f = "v6" /\ l.num_dft_rt_v6 # 1) \/ HasRule(l, f)
    BY <1>3 DEF HasRule
  <2> QED
    BY <2>1, <2>2, <2>3
<1> QED
  BY <1>1, <1>2, <1>3

LEMMA RemoveRule ==
  ASSUME NEW l \in LanObjects, Exact(l), NEW f \in Fam, NEW sta \in BOOLEAN
  PROVE  LET m == Remove(l, f, sta) IN
         /\ m \in LanObjects /\ Exact(m) /\ Same(l, m)
         /\ \A g \in Fam \ {f} : HasRule(l, g) => HasRule(m, g)
<1>1. CASE sta /\ f \in l.sta_ul_set
  <2> DEFINE m == [l EXCEPT !.sta_ul_set = @ \ {f}, !.sta_rules[f] = @ - 1]
  <2>1. Remove(l, f, sta) = m
    BY <1>1 DEF Remove
  <2>2. l.sta_rules[f] = 1
    BY <1>1 DEF Exact
  <2>3. m \in LanObjects /\ Same(l, m)
    <3>1. l.sta_rules \in [Fam -> Nat]
      BY DEF LanObjects
    <3>2. [l.sta_rules EXCEPT ![f] = @ - 1] \in [Fam -> Nat]
      BY <2>2, <3>1
    <3> QED
      BY <3>2 DEF LanObjects, Same
  <2>4. Exact(m)
    BY <2>2 DEF Exact, LanObjects
  <2>5. \A g \in Fam \ {f} : HasRule(l, g) => HasRule(m, g)
    BY DEF HasRule, LanObjects
  <2> QED
    BY <2>1, <2>3, <2>4, <2>5
<1>2. CASE ~sta /\ f \in l.modem_ul_set
  <2> DEFINE m == [l EXCEPT !.modem_ul_set = @ \ {f}, !.modem_rules[f] = @ - 1]
  <2>1. Remove(l, f, sta) = m
    BY <1>2 DEF Remove
  <2>2. l.modem_rules[f] = 1
    BY <1>2 DEF Exact
  <2>3. m \in LanObjects /\ Same(l, m)
    <3>1. l.modem_rules \in [Fam -> Nat]
      BY DEF LanObjects
    <3>2. [l.modem_rules EXCEPT ![f] = @ - 1] \in [Fam -> Nat]
      BY <2>2, <3>1
    <3> QED
      BY <3>2 DEF LanObjects, Same
  <2>4. Exact(m)
    BY <2>2 DEF Exact, LanObjects
  <2>5. \A g \in Fam \ {f} : HasRule(l, g) => HasRule(m, g)
    BY DEF HasRule, LanObjects
  <2> QED
    BY <2>1, <2>3, <2>4, <2>5
<1>3. CASE \/ sta /\ f \notin l.sta_ul_set
           \/ ~sta /\ f \notin l.modem_ul_set
  <2>1. Remove(l, f, sta) = l
    BY <1>3 DEF Remove
  <2>2. Same(l, l)
    BY DEF Same
  <2> QED
    BY <2>1, <2>2
<1> QED
  BY <1>1, <1>2, <1>3

-----------------------------------------------------------------------------
(* Each handler of the LAN object preserves LanOK. *)

LEMMA NewLanOK == LanOK(NewLan)
BY DEF LanOK, Both, NewLan, LanObjects, Exact, Fam

LEMMA LanAddrAddOK ==
  ASSUME NEW l, LanOK(l), NEW f \in Fam, backhaul_is_sta_mode \in BOOLEAN
  PROVE  LET m == LanAddrAdd(l, f) IN
         /\ LanOK(m) /\ m.is_active = l.is_active
         /\ m.is_upstream_set = l.is_upstream_set
         /\ \A g \in Fam : HasRule(l, g) => HasRule(m, g)
         /\ "v4" \in m.ip_type /\ isWanUP => "v4" \in l.ip_type \/ HasRule(m, "v4")
<1> DEFINE m == AddrOnly(l, f)
           n == Install(m, f, backhaul_is_sta_mode)
<1>0. l \in LanObjects /\ l.num_dft_rt_v6 \in 0..2 /\ l.ip_type \subseteq Fam
  BY DEF LanOK, LanObjects
<1>1. CASE (l.ip_type # {f} /\ l.ip_type # Fam) \/ (f = "v6" /\ l.num_dft_rt_v6 # 2)
  <2>1. f = "v6" => l.num_dft_rt_v6 # 2
    <3>1. SUFFICES ASSUME f = "v6", l.num_dft_rt_v6 = 2
                   PROVE  l.ip_type = {f} \/ l.ip_type = Fam
      BY <1>1
    <3>2. "v6" \in l.ip_type
      BY <3>1 DEF LanOK
    <3> QED
      BY <1>0, <3>1, <3>2 DEF Fam
  <2>2. /\ m \in LanObjects /\ Exact(m) /\ m.is_active = l.is_active
        /\ m.ip_type = l.ip_type \cup {f}
        /\ m.num_dft_rt_v6 = IF f = "v6" THEN l.num_dft_rt_v6 + 1 ELSE l.num_dft_rt_v6
        /\ m.is_upstream_set = l.is_upstream_set
        /\ m.is_downstream_set = l.is_downstream_set
        /\ \A g \in Fam : HasRule(l, g) <=> HasRule(m, g)
    <3>1. (IF f = "v6" THEN l.num_dft_rt_v6 + 1 ELSE l.num_dft_rt_v6) \in 0..2
      BY <1>0, <2>1
    <3>2. m \in LanObjects
      BY <1>0, <3>1 DEF AddrOnly, LanObjects
    <3> QED
      BY <1>0, <3>2 DEF AddrOnly, LanObjects, LanOK, Exact, HasRule
  <2>3. LanOK(m)
    <3>1. "v6" \in m.ip_type <=> m.num_dft_rt_v6 # 0
      BY <1>0, <2>2 DEF LanOK, Fam
    <3>2. m.is_active => Both(m)
      <4> SUFFICES ASSUME m.is_active,
                          NEW g \in l.is_upstream_set \cap l.is_downstream_set
                   PROVE  HasRule(m, g) \/ (g = "v6" /\ m.num_dft_rt_v6 > 1)
        BY <2>2 DEF Both
      <4>1. g \in Fam
        BY <1>0 DEF LanObjects
      <4>2. HasRule(l, g) \/ (g = "v6" /\ l.num_dft_rt_v6 > 1)
        BY <2>2 DEF LanOK, Both
      <4> QED
        BY <1>0, <4>1, <4>2, <2>2
    <3> QED
      BY <2>2, <3>1, <3>2 DEF LanOK
  <2>4. /\ LanOK(n) /\ n.is_active = m.is_active
        /\ n.is_upstream_set = m.is_upstream_set
        /\ \A g \in Fam : HasRule(m, g) => HasRule(n, g)
        /\ n.ip_type = m.ip_type /\ (f = "v4" => HasRule(n, "v4"))
    <3>1. /\ n \in LanObjects /\ Exact(n) /\ Same(m, n)
          /\ \A g \in Fam : HasRule(m, g) => HasRule(n, g)
          /\ f = "v4" => HasRule(n, "v4")
      BY <2>2, InstallRule
    <3>2. m.is_upstream_set \subseteq Fam
      BY <2>2 DEF LanObjects
    <3> QED
      BY <2>3, <3>1, <3>2 DEF LanOK, Both, Same
  <2>5. /\ LanAddrAdd(l, f) \in {m, n}
        /\ f = "v4" /\ isWanUP => LanAddrAdd(l, f) = n
    BY <1>1 DEF LanAddrAdd
  <2> HIDE DEF m, n
  <2> QED
    BY <2>2, <2>3, <2>4, <2>5
<1>2. CASE ~((l.ip_type # {f} /\ l.ip_type # Fam) \/ (f = "v6" /\ l.num_dft_rt_v6 # 2))
  BY <1>2 DEF LanAddrAdd
<1> QED
  BY <1>1, <1>2

LEMMA WanUpTetherOK ==
  ASSUME NEW l, LanOK(l), NEW f \in Fam, NEW sta \in BOOLEAN
  PROVE  LET m == WanUpTether(l, f, sta) IN
         /\ LanOK(m) /\ m.is_active = l.is_active /\ m.ip_type = l.ip_type
         /\ m.is_upstream_set = l.is_upstream_set \cup ({f} \cap l.ip_type)
         /\ \A g \in Fam : HasRule(l, g) => HasRule(m, g)
<1> DEFINE k == [l EXCEPT !.is_upstream_set = @ \cup {f}]
           n == Install(k, f, sta)
<1>0. l \in LanObjects /\ Exact(l)
  BY DEF LanOK
<1>1. CASE f \notin l.ip_type \/ f \in l.is_upstream_set
  BY <1>1 DEF WanUpTether
<1>2. CASE ~(f \notin l.ip_type \/ f \in l.is_upstream_set)
  <2>1. /\ k \in LanObjects /\ Exact(k) /\ k.is_active = l.is_active
        /\ k.ip_type = l.ip_type /\ k.num_dft_rt_v6 = l.num_dft_rt_v6
        /\ k.is_upstream_set = l.is_upstream_set \cup {f}
        /\ k.is_downstream_set = l.is_downstream_set
        /\ \A g \in Fam : HasRule(l, g) <=> HasRule(k, g)
    BY <1>0 DEF LanObjects, Exact, HasRule
  <2>2. /\ n \in LanObjects /\ Exact(n) /\ Same(k, n)
        /\ \A g \in Fam : HasRule(k, g) => HasRule(n, g)
        /\ (f = "v6" /\ k.num_dft_rt_v6 # 1) \/ HasRule(n, f)
    BY <2>1, InstallRule
  <2>3. f = "v6" => l.num_dft_rt_v6 # 0
    BY <1>2 DEF LanOK
  <2>4. l.num_dft_rt_v6 \in 0..2 /\ l.is_upstream_set \subseteq Fam /\ l.ip_type \subseteq Fam
    BY <1>0 DEF LanObjects
  <2>5. CASE f \in l.is_downstream_set
    <3>1. WanUpTether(l, f, sta) = n
      BY <1>2, <2>5 DEF WanUpTether
    <3>2. n.is_active => Both(n)
      <4> SUFFICES ASSUME n.is_active,
                          NEW g \in n.is_upstream_set \cap n.is_downstream_set
                   PROVE  HasRule(n, g) \/ (g = "v6" /\ n.num_dft_rt_v6 > 1)
        BY DEF Both
      <4>1. CASE g = f
        <5>1. n.num_dft_rt_v6 = l.num_dft_rt_v6
          BY <2>1, <2>2 DEF Same
        <5>2. HasRule(n, g) \/ (g = "v6" /\ l.num_dft_rt_v6 # 1)
          BY <4>1, <2>1, <2>2
        <5>3. l.num_dft_rt_v6 # 0 /\ l.num_dft_rt_v6 # 1 => n.num_dft_rt_v6 > 1
          BY <2>4, <5>1
        <5>4. g = "v6" => l.num_dft_rt_v6 # 0
          BY <4>1, <2>3
        <5> QED
          BY <5>2, <5>3, <5>4
      <4>2. CASE g # f
        <5>1. g \in l.is_upstream_set \cap l.is_downstream_set /\ g \in Fam
          BY <4>2, <2>1, <2>2, <2>4 DEF Same
        <5>2. HasRule(l, g) \/ (g = "v6" /\ l.num_dft_rt_v6 > 1)
          BY <5>1, <2>1, <2>2 DEF LanOK, Both, Same
        <5>3. n.num_dft_rt_v6 = l.num_dft_rt_v6 /\ (HasRule(l, g) => HasRule(n, g))
          BY <5>1, <2>1, <2>2 DEF Same
        <5> QED
          BY <5>2, <5>3
      <4> QED
        BY <4>1, <4>2
    <3> QED
      BY <3>1, <3>2, <2>1, <2>2, <2>4, <1>2 DEF LanOK, Same
  <2>6. CASE f \notin l.is_downstream_set
    <3>1. WanUpTether(l, f, sta) = k
      BY <1>2, <2>6 DEF WanUpTether
    <3>2. k.is_active => Both(k)
      <4> SUFFICES ASSUME k.is_active,
                          NEW g \in k.is_upstream_set \cap k.is_downstream_set
                   PROVE  HasRule(k, g) \/ (g = "v6" /\ k.num_dft_rt_v6 > 1)
        BY DEF Both
      <4>1. g \in l.is_upstream_set \cap l.is_downstream_set /\ g \in Fam
        BY <2>1, <2>4, <2>6
      <4>2. HasRule(l, g) \/ (g = "v6" /\ l.num_dft_rt_v6 > 1)
        BY <4>1, <2>1 DEF LanOK, Both
      <4> QED
        BY <4>1, <4>2, <2>1
    <3> QED
      BY <3>1, <3>2, <2>1, <1>2 DEF LanOK
  <2> QED
    BY <2>5, <2>6
<1> QED
  BY <1>1, <1>2

LEMMA WanDownTetherOK ==
  ASSUME NEW l, LanOK(l), NEW f \in Fam, NEW sta \in BOOLEAN
  PROVE  LET m == WanDownTether(l, f, sta) IN
         /\ LanOK(m) /\ m.is_active = l.is_active /\ m.ip_type = l.ip_type
         /\ m.is_upstream_set = l.is_upstream_set \ {f}
         /\ \A g \in Fam : g # f /\ HasRule(l, g) => HasRule(m, g)
<1> DEFINE k == [l EXCEPT !.is_upstream_set = @ \ {f}]
           n == Remove(k, f, sta)
<1>0. l \in LanObjects /\ Exact(l) /\ l.is_upstream_set \subseteq l.ip_type
  BY DEF LanOK
<1>1. CASE f \notin l.ip_type \cap l.is_upstream_set
  <2>1. f \notin l.is_upstream_set
    BY <1>0, <1>1
  <2>2. WanDownTether(l, f, sta) = l
    BY <1>1 DEF WanDownTether
  <2> QED
    BY <2>1, <2>2
<1>2. CASE f \in l.ip_type \cap l.is_upstream_set
  <2>1. /\ k \in LanObjects /\ Exact(k) /\ k.is_active = l.is_active
        /\ k.ip_type = l.ip_type /\ k.num_dft_rt_v6 = l.num_dft_rt_v6
        /\ k.is_upstream_set = l.is_upstream_set \ {f}
        /\ k.is_downstream_set = l.is_downstream_set
        /\ \A g \in Fam : HasRule(l, g) <=> HasRule(k, g)
    BY <1>0 DEF LanObjects, Exact, HasRule
  <2>2. /\ n \in LanObjects /\ Exact(n) /\ Same(k, n)
        /\ \A g \in Fam \ {f} : HasRule(k, g) => HasRule(n, g)
    BY <2>1, RemoveRule
  <2>3. l.is_upstream_set \subseteq Fam
    BY <1>0 DEF LanObjects
  <2>4. ASSUME NEW m \in {k, n} PROVE LanOK(m)
    <3>1. /\ m \in LanObjects /\ Exact(m) /\ Same(k, m)
          /\ \A g \in Fam \ {f} : HasRule(k, g) => HasRule(m, g)
      BY <2>1, <2>2 DEF Same
    <3>2. m.is_active => Both(m)
      <4> SUFFICES ASSUME m.is_active,
                          NEW g \in m.is_upstream_set \cap m.is_downstream_set
                   PROVE  HasRule(m, g) \/ (g = "v6" /\ m.num_dft_rt_v6 > 1)
        BY DEF Both
      <4>1. g \in l.is_upstream_set \cap l.is_downstream_set /\ g \in Fam \ {f}
        BY <2>1, <2>3, <3>1 DEF Same
      <4>2. HasRule(l, g) \/ (g = "v6" /\ l.num_dft_rt_v6 > 1)
        BY <4>1, <2>1, <3>1 DEF LanOK, Both, Same
      <4> QED
        BY <4>1, <4>2, <2>1, <3>1 DEF Same
    <3> QED
      BY <3>1, <3>2, <2>1 DEF LanOK, Same
  <2>5. WanDownTether(l, f, sta) \in {k, n}
    BY <1>2 DEF WanDownTether
  <2>6. \A m \in {k, n} :
          /\ m.is_active = l.is_active /\ m.ip_type = l.ip_type
          /\ m.is_upstream_set = l.is_upstream_set \ {f}
          /\ \A g \in Fam \ {f} : HasRule(l, g) => HasRule(m, g)
    BY <2>1, <2>2 DEF Same
  <2> QED
    BY <2>4, <2>5, <2>6
<1> QED
  BY <1>1, <1>2

LEMMA DownstreamAddOK ==
  ASSUME NEW l, LanOK(l), NEW f \in Fam, backhaul_is_sta_mode \in BOOLEAN
  PROVE  LET m == DownstreamAdd(l, f) IN
         /\ LanOK(m) /\ m.is_active = l.is_active /\ m.ip_type = l.ip_type
         /\ m.is_upstream_set = l.is_upstream_set
         /\ \A g \in Fam : HasRule(l, g) => HasRule(m, g)
<1> DEFINE k == [l EXCEPT !.is_downstream_set = @ \cup {f}]
           n == Install(k, f, backhaul_is_sta_mode)
<1>0. /\ l \in LanObjects /\ Exact(l)
      /\ l.num_dft_rt_v6 \in 0..2 /\ l.is_upstream_set \subseteq Fam
  BY DEF LanOK, LanObjects
<1>1. CASE f \in l.is_downstream_set
  BY <1>1 DEF DownstreamAdd
<1>2. CASE f \notin l.is_downstream_set
  <2>1. /\ k \in LanObjects /\ Exact(k) /\ k.is_active = l.is_active
        /\ k.ip_type = l.ip_type /\ k.num_dft_rt_v6 = l.num_dft_rt_v6
        /\ k.is_upstream_set = l.is_upstream_set
        /\ k.is_downstream_set = l.is_downstream_set \cup {f}
        /\ \A g \in Fam : HasRule(l, g) <=> HasRule(k, g)
    BY <1>0 DEF LanObjects, Exact, HasRule
  <2>2. /\ n \in LanObjects /\ Exact(n) /\ Same(k, n)
        /\ \A g \in Fam : HasRule(k, g) => HasRule(n, g)
        /\ (f = "v6" /\ k.num_dft_rt_v6 # 1) \/ HasRule(n, f)
    BY <2>1, InstallRule
  <2>3. ASSUME NEW m, m \in LanObjects, Exact(m), Same(k, m),
               \A g \in Fam : HasRule(k, g) => HasRule(m, g),
               f \in l.is_upstream_set \cap l.ip_type =>
                 (f = "v6" /\ k.num_dft_rt_v6 # 1) \/ HasRule(m, f)
        PROVE  LanOK(m)
    <3>1. m.is_active => Both(m)
      <4> SUFFICES ASSUME m.is_active,
                          NEW g \in m.is_upstream_set \cap m.is_downstream_set
                   PROVE  HasRule(m, g) \/ (g = "v6" /\ m.num_dft_rt_v6 > 1)
        BY DEF Both
      <4>1. g \in l.is_upstream_set /\ g \in Fam /\ g \in l.ip_type
        BY <1>0, <2>1, <2>3 DEF Same, LanOK
      <4>2. CASE g = f
        <5>1. g = "v6" => l.num_dft_rt_v6 # 0
          BY <4>1, <4>2 DEF LanOK
        <5>2. m.num_dft_rt_v6 = l.num_dft_rt_v6
          BY <2>1, <2>3 DEF Same
        <5>3. HasRule(m, g) \/ (g = "v6" /\ l.num_dft_rt_v6 # 1)
          BY <4>1, <4>2, <2>1, <2>3
        <5>4. l.num_dft_rt_v6 # 0 /\ l.num_dft_rt_v6 # 1 => m.num_dft_rt_v6 > 1
          BY <1>0, <5>2
        <5> QED
          BY <5>1, <5>3, <5>4
      <4>3. CASE g # f
        <5>1. g \in l.is_downstream_set
          BY <4>3, <2>1, <2>3 DEF Same
        <5>2. HasRule(l, g) \/ (g = "v6" /\ l.num_dft_rt_v6 > 1)
          BY <4>1, <5>1, <2>1, <2>3 DEF LanOK, Both, Same
        <5>3. m.num_dft_rt_v6 = l.num_dft_rt_v6 /\ (HasRule(l, g) => HasRule(m, g))
          BY <4>1, <2>1, <2>3 DEF Same
        <5> QED
          BY <5>2, <5>3
      <4> QED
        BY <4>2, <4>3
    <3> QED
      BY <3>1, <2>1, <2>3 DEF LanOK, Same
  <2>4. CASE f \in l.is_upstream_set \cap l.ip_type
    <3>1. DownstreamAdd(l, f) = n
      BY <1>2, <2>4 DEF DownstreamAdd
    <3>2. LanOK(n)
      BY <2>2, <2>3
    <3> QED
      BY <3>1, <3>2, <2>1, <2>2 DEF Same
  <2>5. CASE f \notin l.is_upstream_set \cap l.ip_type
    <3>1. DownstreamAdd(l, f) = k
      BY <1>2, <2>5 DEF DownstreamAdd
    <3>2. Same(k, k)
      BY DEF Same
    <3>3. LanOK(k)
      BY <2>1, <2>3, <2>5, <3>2
    <3> QED
      BY <3>1, <3>3, <2>1
  <2> QED
    BY <2>4, <2>5
<1> QED
  BY <1>1, <1>2

LEMMA DownstreamDelOK ==
  ASSUME NEW l, LanOK(l), NEW f \in Fam, backhaul_is_sta_mode \in BOOLEAN
  PROVE  LET m == DownstreamDel(l, f) IN
         /\ LanOK(m) /\ m.is_active = l.is_active /\ m.ip_type = l.ip_type
         /\ m.is_upstream_set = l.is_upstream_set
         /\ \A g \in Fam : HasRule(l, g) => HasRule(m, g) \/ g \in m.is_upstream_set
<1> DEFINE k == [l EXCEPT !.is_downstream_set = @ \ {f}]
           n == Remove(k, f, backhaul_is_sta_mode)
<1>0. l \in LanObjects /\ Exact(l) /\ l.is_upstream_set \subseteq Fam
  BY DEF LanOK, LanObjects
<1>1. CASE f \notin l.is_downstream_set
  BY <1>1 DEF DownstreamDel
<1>2. CASE f \in l.is_downstream_set
  <2>1. /\ k \in LanObjects /\ Exact(k) /\ k.is_active = l.is_active
        /\ k.ip_type = l.ip_type /\ k.num_dft_rt_v6 = l.num_dft_rt_v6
        /\ k.is_upstream_set = l.is_upstream_set
        /\ k.is_downstream_set = l.is_downstream_set \ {f}
        /\ \A g \in Fam : HasRule(l, g) <=> HasRule(k, g)
    BY <1>0 DEF LanObjects, Exact, HasRule
  <2>2. /\ n \in LanObjects /\ Exact(n) /\ Same(k, n)
        /\ \A g \in Fam \ {f} : HasRule(k, g) => HasRule(n, g)
    BY <2>1, RemoveRule
  <2>3. ASSUME NEW m \in {k, n} PROVE LanOK(m)
    <3>1. /\ m \in LanObjects /\ Exact(m) /\ Same(k, m)
          /\ \A g \in Fam \ {f} : HasRule(k, g) => HasRule(m, g)
      BY <2>1, <2>2 DEF Same
    <3>2. m.is_active => Both(m)
      <4> SUFFICES ASSUME m.is_active,
                          NEW g \in m.is_upstream_set \cap m.is_downstream_set
                   PROVE  HasRule(m, g) \/ (g = "v6" /\ m.num_dft_rt_v6 > 1)
        BY DEF Both
      <4>1. /\ g \in l.is_upstream_set \cap l.is_downstream_set
            /\ g \in Fam \ {f} /\ l.is_active
        BY <1>0, <2>1, <3>1 DEF Same
      <4>2. HasRule(l, g) \/ (g = "v6" /\ l.num_dft_rt_v6 > 1)
        BY <4>1 DEF LanOK, Both
      <4>3. m.num_dft_rt_v6 = l.num_dft_rt_v6 /\ (HasRule(l, g) => HasRule(m, g))
        BY <4>1, <2>1, <3>1 DEF Same
      <4> QED
        BY <4>2, <4>3
    <3> QED
      BY <3>1, <3>2, <2>1 DEF LanOK, Same
  <2>4. CASE f \in l.is_upstream_set
    <3>1. DownstreamDel(l, f) = n
      BY <1>2, <2>4 DEF DownstreamDel
    <3> QED
      BY <3>1, <2>1, <2>2, <2>3, <2>4 DEF Same
  <2>5. CASE f \notin l.is_upstream_set
    <3>1. DownstreamDel(l, f) = k
      BY <1>2, <2>5 DEF DownstreamDel
    <3> QED
      BY <3>1, <2>1, <2>3
  <2> QED
    BY <2>4, <2>5
<1> QED
  BY <1>1, <1>2

LEMMA LanDownOK ==
  ASSUME LanOK(lan), backhaul_is_sta_mode \in BOOLEAN, tethered \in [Fam -> Nat], LanDown
  PROVE  LanOK(lan') /\ ~lan'.is_active /\ tethered' \in [Fam -> Nat]
<1> DEFINE sta == backhaul_is_sta_mode
           l1 == Remove(lan, "v4", sta)
           l2(l) == Remove(l, "v6", sta)
<1>2. \A l \in {lan, l1} : l \in LanObjects /\ Exact(l) /\ Same(lan, l)
  <2>1. "v4" \in Fam /\ lan \in LanObjects /\ Exact(lan) /\ Same(lan, lan)
    BY DEF LanOK, Fam, Same
  <2> QED
    BY <2>1, RemoveRule
<1>3. \A l \in {lan, l1} : l2(l) \in LanObjects /\ Exact(l2(l)) /\ Same(lan, l2(l))
  <2>1. "v6" \in Fam
    BY DEF Fam
  <2> SUFFICES ASSUME NEW l \in {lan, l1}
               PROVE  l2(l) \in LanObjects /\ Exact(l2(l)) /\ Same(lan, l2(l))
    OBVIOUS
  <2>2. l2(l) \in LanObjects /\ Exact(l2(l)) /\ Same(l, l2(l))
    BY <2>1, <1>2, RemoveRule
  <2> QED
    BY <2>2, <1>2 DEF Same
<1>4. PICK l \in {lan, l1, l2(lan), l2(l1)} : lan' = [l EXCEPT !.is_active = FALSE]
  BY DEF LanDown
<1>5. l \in LanObjects /\ Exact(l) /\ Same(lan, l)
  BY <1>2, <1>3
<1>6. LanOK(lan') /\ ~lan'.is_active
  BY <1>4, <1>5 DEF LanOK, LanObjects, Exact, Same
<1>7. tethered' \in [Fam -> Nat]
  BY DEF LanDown
<1> QED
  BY <1>6, <1>7

-----------------------------------------------------------------------------
(* The operators of IPACM_Wan *)

States ==
  [wan : [Wans -> WanObjects \cup {Nil}], up : SUBSET Fam, sta : BOOLEAN,
   tether : [Fam -> Nat], posts : Seq(InternalEvents)]

\* No object has its IPv4 route up and a route noted as waiting.
Clear(s) ==
  \A i \in Wans : s.wan[i] = Nil \/ "v4" \notin s.wan[i].active
                                 \/ s.wan[i].header_partial = {}
ClearUp(s) == "v4" \in s.up /\ Clear(s)

\* A step of the object i without events that makes no IPv4 upstream count
Step(s, t, i) ==
  /\ t \in States /\ t.wan[i] \in WanObjects
  /\ \A j \in Wans \ {i} : t.wan[j] = s.wan[j]
  /\ t.tether = s.tether /\ t.posts = s.posts
  /\ i \in Ltes /\ s.wan[i].header_partial = {} => t.wan[i].header_partial = {}
  /\ ClearUp(t) => ClearUp(s)

LEMMA StepStep ==
  ASSUME NEW i, NEW s, NEW t, NEW u, Step(s, t, i), Step(t, u, i)
  PROVE  Step(s, u, i)
BY DEF Step

\* What changing one object, its flag and the families up does
Set(s, t, i, w, up, sta) ==
  /\ t \in States /\ t.wan[i] = w
  /\ \A j \in Wans \ {i} : t.wan[j] = s.wan[j]
  /\ t.tether = s.tether /\ t.posts = s.posts /\ t.up = up /\ t.sta = sta

LEMMA SetWan ==
  ASSUME NEW s \in States, NEW i \in Wans, NEW w \in WanObjects,
         NEW sta \in BOOLEAN, NEW up \in SUBSET Fam
  PROVE  /\ Set(s, [s EXCEPT !.wan[i] = w], i, w, s.up, s.sta)
         /\ Set(s, [s EXCEPT !.up = up, !.wan[i] = w], i, w, up, s.sta)
         /\ Set(s, [s EXCEPT !.sta = sta, !.wan[i] = w], i, w, s.up, sta)
         /\ Set(s, [s EXCEPT !.sta = sta, !.up = up, !.wan[i] = w], i, w, up, sta)
<1> DEFINE W == [s.wan EXCEPT ![i] = w]
<1>1. s.wan \in [Wans -> WanObjects \cup {Nil}]
  BY DEF States
<1>2. /\ W \in [Wans -> WanObjects \cup {Nil}] /\ W[i] = w
      /\ \A j \in Wans \ {i} : W[j] = s.wan[j]
  BY <1>1
<1>3. Set(s, [s EXCEPT !.wan[i] = w], i, w, s.up, s.sta)
  <2> DEFINE t == [s EXCEPT !.wan[i] = w]
  <2>1. t.wan = W
    BY <1>1 DEF States
  <2>2. t.up = s.up /\ t.sta = s.sta /\ t.tether = s.tether /\ t.posts = s.posts
    BY DEF States
  <2>3. t \in States
    BY <1>1, <1>2 DEF States
  <2>4. Set(s, t, i, w, s.up, s.sta)
    <3> HIDE DEF W, t
    <3> QED
      BY <1>2, <2>1, <2>2, <2>3 DEF Set
  <2> QED
    BY <2>4
<1>4. Set(s, [s EXCEPT !.up = up, !.wan[i] = w], i, w, up, s.sta)
  <2> DEFINE t == [s EXCEPT !.up = up, !.wan[i] = w]
  <2>1. t.wan = W
    BY <1>1 DEF States
  <2>2. t.up = up /\ t.sta = s.sta /\ t.tether = s.tether /\ t.posts = s.posts
    BY DEF States
  <2>3. t \in States
    BY <1>1, <1>2 DEF States
  <2>4. Set(s, t, i, w, up, s.sta)
    <3> HIDE DEF W, t
    <3> QED
      BY <1>2, <2>1, <2>2, <2>3 DEF Set
  <2> QED
    BY <2>4
<1>5. Set(s, [s EXCEPT !.sta = sta, !.wan[i] = w], i, w, s.up, sta)
  <2> DEFINE t == [s EXCEPT !.sta = sta, !.wan[i] = w]
  <2>1. t.wan = W
    BY <1>1 DEF States
  <2>2. t.up = s.up /\ t.sta = sta /\ t.tether = s.tether /\ t.posts = s.posts
    BY DEF States
  <2>3. t \in States
    BY <1>1, <1>2 DEF States
  <2>4. Set(s, t, i, w, s.up, sta)
    <3> HIDE DEF W, t
    <3> QED
      BY <1>2, <2>1, <2>2, <2>3 DEF Set
  <2> QED
    BY <2>4
<1>6. Set(s, [s EXCEPT !.sta = sta, !.up = up, !.wan[i] = w], i, w, up, sta)
  <2> DEFINE t == [s EXCEPT !.sta = sta, !.up = up, !.wan[i] = w]
  <2>1. t.wan = W
    BY <1>1 DEF States
  <2>2. t.up = up /\ t.sta = sta /\ t.tether = s.tether /\ t.posts = s.posts
    BY DEF States
  <2>3. t \in States
    BY <1>1, <1>2 DEF States
  <2>4. Set(s, t, i, w, up, sta)
    <3> HIDE DEF W, t
    <3> QED
      BY <1>2, <2>1, <2>2, <2>3 DEF Set
  <2> QED
    BY <2>4
<1> QED
  BY <1>3, <1>4, <1>5, <1>6

\* An object that keeps its IPv4 route and forgets no waiting one, where IPv4
\* does not come up
Keeps(v, w, i) ==
  /\ w \in WanObjects
  /\ "v4" \in v.active => "v4" \in w.active
  /\ v.header_partial \subseteq w.header_partial
  /\ i \in Ltes => w.header_partial = v.header_partial

LEMMA SetStep ==
  ASSUME NEW s \in States, NEW t, NEW i \in Wans, NEW w, NEW up \in SUBSET Fam,
         NEW sta \in BOOLEAN, s.wan[i] \in WanObjects, Keeps(s.wan[i], w, i),
         Set(s, t, i, w, up, sta), "v4" \in up => "v4" \in s.up
  PROVE  Step(s, t, i)
<1>1. /\ t \in States /\ t.wan[i] \in WanObjects
      /\ \A j \in Wans \ {i} : t.wan[j] = s.wan[j]
      /\ t.tether = s.tether /\ t.posts = s.posts
  BY DEF Set, Keeps
<1>2. i \in Ltes /\ s.wan[i].header_partial = {} => t.wan[i].header_partial = {}
  BY DEF Set, Keeps
<1>3. ASSUME ClearUp(t) PROVE ClearUp(s)
  <2>1. "v4" \in s.up
    BY <1>3 DEF ClearUp, Set
  <2>2. ASSUME NEW j \in Wans
        PROVE  s.wan[j] = Nil \/ "v4" \notin s.wan[j].active
                              \/ s.wan[j].header_partial = {}
    <3>1. t.wan[j] = Nil \/ "v4" \notin t.wan[j].active
                         \/ t.wan[j].header_partial = {}
      BY <1>3 DEF ClearUp, Clear
    <3>2. CASE j # i
      BY <3>1, <3>2 DEF Set
    <3>3. CASE j = i
      <4>1. t.wan[j] = w /\ w # Nil
        BY <3>3, NilAssumption DEF Set, Keeps
      <4> QED
        BY <4>1, <3>1, <3>3 DEF Keeps
    <3> QED
      BY <3>2, <3>3
  <2> QED
    BY <2>1, <2>2 DEF ClearUp, Clear
<1> QED
  BY <1>1, <1>2, <1>3 DEF Step

\* A route is added without making an IPv4 upstream count if it is an IPv6 one
\* or one that waited.
LEMMA RouteAddStep ==
  ASSUME NEW s \in States, NEW i \in Wans, s.wan[i] \in WanObjects, NEW f \in Fam
  PROVE  LET t == handle_route_add_evt(s, i, f) IN
         /\ t \in States /\ t.wan[i] \in WanObjects
         /\ \A j \in Wans \ {i} : t.wan[j] = s.wan[j]
         /\ t.tether = s.tether /\ t.posts = s.posts
         /\ i \in Ltes /\ s.wan[i].header_partial = {} => t.wan[i].header_partial = {}
         /\ f # "v4" \/ f \in s.wan[i].header_partial => Step(s, t, i)
         /\ s.wan[i].header_partial \subseteq t.wan[i].header_partial
<1> DEFINE w == [s.wan[i] EXCEPT !.is_default_gateway = TRUE]
           t == handle_route_add_evt(s, i, f)
<1>1. CASE i \in Stas /\ ~s.wan[i].header_set
  <2> DEFINE v == [w EXCEPT !.header_partial = @ \cup {f}]
  <2>1. v \in WanObjects /\ Keeps(s.wan[i], v, i)
    BY <1>1, TetherAssumption DEF WanObjects, Keeps
  <2>2. t = [s EXCEPT !.sta = TRUE, !.wan[i] = v]
    BY <1>1 DEF handle_route_add_evt, WanObjects
  <2>3. Set(s, t, i, v, s.up, TRUE)
    <3>1. v \in WanObjects /\ s.up \in SUBSET Fam
      BY <2>1 DEF States
    <3> HIDE DEF v
    <3>2. Set(s, [s EXCEPT !.sta = TRUE, !.wan[i] = v], i, v, s.up, TRUE)
      BY <3>1, SetWan
    <3> QED
      BY <2>2, <3>2, Zenon
  <2>4. Step(s, t, i)
    BY <2>1, <2>3, SetStep DEF States
  <2>5. s.wan[i].header_partial \subseteq t.wan[i].header_partial
    BY <2>1, <2>3 DEF Set, Keeps
  <2> QED
    BY <2>4, <2>5 DEF Step
<1>2. CASE ~(i \in Stas /\ ~s.wan[i].header_set)
  <2> DEFINE v == [w EXCEPT !.active = @ \cup {f}]
             up == s.up \cup {f}
             sta == i \in Stas
  <2>1. v \in WanObjects /\ Keeps(s.wan[i], v, i)
        /\ v.header_partial = s.wan[i].header_partial /\ f \in v.active
    BY DEF WanObjects, Keeps
  <2>2. t = [s EXCEPT !.sta = sta, !.up = up, !.wan[i] = v]
    BY <1>2 DEF handle_route_add_evt, WanObjects, States
  <2>3. up \in SUBSET Fam /\ sta \in BOOLEAN /\ (f # "v4" /\ "v4" \in up => "v4" \in s.up)
    BY DEF States
  <2> HIDE DEF v, up, sta
  <2>4. Set(s, t, i, v, up, sta)
    <3>1. Set(s, [s EXCEPT !.sta = sta, !.up = up, !.wan[i] = v], i, v, up, sta)
      BY <2>1, <2>3, SetWan
    <3> QED
      BY <2>2, <3>1, Zenon
  <2>5. f # "v4" => Step(s, t, i)
    BY <2>1, <2>3, <2>4, SetStep
  <2>6. /\ t \in States /\ t.wan[i] \in WanObjects
        /\ \A j \in Wans \ {i} : t.wan[j] = s.wan[j]
        /\ t.tether = s.tether /\ t.posts = s.posts
        /\ t.wan[i].header_partial = s.wan[i].header_partial
    BY <2>1, <2>4 DEF Set
  <2>7. ASSUME f = "v4", f \in s.wan[i].header_partial PROVE Step(s, t, i)
    <3>1. ~Clear(t)
      <4>1. t.wan[i] = v /\ v # Nil
        BY <2>1, <2>4, NilAssumption DEF Set
      <4> QED
        BY <2>1, <2>7, <4>1 DEF Clear
    <3> QED
      BY <3>1, <2>6 DEF Step, ClearUp
  <2> QED
    BY <2>5, <2>6, <2>7
<1> QED
  BY <1>1, <1>2

LEMMA PutStep ==
  ASSUME NEW s \in States, NEW i \in Wans, s.wan[i] \in WanObjects, NEW w,
         Keeps(s.wan[i], w, i)
  PROVE  Step(s, [s EXCEPT !.wan[i] = w], i)
<1>1. w \in WanObjects /\ s.up \in SUBSET Fam /\ s.sta \in BOOLEAN
  BY DEF Keeps, States
<1> DEFINE t == [s EXCEPT !.wan[i] = w]
<1>2. Set(s, t, i, w, s.up, s.sta)
  BY <1>1, SetWan
<1> HIDE DEF t
<1>3. Step(s, t, i)
  BY <1>1, <1>2, SetStep
<1> QED
  BY <1>3 DEF t

LEMMA SameStep ==
  ASSUME NEW s \in States, NEW i \in Wans, s.wan[i] \in WanObjects
  PROVE  Step(s, s, i)
BY DEF Step

LEMMA HeaderStep ==
  ASSUME NEW s \in States, NEW i \in Wans, s.wan[i] \in WanObjects
  PROVE  Step(s, handle_sta_header_add_evt(s, i), i)
<1> DEFINE w == s.wan[i]
           first == IF "v4" \in w.addr_gw_set THEN "v4" ELSE "v6"
           known == first \in w.addr_gw_set \cap w.client
           v == [w EXCEPT !.header_set = known]
           t == [s EXCEPT !.wan[i] = v]
           Resume(u, f) == IF f \in w.header_partial
                           THEN handle_route_add_evt(u, i, f) ELSE u
           t4 == Resume(t, "v4")
           t6 == Resume(t4, "v6")
<1>1. Keeps(w, v, i) /\ v.header_partial = w.header_partial
  <2>1. known \in BOOLEAN
    OBVIOUS
  <2> HIDE DEF known
  <2> QED
    BY <2>1 DEF Keeps, WanObjects
<1>2. Step(s, t, i)
  <2> HIDE DEF v
  <2> QED
    BY <1>1, PutStep
<1>3. w.header_partial \subseteq t.wan[i].header_partial /\ t \in States
      /\ t.wan[i] \in WanObjects
  <2>1. v \in WanObjects /\ s.up \in SUBSET Fam /\ s.sta \in BOOLEAN
    BY <1>1 DEF Keeps, States
  <2>2. Set(s, t, i, v, s.up, s.sta)
    <3> HIDE DEF v
    <3> QED
      BY <2>1, SetWan
  <2> HIDE DEF t, v
  <2> QED
    BY <1>1, <2>1, <2>2 DEF Set
<1> HIDE DEF t, v
<1>4. Step(t, t4, i) /\ w.header_partial \subseteq t4.wan[i].header_partial
  <2>1. "v4" \in Fam
    BY DEF Fam
  <2>2. CASE "v4" \in w.header_partial
    BY <2>1, <2>2, <1>3, RouteAddStep
  <2>3. CASE "v4" \notin w.header_partial
    BY <2>3, <1>3, SameStep
  <2> QED
    BY <2>2, <2>3
<1>5. t4 \in States /\ t4.wan[i] \in WanObjects
  BY <1>4 DEF Step
<1> HIDE DEF t4
<1>6. Step(t4, t6, i)
  <2>1. "v6" \in Fam
    BY DEF Fam
  <2>2. CASE "v6" \in w.header_partial
    BY <2>1, <2>2, <1>4, <1>5, RouteAddStep
  <2>3. CASE "v6" \notin w.header_partial
    BY <2>3, <1>5, SameStep
  <2> QED
    BY <2>2, <2>3
<1>7. Step(s, t6, i)
  BY <1>2, <1>4, <1>6, StepStep
<1>8. handle_sta_header_add_evt(s, i) \in {s, t, t6}
  BY DEF handle_sta_header_add_evt, t, t4, v
<1> QED
  BY <1>2, <1>7, <1>8, SameStep

LEMMA ForgetStep ==
  ASSUME NEW s \in States, NEW i \in Wans, s.wan[i] \in WanObjects, NEW f \in Fam
  PROVE  Step(s, ForgetGateway(s, i, f), i) /\ ForgetGateway(s, i, f).up = s.up
<1> DEFINE w == [s.wan[i] EXCEPT !.addr_gw_set = @ \ ({f} \cap {"v4"})]
<1>1. Keeps(s.wan[i], w, i) /\ w \in WanObjects /\ s.up \in SUBSET Fam /\ s.sta \in BOOLEAN
  BY DEF Keeps, WanObjects, States
<1>2. ForgetGateway(s, i, f) = [s EXCEPT !.wan[i] = w]
  BY DEF ForgetGateway
<1> HIDE DEF w
<1>3. Step(s, [s EXCEPT !.wan[i] = w], i) /\ Set(s, [s EXCEPT !.wan[i] = w], i, w, s.up, s.sta)
  BY <1>1, PutStep, SetWan
<1>4. Step(s, ForgetGateway(s, i, f), i) /\ Set(s, ForgetGateway(s, i, f), i, w, s.up, s.sta)
  BY <1>2, <1>3, Zenon
<1> QED
  BY <1>4 DEF Set

\* A route taken down
LEMMA RouteDelStep ==
  ASSUME NEW s \in States, NEW i \in Wans, s.wan[i] \in WanObjects, NEW f \in Fam
  PROVE  /\ Step(s, handle_route_del_evt(s, i, f), i)
         /\ handle_route_del_evt(s, i, f).up = s.up \ {f}
<1> DEFINE w == [s.wan[i] EXCEPT !.is_default_gateway = FALSE, !.active = @ \ {f}]
           t == handle_route_del_evt(s, i, f)
           up == s.up \ {f}
<1>1. /\ w \in WanObjects /\ w.header_partial = s.wan[i].header_partial
      /\ f # "v4" => Keeps(s.wan[i], w, i)
      /\ up \in SUBSET Fam /\ s.sta \in BOOLEAN /\ ("v4" \in up => "v4" \in s.up)
      /\ (f = "v4" => "v4" \notin up)
  BY DEF WanObjects, States, Keeps
<1>2. t = [s EXCEPT !.up = up, !.wan[i] = w]
  BY DEF handle_route_del_evt
<1> HIDE DEF w, up
<1>3. Set(s, t, i, w, up, s.sta)
  <2>1. Set(s, [s EXCEPT !.up = up, !.wan[i] = w], i, w, up, s.sta)
    BY <1>1, SetWan
  <2> QED
    BY <1>2, <2>1, Zenon
<1> HIDE DEF t
<1>4. t.up = up
  BY <1>3 DEF Set
<1>5. f # "v4" => Step(s, t, i)
  BY <1>1, <1>3, SetStep
<1>6. f = "v4" => Step(s, t, i)
  BY <1>1, <1>3 DEF Set, Step, ClearUp
<1>7. Step(s, t, i)
  BY <1>5, <1>6
<1> QED
  BY <1>4, <1>7 DEF t, up

LEMMA AddrStep ==
  ASSUME NEW s \in States, NEW i \in Wans, s.wan[i] \in WanObjects, NEW a \in Addresses
  PROVE  Step(s, WanAddrAdd(s, i, a), i)
<1> DEFINE ips == s.wan[i].ip_type \cup {FamOf(a)}
           prefix == s.wan[i].ipv6_prefix \/ a = "v6"
           w == [s.wan[i] EXCEPT !.ip_type = ips, !.ipv6_prefix = prefix]
<1>1. Keeps(s.wan[i], w, i)
  <2>1. ips \in SUBSET Fam /\ prefix \in BOOLEAN
    BY DEF WanObjects, FamOf, Fam
  <2> HIDE DEF ips, prefix
  <2> QED
    BY <2>1 DEF Keeps, WanObjects
<1>2. WanAddrAdd(s, i, a) = [s EXCEPT !.wan[i] = w]
  BY DEF WanAddrAdd
<1> HIDE DEF w
<1>3. Step(s, [s EXCEPT !.wan[i] = w], i)
  BY <1>1, PutStep
<1> QED
  BY <1>2, <1>3, Zenon

LEMMA NeighborStep ==
  ASSUME NEW s \in States, NEW i \in Wans, s.wan[i] \in WanObjects, NEW f \in Fam
  PROVE  Step(s, NewNeighbor(s, i, f), i)
<1> DEFINE w == [s.wan[i] EXCEPT !.client = @ \cup {f}]
           t == [s EXCEPT !.wan[i] = w]
<1>1. Keeps(s.wan[i], w, i)
  BY DEF Keeps, WanObjects
<1>2. Step(s, t, i)
  <2> HIDE DEF w
  <2> QED
    BY <1>1, PutStep
<1>3. NewNeighbor(s, i, f) = handle_sta_header_add_evt(t, i)
  BY DEF NewNeighbor
<1> HIDE DEF t
<1>4. Step(t, handle_sta_header_add_evt(t, i), i)
  BY <1>2, HeaderStep DEF Step
<1> QED
  BY <1>2, <1>3, <1>4, StepStep

\* Events of a queue
Has(q, t, f) == \E n \in DOMAIN q : q[n].type = t /\ q[n].addr = f

LEMMA HasAppend ==
  ASSUME NEW q \in Seq(InternalEvents), NEW e \in InternalEvents, NEW t, NEW f
  PROVE  /\ Append(q, e) \in Seq(InternalEvents)
         /\ Has(Append(q, e), t, f) <=> Has(q, t, f) \/ (e.type = t /\ e.addr = f)
<1> DEFINE r == Append(q, e)
<1>1. /\ r \in Seq(InternalEvents) /\ Len(q) \in Nat
      /\ DOMAIN q = 1..Len(q) /\ DOMAIN r = 1..(Len(q) + 1)
      /\ \A n \in 1..Len(q) : r[n] = q[n]
      /\ r[Len(q) + 1] = e
  BY AppendProperties
<1> HIDE DEF r
<1>2. ASSUME Has(r, t, f) PROVE Has(q, t, f) \/ (e.type = t /\ e.addr = f)
  BY <1>1, <1>2 DEF Has
<1>3. ASSUME Has(q, t, f) \/ (e.type = t /\ e.addr = f) PROVE Has(r, t, f)
  BY <1>1, <1>3 DEF Has
<1> QED
  BY <1>1, <1>2, <1>3 DEF r

LEMMA HasTail ==
  ASSUME NEW q \in Seq(InternalEvents), q # <<>>, NEW t, NEW f
  PROVE  /\ Tail(q) \in Seq(InternalEvents) /\ Head(q) \in InternalEvents
         /\ Has(q, t, f) <=> Has(Tail(q), t, f) \/ (Head(q).type = t /\ Head(q).addr = f)
<1> DEFINE r == Tail(q)
<1>1. /\ r \in Seq(InternalEvents) /\ Len(q) \in Nat /\ Len(q) > 0
      /\ DOMAIN q = 1..Len(q) /\ DOMAIN r = 1..(Len(q) - 1)
      /\ \A n \in 1..(Len(q) - 1) : r[n] = q[n + 1]
      /\ Head(q) = q[1] /\ Head(q) \in InternalEvents
  BY HeadTailProperties, EmptySeq
<1> HIDE DEF r
<1>2. ASSUME Has(q, t, f) PROVE Has(r, t, f) \/ (Head(q).type = t /\ Head(q).addr = f)
  <2>1. PICK n \in 1..Len(q) : q[n].type = t /\ q[n].addr = f
    BY <1>1, <1>2 DEF Has
  <2>2. n = 1 \/ (n - 1 \in 1..(Len(q) - 1) /\ r[n - 1] = q[n])
    BY <1>1
  <2> QED
    BY <1>1, <2>1, <2>2 DEF Has
<1>3. ASSUME Has(r, t, f) \/ (Head(q).type = t /\ Head(q).addr = f) PROVE Has(q, t, f)
  <2>1. CASE Has(r, t, f)
    <3>1. PICK n \in 1..(Len(q) - 1) : r[n].type = t /\ r[n].addr = f
      BY <1>1, <2>1 DEF Has
    <3>2. n + 1 \in 1..Len(q) /\ q[n + 1] = r[n]
      BY <1>1
    <3> QED
      BY <1>1, <3>1, <3>2 DEF Has
  <2>2. CASE Head(q).type = t /\ Head(q).addr = f
    BY <1>1, <2>2 DEF Has
  <2> QED
    BY <1>3, <2>1, <2>2
<1> QED
  BY <1>1, <1>2, <1>3 DEF r

-----------------------------------------------------------------------------
(* What handling one external event does to the objects of IPACM_Wan *)

LtesClear(s) == \A i \in Ltes : s.wan[i] = Nil \/ s.wan[i].header_partial = {}

Move(s, t) ==
  /\ t \in States
  /\ LtesClear(s) => LtesClear(t)
  /\ "v4" \in t.up => ~Has(t.posts, "WAN_DOWN_TETHER", "v4")
  /\ ClearUp(t) => ClearUp(s) \/ Has(t.posts, "WAN_UP_TETHER", "v4")
  /\ \A f \in Fam : \/ t.tether[f] > 0
                    \/ /\ ~Has(t.posts, "WAN_UP_TETHER", f)
                       /\ s.tether[f] = 0 \/ Has(t.posts, "WAN_DOWN_TETHER", f)

LEMMA NoneHas == \A t, f : ~Has(<<>>, t, f)
BY DEF Has

LEMMA StepMove ==
  ASSUME NEW s \in States, NEW t, NEW i \in Wans, Step(s, t, i), s.posts = <<>>,
         s.wan[i] # Nil
  PROVE  Move(s, t)
<1>1. t \in States /\ t.posts = <<>> /\ t.tether = s.tether /\ (ClearUp(t) => ClearUp(s))
  BY DEF Step
<1>2. LtesClear(s) => LtesClear(t)
  <2> SUFFICES ASSUME LtesClear(s), NEW j \in Ltes
               PROVE  t.wan[j] = Nil \/ t.wan[j].header_partial = {}
    BY DEF LtesClear
  <2>1. j \in Wans /\ (s.wan[j] = Nil \/ s.wan[j].header_partial = {})
    BY DEF LtesClear, Wans
  <2> QED
    BY <2>1 DEF Step
<1>3. \A f \in Fam : s.tether[f] \in Nat
  BY DEF States
<1> QED
  BY <1>1, <1>2, <1>3, NoneHas DEF Move

\* Posting an event of one family and counting it
Counted(s, t, f, n, e) ==
  /\ t \in States /\ t.wan = s.wan /\ t.up = s.up
  /\ t.tether[f] = n /\ \A g \in Fam \ {f} : t.tether[g] = s.tether[g]
  /\ t.posts = Append(s.posts, e)

LEMMA CountEvent ==
  ASSUME NEW s \in States, NEW f \in Fam, NEW n \in Nat, NEW e \in InternalEvents
  PROVE  Counted(s, [s EXCEPT !.tether[f] = n, !.posts = Append(@, e)], f, n, e)
<1> DEFINE T == [s.tether EXCEPT ![f] = n]
           P == Append(s.posts, e)
           t == [s EXCEPT !.tether[f] = n, !.posts = P]
<1>1. s.tether \in [Fam -> Nat] /\ s.posts \in Seq(InternalEvents)
  BY DEF States
<1>2. T \in [Fam -> Nat] /\ T[f] = n /\ \A g \in Fam \ {f} : T[g] = s.tether[g]
  BY <1>1
<1>3. P \in Seq(InternalEvents)
  BY <1>1, AppendProperties
<1> HIDE DEF P
<1>4. t \in States
  BY <1>2, <1>3 DEF States
<1>5. t.tether = T
  BY <1>1 DEF States
<1>6. t.wan = s.wan /\ t.up = s.up /\ t.posts = P
  BY DEF States
<1>7. Counted(s, t, f, n, e)
  <2> HIDE DEF t, T
  <2> QED
    BY <1>2, <1>4, <1>5, <1>6 DEF Counted, P
<1> QED
  BY <1>7 DEF P

LEMMA TetherEvents ==
  \A f \in Fam, sta \in BOOLEAN :
    /\ TetherEvent("WAN_UP_TETHER", f, sta) \in InternalEvents
    /\ TetherEvent("WAN_DOWN_TETHER", f, sta) \in InternalEvents
BY DEF TetherEvent, InternalEvents

LEMMA PostUp ==
  ASSUME NEW s \in States, NEW i \in Wans, NEW f \in Fam
  PROVE  LET t == post_wan_up_tether_evt(s, i, f) IN
         Counted(s, t, f, s.tether[f] + 1, TetherEvent("WAN_UP_TETHER", f, i \in Stas))
<1>1. s.tether[f] + 1 \in Nat
  BY DEF States
<1>2. TetherEvent("WAN_UP_TETHER", f, i \in Stas) \in InternalEvents
  <2>1. \A sta \in BOOLEAN : TetherEvent("WAN_UP_TETHER", f, sta) \in InternalEvents
    BY TetherEvents
  <2>2. (i \in Stas) \in BOOLEAN
    OBVIOUS
  <2> QED
    BY <2>1, <2>2
<1>3. post_wan_up_tether_evt(s, i, f)
        = [s EXCEPT !.tether[f] = s.tether[f] + 1,
                    !.posts = Append(@, TetherEvent("WAN_UP_TETHER", f, i \in Stas))]
  BY DEF post_wan_up_tether_evt
<1> DEFINE n == s.tether[f] + 1
           e == TetherEvent("WAN_UP_TETHER", f, i \in Stas)
<1> HIDE DEF n, e
<1>4. Counted(s, [s EXCEPT !.tether[f] = n, !.posts = Append(@, e)], f, n, e)
  BY <1>1, <1>2, CountEvent DEF n, e
<1> QED
  BY <1>3, <1>4, Zenon DEF n, e

LEMMA PostDown ==
  ASSUME NEW s \in States, NEW i \in Wans, NEW f \in Fam, s.tether[f] # 0
  PROVE  LET t == post_wan_down_tether_evt(s, i, f) IN
         Counted(s, t, f, s.tether[f] - 1, TetherEvent("WAN_DOWN_TETHER", f, i \in Stas))
<1>1. s.tether[f] - 1 \in Nat
  BY DEF States
<1>2. TetherEvent("WAN_DOWN_TETHER", f, i \in Stas) \in InternalEvents
  <2>1. \A sta \in BOOLEAN : TetherEvent("WAN_DOWN_TETHER", f, sta) \in InternalEvents
    BY TetherEvents
  <2>2. (i \in Stas) \in BOOLEAN
    OBVIOUS
  <2> QED
    BY <2>1, <2>2
<1>3. post_wan_down_tether_evt(s, i, f)
        = [s EXCEPT !.tether[f] = s.tether[f] - 1,
                    !.posts = Append(@, TetherEvent("WAN_DOWN_TETHER", f, i \in Stas))]
  BY DEF post_wan_down_tether_evt
<1> DEFINE n == s.tether[f] - 1
           e == TetherEvent("WAN_DOWN_TETHER", f, i \in Stas)
<1> HIDE DEF n, e
<1>4. Counted(s, [s EXCEPT !.tether[f] = n, !.posts = Append(@, e)], f, n, e)
  BY <1>1, <1>2, CountEvent DEF n, e
<1> QED
  BY <1>3, <1>4, Zenon DEF n, e

LEMMA OtherKeeps ==
  ASSUME NEW s \in States, NEW i \in Wans, s.wan[i] \in WanObjects,
         NEW f \in Fam, f # "v4"
  PROVE  Keeps(s.wan[i], OtherRouteAdd(s, i, f).wan[i], i)
<1> DEFINE w == [s.wan[i] EXCEPT !.addr_gw_set = @ \ ({f} \cap {"v4"})]
           t == ForgetGateway(s, i, f)
           v == [t.wan[i] EXCEPT !.is_default_gateway = FALSE, !.active = @ \ {f}]
           u == handle_route_del_evt(t, i, f)
<1>1. Keeps(s.wan[i], s.wan[i], i)
  BY DEF Keeps
<1>2. CASE f \in s.wan[i].active
  <2>1. t \in States /\ t.wan[i] \in WanObjects
    BY ForgetStep DEF Step
  <2>2. t.wan[i] = w
    <3>1. s.wan \in [Wans -> WanObjects \cup {Nil}]
      BY DEF States
    <3> QED
      BY <3>1 DEF ForgetGateway, States
  <2>3. Keeps(s.wan[i], t.wan[i], i)
    BY <2>2 DEF Keeps, WanObjects
  <2> HIDE DEF t
  <2>4. u.wan[i] = v
    <3>1. t.wan \in [Wans -> WanObjects \cup {Nil}]
      BY <2>1 DEF States
    <3> QED
      BY <2>1, <3>1 DEF handle_route_del_evt, States
  <2>5. Keeps(t.wan[i], v, i)
    BY <2>1 DEF Keeps, WanObjects
  <2>6. OtherRouteAdd(s, i, f) = u
    BY <1>2 DEF OtherRouteAdd, t
  <2> QED
    BY <2>3, <2>4, <2>5, <2>6 DEF Keeps
<1>3. CASE f \notin s.wan[i].active
  BY <1>1, <1>3 DEF OtherRouteAdd
<1> QED
  BY <1>2, <1>3

\* Routes given up by the objects of other interfaces
LEMMA LeaveOK ==
  ASSUME NEW s \in States, NEW f \in Fam, NEW J \in SUBSET Wans,
         \A j \in J : s.wan[j] \in WanObjects
  PROVE  LET t == Leave(s, J, f) IN
         /\ t \in States /\ t.tether = s.tether /\ t.posts = s.posts
         /\ t.up \subseteq s.up
         /\ \A j \in Wans \ J : t.wan[j] = s.wan[j]
         /\ LtesClear(s) => LtesClear(t)
         /\ ClearUp(t) => ClearUp(s)
<1> DEFINE W == [j \in Wans |-> IF j \in J THEN OtherRouteAdd(s, j, f).wan[j]
                                ELSE s.wan[j]]
           up == IF J = {} THEN s.up ELSE s.up \ {f}
           t == Leave(s, J, f)
<1>1. \A j \in J : Step(s, OtherRouteAdd(s, j, f), j)
  <2> SUFFICES ASSUME NEW j \in J PROVE Step(s, OtherRouteAdd(s, j, f), j)
    OBVIOUS
  <2> DEFINE u == ForgetGateway(s, j, f)
  <2>1. s.wan[j] \in WanObjects /\ j \in Wans
    OBVIOUS
  <2>2. Step(s, u, j)
    BY <2>1, ForgetStep
  <2> HIDE DEF u
  <2>3. Step(u, handle_route_del_evt(u, j, f), j)
    BY <2>1, <2>2, RouteDelStep DEF Step
  <2>4. OtherRouteAdd(s, j, f) \in {s, handle_route_del_evt(u, j, f)}
    BY DEF OtherRouteAdd, u
  <2> QED
    BY <2>1, <2>2, <2>3, <2>4, StepStep, SameStep
<1>2. /\ W \in [Wans -> WanObjects \cup {Nil}]
      /\ \A j \in J : W[j] = OtherRouteAdd(s, j, f).wan[j]
      /\ \A j \in Wans \ J : W[j] = s.wan[j]
  <2>1. \A j \in J : OtherRouteAdd(s, j, f).wan[j] \in WanObjects
    BY <1>1 DEF Step
  <2>2. s.wan \in [Wans -> WanObjects \cup {Nil}]
    BY DEF States
  <2> QED
    BY <2>1, <2>2
<1>3. up \in SUBSET Fam /\ up \subseteq s.up
  BY DEF States
<1>4. t = [s EXCEPT !.up = up, !.wan = W]
  BY DEF Leave
<1> HIDE DEF W, up, t
<1>5. /\ t \in States /\ t.tether = s.tether /\ t.posts = s.posts
      /\ t.up = up /\ t.wan = W
  BY <1>2, <1>3, <1>4 DEF States
<1>6. ASSUME LtesClear(s) PROVE LtesClear(t)
  <2> SUFFICES ASSUME NEW j \in Ltes
               PROVE  t.wan[j] = Nil \/ t.wan[j].header_partial = {}
    BY DEF LtesClear
  <2>1. j \in Wans /\ (s.wan[j] = Nil \/ s.wan[j].header_partial = {})
    BY <1>6 DEF LtesClear, Wans
  <2>2. CASE j \in J
    <3>1. s.wan[j] # Nil
      BY <2>2, NilAssumption
    <3> QED
      BY <2>1, <2>2, <3>1, <1>1, <1>2, <1>5 DEF Step
  <2>3. CASE j \notin J
    BY <2>1, <2>3, <1>2, <1>5
  <2> QED
    BY <2>2, <2>3
<1>7. ASSUME ClearUp(t) PROVE ClearUp(s)
  <2>1. "v4" \in s.up
    BY <1>3, <1>5, <1>7 DEF ClearUp
  <2>2. ASSUME NEW j \in Wans
        PROVE  s.wan[j] = Nil \/ "v4" \notin s.wan[j].active
                              \/ s.wan[j].header_partial = {}
    <3>1. t.wan[j] = Nil \/ "v4" \notin t.wan[j].active
                         \/ t.wan[j].header_partial = {}
      BY <1>7 DEF ClearUp, Clear
    <3>2. CASE j \notin J
      BY <3>1, <3>2, <1>2, <1>5
    <3>3. CASE j \in J
      <4>1. f # "v4"
        BY <3>3, <1>5, <1>7 DEF up, ClearUp
      <4>2. Keeps(s.wan[j], t.wan[j], j)
        BY <3>3, <4>1, <1>2, <1>5, OtherKeeps
      <4> QED
        BY <3>1, <4>2, NilAssumption DEF Keeps
    <3> QED
      BY <3>2, <3>3
  <2> QED
    BY <2>1, <2>2 DEF ClearUp, Clear
<1> QED
  BY <1>3, <1>2, <1>5, <1>6, <1>7 DEF t

LEMMA OwnRouteAddOK ==
  ASSUME NEW s \in States, NEW i \in Wans, s.wan[i] \in WanObjects, NEW f \in Fam,
         s.posts = <<>>
  PROVE  LET t == OwnRouteAdd(s, i, f) IN
         /\ t \in States /\ \A j \in Wans \ {i} : t.wan[j] = s.wan[j]
         /\ LtesClear(s) => LtesClear(t)
         /\ ClearUp(t) => ClearUp(s) \/ Has(t.posts, "WAN_UP_TETHER", "v4")
         /\ \A g \in Fam : /\ ~Has(t.posts, "WAN_DOWN_TETHER", g)
                           /\ \/ t.tether[g] > 0
                              \/ /\ t.tether[g] = s.tether[g]
                                 /\ ~Has(t.posts, "WAN_UP_TETHER", g)
<1> DEFINE w == [s.wan[i] EXCEPT !.addr_gw_set = @ \cup {f}]
           r == [s EXCEPT !.wan[i] = w]
           h == handle_sta_header_add_evt(r, i)
           a == handle_route_add_evt(h, i, f)
           u == IF f \in s.wan[i].active THEN s ELSE a
           t == post_wan_up_tether_evt(u, i, f)
           e == TetherEvent("WAN_UP_TETHER", f, i \in Stas)
<1>1. Keeps(s.wan[i], w, i)
  BY DEF Keeps, WanObjects
<1>2. Step(s, r, i)
  <2> HIDE DEF w
  <2> QED
    BY <1>1, PutStep
<1> HIDE DEF r, w
<1>3. Step(r, h, i)
  BY <1>2, HeaderStep DEF Step
<1>4. Step(s, h, i)
  BY <1>2, <1>3, StepStep
<1> HIDE DEF h
<1>5. h \in States /\ h.wan[i] \in WanObjects
  BY <1>4 DEF Step
<1>6. /\ a \in States
      /\ \A j \in Wans \ {i} : a.wan[j] = h.wan[j]
      /\ a.tether = h.tether /\ a.posts = h.posts
      /\ i \in Ltes /\ h.wan[i].header_partial = {} => a.wan[i].header_partial = {}
      /\ f # "v4" => Step(h, a, i)
  BY <1>5, RouteAddStep
<1> HIDE DEF a
<1>7. /\ u \in States
      /\ \A j \in Wans \ {i} : u.wan[j] = s.wan[j]
      /\ u.tether = s.tether /\ u.posts = <<>>
      /\ i \in Ltes /\ s.wan[i].header_partial = {} => u.wan[i].header_partial = {}
      /\ f # "v4" => (ClearUp(u) => ClearUp(s))
  <2>1. CASE u = s
    BY <2>1
  <2>2. CASE u = a
    BY <2>2, <1>4, <1>6 DEF Step
  <2> QED
    BY <2>1, <2>2
<1> HIDE DEF u
<1>8. Counted(u, t, f, u.tether[f] + 1, e)
  BY <1>7, PostUp
<1> HIDE DEF t
<1>9. e.type = "WAN_UP_TETHER" /\ e.addr = f /\ e \in InternalEvents
  <2>1. \A sta \in BOOLEAN : TetherEvent("WAN_UP_TETHER", f, sta) \in InternalEvents
    BY TetherEvents
  <2>2. (i \in Stas) \in BOOLEAN
    OBVIOUS
  <2> QED
    BY <2>1, <2>2 DEF TetherEvent
<1> HIDE DEF e
<1>10. /\ \A g \in Fam : ~Has(t.posts, "WAN_DOWN_TETHER", g)
       /\ \A g \in Fam : Has(t.posts, "WAN_UP_TETHER", g) <=> g = f
  <2>1. t.posts = Append(<<>>, e) /\ <<>> \in Seq(InternalEvents)
    BY <1>7, <1>8 DEF Counted
  <2>2. ASSUME NEW ty, NEW g
        PROVE  Has(Append(<<>>, e), ty, g) <=> Has(<<>>, ty, g) \/ (e.type = ty /\ e.addr = g)
    BY <2>1, <1>9, HasAppend
  <2>3. \A ty, g : Has(t.posts, ty, g) <=> e.type = ty /\ e.addr = g
    BY <2>1, <2>2, NoneHas
  <2> QED
    BY <2>3, <1>9
<1>11. LtesClear(s) => LtesClear(t)
  <2> SUFFICES ASSUME LtesClear(s), NEW j \in Ltes
               PROVE  t.wan[j] = Nil \/ t.wan[j].header_partial = {}
    BY DEF LtesClear
  <2>1. j \in Wans /\ (s.wan[j] = Nil \/ s.wan[j].header_partial = {}) /\ t.wan = u.wan
    BY <1>8 DEF LtesClear, Wans, Counted
  <2>2. CASE j = i
    BY <2>1, <2>2, <1>7, NilAssumption
  <2>3. CASE j # i
    BY <2>1, <2>3, <1>7
  <2> QED
    BY <2>2, <2>3
<1>12. ClearUp(t) => ClearUp(s) \/ Has(t.posts, "WAN_UP_TETHER", "v4")
  <2>1. CASE f = "v4"
    BY <2>1, <1>10 
  <2>2. CASE f # "v4"
    BY <2>2, <1>7, <1>8 DEF Counted, ClearUp, Clear
  <2> QED
    BY <2>1, <2>2
<1>13. \A g \in Fam :
         t.tether[g] > 0
         \/ (t.tether[g] = s.tether[g] /\ ~Has(t.posts, "WAN_UP_TETHER", g))
  <2> SUFFICES ASSUME NEW g \in Fam
               PROVE  t.tether[g] > 0
                      \/ (t.tether[g] = s.tether[g] /\ ~Has(t.posts, "WAN_UP_TETHER", g))
    OBVIOUS
  <2>1. CASE g = f
    <3>1. t.tether[f] = s.tether[f] + 1 /\ s.tether[f] \in Nat
      BY <1>7, <1>8 DEF Counted, States
    <3> QED
      BY <2>1, <3>1
  <2>2. CASE g # f
    BY <2>2, <1>7, <1>8, <1>10 DEF Counted
  <2> QED
    BY <2>1, <2>2
<1>14. /\ t \in States /\ \A j \in Wans \ {i} : t.wan[j] = s.wan[j]
  BY <1>7, <1>8 DEF Counted
<1> DEFINE o == OwnRouteAdd(s, i, f)
<1>15. o \in {s, t}
  BY DEF OwnRouteAdd, t, u, a, h, r, w
<1> HIDE DEF o
<1>16. CASE o = s
  <2>1. \A g \in Fam : s.tether[g] \in Nat
    BY DEF States
  <2>2. \A ty, g : ~Has(s.posts, ty, g)
    BY NoneHas
  <2> QED
    BY <2>1, <2>2, <1>16 DEF o
<1>17. CASE o = t
  BY <1>10, <1>11, <1>12, <1>13, <1>14, <1>17 DEF o
<1> QED
  BY <1>15, <1>16, <1>17

\* What the handlers start from
Start == Current \in States /\ Current.posts = <<>> /\ internal = <<>>

LEMMA RouteAddMove ==
  ASSUME Start, NEW i \in Wans, NEW f \in Fam, RouteAdd(i, f)
  PROVE  \E t : Move(Current, t) /\ WanChanges(t)
<1> DEFINE s == Current
           others == {j \in Wans \ {i} : wan[j] # Nil /\ f \in wan[j].active}
           before == {j \in others : <<j, i>> \in order}
           after == others \ before
           s1 == Leave(s, before, f)
           s2 == IF wan[i] = Nil THEN s1 ELSE OwnRouteAdd(s1, i, f)
           t == Leave(s2, after, f)
<1>1. WanChanges(t)
  BY DEF RouteAdd
<1>2. s \in States /\ s.posts = <<>> /\ s.wan = wan /\ s.tether = tethered
  BY DEF Start, Current
<1>3. \A j \in Wans : wan[j] \in WanObjects \cup {Nil}
  BY <1>2 DEF States
<1>4. /\ \A j \in before : wan[j] \in WanObjects
      /\ \A j \in after : wan[j] \in WanObjects /\ j # i /\ j \notin before
      /\ before \in SUBSET Wans /\ after \in SUBSET Wans /\ i \notin before
  BY <1>3
<1> HIDE DEF s, before, after
<1>5. /\ s1 \in States /\ s1.tether = tethered /\ s1.posts = <<>>
      /\ s1.up \subseteq s.up
      /\ \A j \in Wans \ before : s1.wan[j] = wan[j]
      /\ LtesClear(s) => LtesClear(s1)
      /\ ClearUp(s1) => ClearUp(s)
  BY <1>2, <1>4, LeaveOK
<1> HIDE DEF s1
<1>6. /\ s2 \in States /\ \A j \in Wans \ {i} : s2.wan[j] = s1.wan[j]
      /\ LtesClear(s1) => LtesClear(s2)
      /\ ClearUp(s2) => ClearUp(s1) \/ Has(s2.posts, "WAN_UP_TETHER", "v4")
      /\ \A g \in Fam : /\ ~Has(s2.posts, "WAN_DOWN_TETHER", g)
                        /\ \/ s2.tether[g] > 0
                           \/ /\ s2.tether[g] = tethered[g]
                              /\ ~Has(s2.posts, "WAN_UP_TETHER", g)
  <2>1. CASE wan[i] = Nil
    <3>1. \A ty, g : ~Has(s1.posts, ty, g)
      BY <1>5, NoneHas
    <3> QED
      BY <2>1, <3>1, <1>5
  <2>2. CASE wan[i] # Nil
    <3>1. s1.wan[i] \in WanObjects /\ s2 = OwnRouteAdd(s1, i, f)
      BY <2>2, <1>3, <1>4, <1>5
    <3> HIDE DEF s2
    <3> QED
      BY <3>1, <1>5, OwnRouteAddOK
  <2> QED
    BY <2>1, <2>2
<1> HIDE DEF s2
<1>7. \A j \in after : s2.wan[j] \in WanObjects
  BY <1>4, <1>5, <1>6
<1>8. /\ t \in States /\ t.tether = s2.tether /\ t.posts = s2.posts
      /\ LtesClear(s2) => LtesClear(t)
      /\ ClearUp(t) => ClearUp(s2)
  BY <1>4, <1>6, <1>7, LeaveOK
<1> HIDE DEF t
<1>9. \A g \in Fam : t.tether[g] \in Nat /\ tethered[g] \in Nat
  BY <1>2, <1>8 DEF States
<1>10. \A g \in Fam : \/ t.tether[g] > 0
                      \/ /\ ~Has(t.posts, "WAN_UP_TETHER", g)
                         /\ s.tether[g] = 0 \/ Has(t.posts, "WAN_DOWN_TETHER", g)
  BY <1>2, <1>6, <1>8, <1>9
<1>11. "v4" \in Fam
  BY DEF Fam
<1>12. Move(s, t)
  BY <1>5, <1>6, <1>8, <1>10, <1>11 DEF Move
<1> QED
  BY <1>1, <1>12 DEF s

LEMMA OwnRouteDelMove ==
  ASSUME NEW s \in States, s.posts = <<>>, NEW i \in Wans, s.wan[i] \in WanObjects,
         NEW f \in Fam
  PROVE  Move(s, OwnRouteDel(s, i, f))
<1> DEFINE r == ForgetGateway(s, i, f)
           u == post_wan_down_tether_evt(r, i, f)
           t == handle_route_del_evt(u, i, f)
           e == TetherEvent("WAN_DOWN_TETHER", f, i \in Stas)
<1>1. s.wan[i] # Nil
  BY NilAssumption
<1>2. CASE f \notin s.wan[i].active
  BY <1>1, <1>2, SameStep, StepMove DEF OwnRouteDel
<1>3. CASE f \in s.wan[i].active
  <2>1. OwnRouteDel(s, i, f) = t
    BY <1>3 DEF OwnRouteDel
  <2>2. Step(s, r, i)
    BY ForgetStep
  <2>3. r \in States /\ r.wan[i] \in WanObjects /\ r.tether = s.tether /\ r.posts = <<>>
    BY <2>2 DEF Step
  <2> HIDE DEF r
  <2>4. \A g \in Fam : r.tether[g] \in Nat
    BY <2>3 DEF States
  <2>5. CASE r.tether[f] = 0
    <3>1. u = r
      BY <2>5 DEF post_wan_down_tether_evt
    <3>2. Step(r, t, i)
      BY <2>3, <3>1, RouteDelStep
    <3>3. Step(s, t, i)
      BY <2>2, <3>2, StepStep
    <3> QED
      BY <1>1, <2>1, <3>3, StepMove
  <2>6. CASE r.tether[f] # 0
    <3>1. Counted(r, u, f, r.tether[f] - 1, e)
      BY <2>3, <2>6, PostDown
    <3>2. e.type = "WAN_DOWN_TETHER" /\ e.addr = f /\ e \in InternalEvents
      <4>1. \A sta \in BOOLEAN : TetherEvent("WAN_DOWN_TETHER", f, sta) \in InternalEvents
        BY TetherEvents
      <4>2. (i \in Stas) \in BOOLEAN
        OBVIOUS
      <4> QED
        BY <4>1, <4>2 DEF TetherEvent
    <3> HIDE DEF e, u
    <3>3. u \in States /\ u.wan[i] \in WanObjects
      BY <2>3, <3>1 DEF Counted
    <3>4. Step(u, t, i) /\ t.up = u.up \ {f}
      BY <3>3, RouteDelStep
    <3> HIDE DEF t
    <3>5. t.tether = u.tether /\ t.posts = Append(<<>>, e) /\ u.wan = r.wan /\ u.up = r.up
      BY <2>3, <3>1, <3>4 DEF Step, Counted
    <3>6. \A ty, g : Has(t.posts, ty, g) <=> e.type = ty /\ e.addr = g
      <4>1. <<>> \in Seq(InternalEvents)
        OBVIOUS
      <4>2. ASSUME NEW ty, NEW g
            PROVE  Has(Append(<<>>, e), ty, g)
                     <=> Has(<<>>, ty, g) \/ (e.type = ty /\ e.addr = g)
        BY <3>2, <4>1, HasAppend
      <4> QED
        BY <4>2, <3>5, NoneHas
    <3>7. "v4" \in t.up => ~Has(t.posts, "WAN_DOWN_TETHER", "v4")
      BY <3>2, <3>4, <3>6
    <3>8. \A g \in Fam : \/ t.tether[g] > 0
                         \/ /\ ~Has(t.posts, "WAN_UP_TETHER", g)
                            /\ s.tether[g] = 0 \/ Has(t.posts, "WAN_DOWN_TETHER", g)
      <4> SUFFICES ASSUME NEW g \in Fam
                   PROVE  /\ ~Has(t.posts, "WAN_UP_TETHER", g)
                          /\ \/ t.tether[g] > 0 \/ s.tether[g] = 0
                             \/ Has(t.posts, "WAN_DOWN_TETHER", g)
        OBVIOUS
      <4>1. ~Has(t.posts, "WAN_UP_TETHER", g)
        BY <3>2, <3>6
      <4>2. CASE g = f
        BY <4>1, <4>2, <3>2, <3>6
      <4>3. CASE g # f
        <5>1. t.tether[g] = s.tether[g] /\ s.tether[g] \in Nat
          BY <4>3, <2>3, <2>4, <3>1, <3>5 DEF Counted
        <5> QED
          BY <4>1, <5>1
      <4> QED
        BY <4>2, <4>3
    <3>9. LtesClear(s) => LtesClear(t)
      <4> SUFFICES ASSUME LtesClear(s), NEW j \in Ltes
                   PROVE  t.wan[j] = Nil \/ t.wan[j].header_partial = {}
        BY DEF LtesClear
      <4>1. j \in Wans /\ (s.wan[j] = Nil \/ s.wan[j].header_partial = {})
        BY DEF LtesClear, Wans
      <4>2. CASE j = i
        <5>1. r.wan[i].header_partial = {}
          BY <1>1, <4>1, <4>2, <2>2 DEF Step
        <5> QED
          BY <4>2, <5>1, <3>4, <3>5 DEF Step
      <4>3. CASE j # i
        BY <4>1, <4>3, <2>2, <3>4, <3>5 DEF Step
      <4> QED
        BY <4>2, <4>3
    <3>10. ClearUp(t) => ClearUp(s)
      BY <2>2, <3>4, <3>5 DEF Step, ClearUp, Clear
    <3>11. t \in States
      BY <3>4 DEF Step
    <3>12. Move(s, t)
      BY <3>7, <3>8, <3>9, <3>10, <3>11 DEF Move
    <3> QED
      BY <2>1, <3>12 DEF t, u
  <2> QED
    BY <2>5, <2>6
<1> QED
  BY <1>2, <1>3

LEMMA HasConcat ==
  ASSUME NEW p \in Seq(InternalEvents), NEW q \in Seq(InternalEvents), NEW ty, NEW g
  PROVE  Has(p \o q, ty, g) <=> Has(p, ty, g) \/ Has(q, ty, g)
<1> DEFINE r == p \o q
<1>1. /\ DOMAIN p = 1..Len(p) /\ DOMAIN q = 1..Len(q) /\ Len(p) \in Nat /\ Len(q) \in Nat
      /\ DOMAIN r = 1..(Len(p) + Len(q))
      /\ \A n \in 1..(Len(p) + Len(q)) : r[n] = IF n <= Len(p) THEN p[n] ELSE q[n - Len(p)]
  <2>1. r \in Seq(InternalEvents) /\ Len(r) = Len(p) + Len(q)
    BY ConcatProperties
  <2>2. \A n \in 1..(Len(p) + Len(q)) : r[n] = IF n <= Len(p) THEN p[n] ELSE q[n - Len(p)]
    BY ConcatProperties
  <2> HIDE DEF r
  <2> QED
    BY <2>1, <2>2
<1> HIDE DEF r
<1>2. ASSUME Has(r, ty, g) PROVE Has(p, ty, g) \/ Has(q, ty, g)
  <2>1. PICK n \in 1..(Len(p) + Len(q)) : r[n].type = ty /\ r[n].addr = g
    BY <1>1, <1>2 DEF Has
  <2>2. CASE n <= Len(p)
    BY <1>1, <2>1, <2>2 DEF Has
  <2>3. CASE ~(n <= Len(p))
    <3>1. n - Len(p) \in 1..Len(q) /\ r[n] = q[n - Len(p)]
      BY <1>1, <2>3
    <3> QED
      BY <1>1, <2>1, <3>1 DEF Has
  <2> QED
    BY <2>2, <2>3
<1>3. ASSUME Has(p, ty, g) PROVE Has(r, ty, g)
  BY <1>1, <1>3 DEF Has
<1>4. ASSUME Has(q, ty, g) PROVE Has(r, ty, g)
  <2>1. PICK n \in 1..Len(q) : q[n].type = ty /\ q[n].addr = g
    BY <1>1, <1>4 DEF Has
  <2>2. n + Len(p) \in 1..(Len(p) + Len(q)) /\ r[n + Len(p)] = q[n]
    BY <1>1
  <2> QED
    BY <1>1, <2>1, <2>2 DEF Has
<1> QED
  BY <1>2, <1>3, <1>4 DEF r

LEMMA AllDown ==
  ASSUME NEW s \in States, NEW i \in Wans, NEW f \in Fam
  PROVE  LET t == AllTethersDown(s, i, f) IN
         /\ t \in States /\ t.wan = s.wan /\ t.up = s.up
         /\ \A g \in Fam : t.tether[g] = IF g = f THEN 0 ELSE s.tether[g]
         /\ \A ty, g : Has(t.posts, ty, g)
              <=> \/ Has(s.posts, ty, g)
                  \/ ty = "WAN_DOWN_TETHER" /\ g = f /\ s.tether[f] # 0
<1> DEFINE e == TetherEvent("WAN_DOWN_TETHER", f, i \in Stas)
           q == [n \in 1..s.tether[f] |-> e]
           P == s.posts \o q
           T == [s.tether EXCEPT ![f] = 0]
           t == [s EXCEPT !.tether[f] = 0, !.posts = P]
<1>1. s.tether \in [Fam -> Nat] /\ s.posts \in Seq(InternalEvents) /\ s.tether[f] \in Nat
  BY DEF States
<1>2. e.type = "WAN_DOWN_TETHER" /\ e.addr = f /\ e \in InternalEvents
  <2>1. \A sta \in BOOLEAN : TetherEvent("WAN_DOWN_TETHER", f, sta) \in InternalEvents
    BY TetherEvents
  <2>2. (i \in Stas) \in BOOLEAN
    OBVIOUS
  <2> QED
    BY <2>1, <2>2 DEF TetherEvent
<1> HIDE DEF e
<1>3. q \in Seq(InternalEvents) /\ DOMAIN q = 1..s.tether[f]
  BY <1>1, <1>2
<1>4. \A ty, g : Has(q, ty, g) <=> ty = "WAN_DOWN_TETHER" /\ g = f /\ s.tether[f] # 0
  <2> SUFFICES ASSUME NEW ty, NEW g
               PROVE  Has(q, ty, g) <=> ty = "WAN_DOWN_TETHER" /\ g = f /\ s.tether[f] # 0
    OBVIOUS
  <2>1. \A n \in DOMAIN q : q[n] = e
    OBVIOUS
  <2>2. DOMAIN q # {} <=> s.tether[f] # 0
    <3>1. s.tether[f] # 0 => 1 \in DOMAIN q
      BY <1>1, <1>3
    <3>2. s.tether[f] = 0 => DOMAIN q = {}
      BY <1>3
    <3> QED
      BY <3>1, <3>2
  <2> HIDE DEF q
  <2> QED
    BY <2>1, <2>2, <1>2 DEF Has
<1> HIDE DEF q
<1>5. P \in Seq(InternalEvents)
  BY <1>1, <1>3, ConcatProperties
<1>6. \A ty, g : Has(P, ty, g) <=> Has(s.posts, ty, g) \/ Has(q, ty, g)
  BY <1>1, <1>3, HasConcat
<1> HIDE DEF P
<1>7. T \in [Fam -> Nat] /\ \A g \in Fam : T[g] = IF g = f THEN 0 ELSE s.tether[g]
  BY <1>1
<1>8. t \in States
  BY <1>1, <1>5, <1>7 DEF States
<1>9. t.wan = s.wan /\ t.up = s.up /\ t.posts = P
  BY DEF States
<1>10. t.tether = T
  BY <1>1 DEF States
<1>11. AllTethersDown(s, i, f) = t
  BY DEF AllTethersDown, P, q, e
<1> HIDE DEF t, T
<1> QED
  BY <1>4, <1>6, <1>7, <1>8, <1>9, <1>10, <1>11

\* Going down, an object takes its IPv4 route with it or has none that waited.
DownOK(s, t, i) ==
  /\ t \in States /\ \A j \in Wans \ {i} : t.wan[j] = s.wan[j]
  /\ t.up \subseteq s.up
  /\ \A g \in Fam : /\ ~Has(t.posts, "WAN_UP_TETHER", g)
                    /\ \/ t.tether[g] = s.tether[g] \/ Has(t.posts, "WAN_DOWN_TETHER", g)
                       \/ s.tether[g] = 0
  /\ "v4" \in t.up => ~Has(t.posts, "WAN_DOWN_TETHER", "v4")
  /\ "v4" \in t.up /\ LtesClear(s)
       => "v4" \notin s.wan[i].active \/ s.wan[i].header_partial = {}

LEMMA StaDown ==
  ASSUME NEW s \in States, s.posts = <<>>, NEW i \in Stas, s.wan[i] \in WanObjects
  PROVE  DownOK(s, handle_down_evt(s, i), i)
<1> DEFINE a == IF "v4" \in s.wan[i].active THEN handle_route_del_evt(s, i, "v4") ELSE s
           b == IF "v6" \in a.wan[i].active THEN handle_route_del_evt(a, i, "v6") ELSE a
<1>1. i \in Wans /\ "v4" \in Fam /\ "v6" \in Fam /\ s.up \subseteq Fam
  BY DEF Wans, Fam, States
<1>2. /\ Step(s, a, i) /\ a.up \subseteq s.up
      /\ "v4" \in s.wan[i].active => "v4" \notin a.up
  <2>1. CASE "v4" \in s.wan[i].active
    BY <2>1, <1>1, RouteDelStep
  <2>2. CASE "v4" \notin s.wan[i].active
    BY <2>2, <1>1, SameStep
  <2> QED
    BY <2>1, <2>2
<1> HIDE DEF a
<1>3. a \in States /\ a.wan[i] \in WanObjects
  BY <1>2 DEF Step
<1>4. Step(a, b, i) /\ b.up \subseteq a.up
  <2>1. CASE "v6" \in a.wan[i].active
    BY <2>1, <1>1, <1>3, RouteDelStep
  <2>2. CASE "v6" \notin a.wan[i].active
    BY <2>2, <1>1, <1>3, SameStep
  <2> QED
    BY <2>1, <2>2
<1> HIDE DEF b
<1>5. Step(s, b, i)
  BY <1>2, <1>4, StepStep
<1>6. \A ty, g : ~Has(b.posts, ty, g)
  BY <1>5, NoneHas DEF Step
<1>7. DownOK(s, b, i)
  BY <1>2, <1>4, <1>5, <1>6 DEF DownOK, Step
<1> QED
  BY <1>7 DEF handle_down_evt, a, b

LEMMA LteDown ==
  ASSUME NEW s \in States, s.posts = <<>>, NEW i \in Ltes, s.wan[i] \in WanObjects
  PROVE  DownOK(s, handle_down_evt_ex(s, i), i)
<1> DEFINE ra == handle_route_del_evt(s, i, "v4")
           a == IF "v4" \in s.wan[i].ip_type THEN AllTethersDown(ra, i, "v4") ELSE s
           rb == handle_route_del_evt(a, i, "v6")
           b == IF "v6" \in a.wan[i].ip_type THEN AllTethersDown(rb, i, "v6") ELSE a
<1>1. /\ i \in Wans /\ "v4" \in Fam /\ "v6" \in Fam /\ s.up \subseteq Fam
      /\ LtesClear(s) => s.wan[i].header_partial = {}
  BY NilAssumption DEF Wans, Fam, States, LtesClear
<1>2. \A ty, g : ~Has(s.posts, ty, g)
  BY NoneHas
<1>3. /\ a \in States /\ a.wan[i] \in WanObjects
      /\ \A j \in Wans \ {i} : a.wan[j] = s.wan[j]
      /\ a.up \subseteq s.up
      /\ a.tether["v6"] = s.tether["v6"]
      /\ a.tether["v4"] = s.tether["v4"] \/ a.tether["v4"] = 0
      /\ \A ty, g : Has(a.posts, ty, g) => ty = "WAN_DOWN_TETHER" /\ g = "v4"
      /\ Has(a.posts, "WAN_DOWN_TETHER", "v4") => "v4" \notin a.up
      /\ a.tether["v4"] = s.tether["v4"] \/ Has(a.posts, "WAN_DOWN_TETHER", "v4")
         \/ s.tether["v4"] = 0
  <2>1. CASE "v4" \in s.wan[i].ip_type
    <3>1. Step(s, ra, i) /\ ra.up = s.up \ {"v4"}
      BY <1>1, RouteDelStep
    <3>2. /\ ra \in States /\ ra.posts = <<>> /\ ra.tether = s.tether
          /\ ra.wan[i] \in WanObjects /\ \A j \in Wans \ {i} : ra.wan[j] = s.wan[j]
      BY <3>1 DEF Step
    <3> HIDE DEF ra
    <3>3. a = AllTethersDown(ra, i, "v4")
      BY <2>1
    <3> HIDE DEF a
    <3>4. /\ a \in States /\ a.wan = ra.wan /\ a.up = ra.up
          /\ \A g \in Fam : a.tether[g] = IF g = "v4" THEN 0 ELSE ra.tether[g]
          /\ \A ty, g : Has(a.posts, ty, g)
               <=> \/ Has(ra.posts, ty, g)
                   \/ ty = "WAN_DOWN_TETHER" /\ g = "v4" /\ ra.tether["v4"] # 0
      <4> DEFINE x == AllTethersDown(ra, i, "v4")
      <4>1. /\ x \in States /\ x.wan = ra.wan /\ x.up = ra.up
            /\ \A g \in Fam : x.tether[g] = IF g = "v4" THEN 0 ELSE ra.tether[g]
            /\ \A ty, g : Has(x.posts, ty, g)
                 <=> \/ Has(ra.posts, ty, g)
                     \/ ty = "WAN_DOWN_TETHER" /\ g = "v4" /\ ra.tether["v4"] # 0
        BY <1>1, <3>2, AllDown
      <4> HIDE DEF x
      <4>2. a = x
        BY <3>3 DEF x
      <4> QED
        BY <4>1, <4>2
    <3>5. \A ty, g : ~Has(ra.posts, ty, g)
      BY <3>2, NoneHas
    <3> QED
      BY <1>1, <3>1, <3>2, <3>4, <3>5
  <2>2. CASE "v4" \notin s.wan[i].ip_type
    <3>1. a = s
      BY <2>2
    <3> HIDE DEF a
    <3> QED
      BY <3>1, <1>2
  <2> QED
    BY <2>1, <2>2
<1> HIDE DEF a
<1>4. /\ b \in States /\ \A j \in Wans \ {i} : b.wan[j] = a.wan[j]
      /\ b.up \subseteq a.up
      /\ b.tether["v4"] = a.tether["v4"]
      /\ \A ty, g : Has(a.posts, ty, g) => Has(b.posts, ty, g)
      /\ \A ty, g : Has(b.posts, ty, g)
           => Has(a.posts, ty, g) \/ (ty = "WAN_DOWN_TETHER" /\ g = "v6")
      /\ b.tether["v6"] = a.tether["v6"] \/ Has(b.posts, "WAN_DOWN_TETHER", "v6")
         \/ a.tether["v6"] = 0
  <2>1. CASE "v6" \in a.wan[i].ip_type
    <3>1. Step(a, rb, i) /\ rb.up = a.up \ {"v6"}
      BY <1>1, <1>3, RouteDelStep
    <3>2. /\ rb \in States /\ rb.posts = a.posts /\ rb.tether = a.tether
          /\ \A j \in Wans \ {i} : rb.wan[j] = a.wan[j]
      BY <3>1 DEF Step
    <3> HIDE DEF rb
    <3>3. b = AllTethersDown(rb, i, "v6")
      BY <2>1
    <3> HIDE DEF b
    <3>4. /\ b \in States /\ b.wan = rb.wan /\ b.up = rb.up
          /\ \A g \in Fam : b.tether[g] = IF g = "v6" THEN 0 ELSE rb.tether[g]
          /\ \A ty, g : Has(b.posts, ty, g)
               <=> \/ Has(rb.posts, ty, g)
                   \/ ty = "WAN_DOWN_TETHER" /\ g = "v6" /\ rb.tether["v6"] # 0
      <4> DEFINE x == AllTethersDown(rb, i, "v6")
      <4>1. /\ x \in States /\ x.wan = rb.wan /\ x.up = rb.up
            /\ \A g \in Fam : x.tether[g] = IF g = "v6" THEN 0 ELSE rb.tether[g]
            /\ \A ty, g : Has(x.posts, ty, g)
                 <=> \/ Has(rb.posts, ty, g)
                     \/ ty = "WAN_DOWN_TETHER" /\ g = "v6" /\ rb.tether["v6"] # 0
        BY <1>1, <3>2, AllDown
      <4> HIDE DEF x
      <4>2. b = x
        BY <3>3 DEF x
      <4> QED
        BY <4>1, <4>2
    <3> QED
      BY <1>1, <3>1, <3>2, <3>4
  <2>2. CASE "v6" \notin a.wan[i].ip_type
    <3>1. b = a
      BY <2>2
    <3> HIDE DEF b
    <3> QED
      BY <3>1, <1>3
  <2> QED
    BY <2>1, <2>2
<1> HIDE DEF b
<1>5. \A g \in Fam : ~Has(b.posts, "WAN_UP_TETHER", g)
  BY <1>3, <1>4
<1>6. \A g \in Fam : \/ b.tether[g] = s.tether[g] \/ Has(b.posts, "WAN_DOWN_TETHER", g)
                     \/ s.tether[g] = 0
  <2>1. \A g \in Fam : g = "v4" \/ g = "v6"
    BY DEF Fam
  <2> QED
    BY <2>1, <1>3, <1>4
<1>7. "v4" \in b.up => ~Has(b.posts, "WAN_DOWN_TETHER", "v4")
  BY <1>3, <1>4
<1>8. DownOK(s, b, i)
  BY <1>1, <1>3, <1>4, <1>5, <1>6, <1>7 DEF DownOK
<1>9. DownOK(s, s, i)
  BY <1>1, <1>2 DEF DownOK
<1>10. handle_down_evt_ex(s, i) \in {s, b}
  BY DEF handle_down_evt_ex, a, b
<1> QED
  BY <1>8, <1>9, <1>10

LEMMA DeleteWanMove ==
  ASSUME Start, NEW i \in Wans, wan[i] # Nil, DeleteWan(i), LtesClear(Current)
  PROVE  \E t : Move(Current, t) /\ Becomes(t) /\ lan' = lan
<1> DEFINE s == Current
           d == IF i \in Stas THEN handle_down_evt(s, i) ELSE handle_down_evt_ex(s, i)
           t == [d EXCEPT !.wan[i] = Nil]
<1>1. Becomes(t) /\ lan' = lan
  BY DEF DeleteWan
<1>2. s \in States /\ s.posts = <<>> /\ s.wan = wan
  BY DEF Start, Current
<1>3. s.wan[i] \in WanObjects
  BY <1>2 DEF States
<1> HIDE DEF s
<1>4. DownOK(s, d, i)
  <2>1. CASE i \in Stas
    BY <2>1, <1>2, <1>3, StaDown
  <2>2. CASE i \notin Stas
    <3>1. i \in Ltes
      BY <2>2 DEF Wans
    <3> QED
      BY <2>2, <3>1, <1>2, <1>3, LteDown
  <2> QED
    BY <2>1, <2>2
<1> HIDE DEF d
<1>5. d \in States /\ d.wan \in [Wans -> WanObjects \cup {Nil}]
  BY <1>4 DEF DownOK, States
<1>6. /\ t \in States /\ t.up = d.up /\ t.tether = d.tether /\ t.posts = d.posts
      /\ t.wan[i] = Nil /\ \A j \in Wans \ {i} : t.wan[j] = d.wan[j]
  <2> DEFINE W == [d.wan EXCEPT ![i] = Nil]
  <2>1. W \in [Wans -> WanObjects \cup {Nil}] /\ W[i] = Nil
        /\ \A j \in Wans \ {i} : W[j] = d.wan[j]
    BY <1>5
  <2>2. t.wan = W
    BY <1>5 DEF States
  <2>3. t.up = d.up /\ t.tether = d.tether /\ t.posts = d.posts
    BY <1>5 DEF States
  <2>4. t \in States
    BY <1>5, <2>1 DEF States
  <2> HIDE DEF W, t
  <2> QED
    BY <2>1, <2>2, <2>3, <2>4
<1> HIDE DEF t
<1>7. LtesClear(s) => LtesClear(t)
  <2> SUFFICES ASSUME LtesClear(s), NEW j \in Ltes
               PROVE  t.wan[j] = Nil \/ t.wan[j].header_partial = {}
    BY DEF LtesClear
  <2>1. j \in Wans /\ (s.wan[j] = Nil \/ s.wan[j].header_partial = {})
    BY DEF LtesClear, Wans
  <2> QED
    BY <2>1, <1>4, <1>6 DEF DownOK
<1>8. ASSUME ClearUp(t) PROVE ClearUp(s)
  <2>1. "v4" \in d.up /\ "v4" \in s.up
    BY <1>4, <1>6, <1>8 DEF DownOK, ClearUp
  <2>2. ASSUME NEW j \in Wans
        PROVE  s.wan[j] = Nil \/ "v4" \notin s.wan[j].active
                              \/ s.wan[j].header_partial = {}
    <3>1. CASE j = i
      BY <3>1, <2>1, <1>4 DEF DownOK, s
    <3>2. CASE j # i
      BY <3>2, <1>4, <1>6, <1>8 DEF DownOK, ClearUp, Clear
    <3> QED
      BY <3>1, <3>2
  <2> QED
    BY <2>1, <2>2 DEF ClearUp, Clear
<1>9. \A g \in Fam : t.tether[g] \in Nat /\ s.tether[g] \in Nat
  BY <1>2, <1>6 DEF States
<1>10. Move(s, t)
  BY <1>4, <1>6, <1>7, <1>8, <1>9 DEF Move, DownOK
<1> QED
  BY <1>1, <1>10 DEF s

-----------------------------------------------------------------------------
(* The inductive invariant, of what the event thread and the queue hold.  An *)
(* event that is pending accounts for what the LAN object does not know yet. *)

Pending(t, f) == Has(internal, t, f)

NoDownWhileUp == "v4" \in wan_up => ~Pending("WAN_DOWN_TETHER", "v4")
Withdrawable ==
  \A f \in Fam :
    \/ tethered[f] > 0
    \/ /\ ~Pending("WAN_UP_TETHER", f)
       /\ Alive /\ f \in lan.is_upstream_set => Pending("WAN_DOWN_TETHER", f)
Known ==
  Alive /\ "v4" \in lan.ip_type /\ ClearUp(Current)
    => \/ Pending("WAN_UP_TETHER", "v4")
       \/ "v4" \in lan.is_upstream_set \/ HasRule(lan, "v4")

CoreInv ==
  /\ Current \in States /\ internal \in Seq(InternalEvents)
  /\ lan = Nil \/ LanOK(lan)
  /\ LtesClear(Current) /\ NoDownWhileUp /\ Withdrawable /\ Known
core == <<internal, wan, wan_up, backhaul_is_sta_mode, tethered, lan>>

LEMMA Typed ==
  ASSUME Current \in States
  PROVE  /\ Start <=> internal = <<>>
         /\ wan \in [Wans -> WanObjects \cup {Nil}] /\ wan_up \subseteq Fam
         /\ backhaul_is_sta_mode \in BOOLEAN /\ tethered \in [Fam -> Nat]
BY DEF Current, States, Start

LEMMA MoveCore ==
  ASSUME CoreInv, internal = <<>>, NEW t, Move(Current, t), Becomes(t), lan' = lan
  PROVE  CoreInv'
<1>1. /\ t \in States /\ wan' = t.wan /\ wan_up' = t.up
      /\ backhaul_is_sta_mode' = t.sta /\ tethered' = t.tether
  BY DEF Move, Becomes
<1>2. internal' = t.posts /\ t.posts \in Seq(InternalEvents)
  <2>1. t.posts \in Seq(InternalEvents)
    BY <1>1 DEF States
  <2>2. <<>> \o t.posts = t.posts
    BY <2>1, ConcatEmptySeq
  <2> QED
    BY <2>1, <2>2 DEF Becomes
<1>3. Current' \in States
  BY <1>1 DEF Current, States
<1>4. (LtesClear(Current)' <=> LtesClear(t)) /\ (ClearUp(Current)' <=> ClearUp(t))
  BY <1>1 DEF LtesClear, ClearUp, Clear, Current
<1>5. \A ty, f : ~Pending(ty, f)
  BY NoneHas DEF Pending
<1>6. NoDownWhileUp'
  BY <1>1, <1>2 DEF NoDownWhileUp, Pending, Move
<1>7. Withdrawable'
  <2> SUFFICES ASSUME NEW f \in Fam
               PROVE  \/ t.tether[f] > 0
                      \/ /\ ~Has(t.posts, "WAN_UP_TETHER", f)
                         /\ Alive /\ f \in lan.is_upstream_set
                              => Has(t.posts, "WAN_DOWN_TETHER", f)
    BY <1>1, <1>2 DEF Withdrawable, Pending, Alive
  <2>1. CASE tethered[f] > 0
    <3>1. tethered[f] # 0 /\ Current.tether = tethered
      BY <2>1 DEF CoreInv, Current, States
    <3> QED
      BY <3>1 DEF Move
  <2>2. CASE ~(tethered[f] > 0)
    BY <2>2, <1>5 DEF Move, CoreInv, Withdrawable
  <2> QED
    BY <2>1, <2>2
<1>8. Known'
  <2>1. Known
    BY DEF CoreInv
  <2> QED
    BY <2>1, <1>1, <1>2, <1>4, <1>5 DEF Known, Pending, Alive, Move
<1> QED
  BY <1>2, <1>3, <1>4, <1>6, <1>7, <1>8 DEF CoreInv, Move

LEMMA InternalKinds ==
  ASSUME NEW e \in InternalEvents
  PROVE  \/ e.type \in {"WAN_UP_TETHER", "WAN_DOWN_TETHER"} /\ e.addr \in Fam /\ e.is_sta \in BOOLEAN
         \/ e.type \in {"DOWNSTREAM_ADD", "DOWNSTREAM_DEL"} /\ e.addr \in Fam
         \/ e.type = "LAN_DELETE_SELF"
BY DEF InternalEvents

LEMMA ExternalKinds ==
  ASSUME NEW e \in ExternalEvents
  PROVE  \/ e.type \in {"LINK_UP", "LINK_DOWN"} /\ e.iface \in Ifaces
         \/ e.type = "ADDR_ADD" /\ e.iface \in Ifaces /\ e.addr \in Addresses
         \/ e.type = "NEW_NEIGH" /\ e.iface \in Wans /\ e.addr \in Fam
         \/ e.type \in {"ROUTE_ADD", "ROUTE_DEL"} /\ e.iface \in Wans /\ e.addr \in Fam
BY DEF ExternalEvents, RouteEvents, Wans

LEMMA InternalCore ==
  ASSUME CoreInv, Internal
  PROVE  CoreInv'
<1> DEFINE e == Head(internal)
           q == Tail(internal)
<1>1. /\ internal # <<>> /\ internal' = q
      /\ lan' = IF e.type = "LAN_DELETE_SELF" THEN Nil
                ELSE IF Alive THEN LanReaction(lan, e) ELSE lan
      /\ UNCHANGED <<wan, wan_up, backhaul_is_sta_mode, tethered>>
  BY DEF Internal, statics
<1>2. /\ q \in Seq(InternalEvents) /\ e \in InternalEvents
      /\ \A t, f : Pending(t, f) <=> Has(q, t, f) \/ (e.type = t /\ e.addr = f)
  BY <1>1, HasTail DEF CoreInv, Pending
<1> HIDE DEF e, q
<1>3. /\ Current' = Current /\ (LtesClear(Current)' <=> LtesClear(Current))
      /\ (ClearUp(Current)' <=> ClearUp(Current))
  BY <1>1 DEF Current, LtesClear, ClearUp, Clear
<1>4. Current' \in States /\ internal' \in Seq(InternalEvents) /\ LtesClear(Current)'
  BY <1>1, <1>2, <1>3 DEF CoreInv
<1>5. NoDownWhileUp'
  BY <1>1, <1>2 DEF CoreInv, NoDownWhileUp, Pending
<1>6. \A t, f : Pending(t, f)' <=> Has(q, t, f)
  BY <1>1 DEF Pending
<1>7. CASE ~Alive \/ e.type = "LAN_DELETE_SELF"
  <2>1. lan' \in {lan, Nil} /\ ~Alive'
    BY <1>1, <1>7 DEF Alive
  <2>2. lan' = Nil \/ LanOK(lan')
    BY <2>1 DEF CoreInv
  <2>3. Withdrawable'
    <3> SUFFICES ASSUME NEW f \in Fam
                 PROVE  tethered[f] > 0 \/ ~Has(q, "WAN_UP_TETHER", f)
      BY <1>1, <1>6, <2>1 DEF Withdrawable
    <3> QED
      BY <1>2 DEF CoreInv, Withdrawable
  <2>4. Known'
    BY <2>1 DEF Known
  <2> QED
    BY <1>4, <1>5, <2>2, <2>3, <2>4 DEF CoreInv
<1>8. CASE Alive /\ e.type # "LAN_DELETE_SELF"
  <2> DEFINE m == LanReaction(lan, e)
  <2>1. lan' = m /\ LanOK(lan) /\ lan # Nil /\ lan.is_active
    BY <1>1, <1>8 DEF CoreInv, Alive
  <2>2. backhaul_is_sta_mode \in BOOLEAN
    BY Typed DEF CoreInv
  <2>3. /\ LanOK(m) /\ m.is_active = lan.is_active /\ m.ip_type = lan.ip_type
        /\ \A f \in m.is_upstream_set :
             f \in lan.is_upstream_set \/ (e.type = "WAN_UP_TETHER" /\ e.addr = f)
        /\ \A f \in lan.is_upstream_set :
             f \in m.is_upstream_set \/ (e.type = "WAN_DOWN_TETHER" /\ e.addr = f)
        /\ e.type = "WAN_DOWN_TETHER" => e.addr \notin m.is_upstream_set
        /\ e.type = "WAN_UP_TETHER" /\ e.addr \in lan.ip_type
             => e.addr \in m.is_upstream_set
        /\ \A g \in Fam : HasRule(lan, g)
             => \/ HasRule(m, g) \/ g \in m.is_upstream_set
                \/ e.type = "WAN_DOWN_TETHER" /\ e.addr = g
    <3>1. CASE e.type = "WAN_UP_TETHER"
      <4>1. e.addr \in Fam /\ e.is_sta \in BOOLEAN
        BY <1>2, <3>1, InternalKinds
      <4>2. m = WanUpTether(lan, e.addr, e.is_sta)
        BY <3>1 DEF LanReaction
      <4> HIDE DEF m
      <4>3. /\ LanOK(m) /\ m.is_active = lan.is_active /\ m.ip_type = lan.ip_type
            /\ m.is_upstream_set = lan.is_upstream_set \cup ({e.addr} \cap lan.ip_type)
            /\ \A g \in Fam : HasRule(lan, g) => HasRule(m, g)
        BY <2>1, <4>1, <4>2, WanUpTetherOK
      <4> QED
        BY <3>1, <4>3
    <3>2. CASE e.type = "WAN_DOWN_TETHER"
      <4>1. e.addr \in Fam /\ e.is_sta \in BOOLEAN
        BY <1>2, <3>2, InternalKinds
      <4>2. m = WanDownTether(lan, e.addr, e.is_sta)
        BY <3>2 DEF LanReaction
      <4> HIDE DEF m
      <4>3. /\ LanOK(m) /\ m.is_active = lan.is_active /\ m.ip_type = lan.ip_type
            /\ m.is_upstream_set = lan.is_upstream_set \ {e.addr}
            /\ \A g \in Fam \ {e.addr} : HasRule(lan, g) => HasRule(m, g)
        <5>1. PICK f \in Fam : f = e.addr
          BY <4>1
        <5>2. PICK sta \in BOOLEAN : sta = e.is_sta
          BY <4>1
        <5> DEFINE x == WanDownTether(lan, f, sta)
        <5>3. /\ LanOK(x) /\ x.is_active = lan.is_active /\ x.ip_type = lan.ip_type
              /\ x.is_upstream_set = lan.is_upstream_set \ {f}
              /\ \A g \in Fam : g # f /\ HasRule(lan, g) => HasRule(x, g)
          BY <2>1, WanDownTetherOK
        <5>4. m = x
          BY <4>2, <5>1, <5>2
        <5> HIDE DEF x
        <5> QED
          BY <5>1, <5>3, <5>4
      <4> QED
        BY <3>2, <4>3
    <3>3. CASE e.type = "DOWNSTREAM_ADD"
      <4>1. e.addr \in Fam
        BY <1>2, <3>3, InternalKinds
      <4>2. m = DownstreamAdd(lan, e.addr)
        BY <3>3 DEF LanReaction
      <4> HIDE DEF m
      <4>3. /\ LanOK(m) /\ m.is_active = lan.is_active /\ m.ip_type = lan.ip_type
            /\ m.is_upstream_set = lan.is_upstream_set
            /\ \A g \in Fam : HasRule(lan, g) => HasRule(m, g)
        BY <2>1, <2>2, <4>1, <4>2, DownstreamAddOK
      <4> QED
        BY <3>3, <4>3
    <3>4. CASE e.type = "DOWNSTREAM_DEL"
      <4>1. e.addr \in Fam
        BY <1>2, <3>4, InternalKinds
      <4>2. m = DownstreamDel(lan, e.addr)
        BY <3>4 DEF LanReaction
      <4> HIDE DEF m
      <4>3. /\ LanOK(m) /\ m.is_active = lan.is_active /\ m.ip_type = lan.ip_type
            /\ m.is_upstream_set = lan.is_upstream_set
            /\ \A g \in Fam : HasRule(lan, g) => HasRule(m, g) \/ g \in m.is_upstream_set
        BY <2>1, <2>2, <4>1, <4>2, DownstreamDelOK
      <4> QED
        BY <3>4, <4>3
    <3> QED
      BY <1>2, <1>8, <3>1, <3>2, <3>3, <3>4, InternalKinds
  <2> HIDE DEF m
  <2>4. m # Nil /\ (Alive' <=> Alive)
    BY <2>1, <2>3, NilAssumption DEF LanOK, Alive
  <2>5. Withdrawable'
    <3> SUFFICES ASSUME NEW f \in Fam
                 PROVE  \/ tethered[f] > 0
                        \/ /\ ~Has(q, "WAN_UP_TETHER", f)
                           /\ f \in m.is_upstream_set => Has(q, "WAN_DOWN_TETHER", f)
      BY <1>1, <1>6, <2>1 DEF Withdrawable
    <3>1. \/ tethered[f] > 0
          \/ /\ ~Pending("WAN_UP_TETHER", f)
             /\ f \in lan.is_upstream_set => Pending("WAN_DOWN_TETHER", f)
      BY <1>8 DEF CoreInv, Withdrawable
    <3>2. CASE ~Pending("WAN_UP_TETHER", f) /\ f \in m.is_upstream_set
      BY <1>2, <2>3, <3>1, <3>2
    <3>3. CASE ~Pending("WAN_UP_TETHER", f) /\ f \notin m.is_upstream_set
      BY <1>2, <3>3
    <3> QED
      BY <3>1, <3>2, <3>3
  <2>6. Known'
    <3> SUFFICES ASSUME "v4" \in m.ip_type, ClearUp(Current)
                 PROVE  \/ Has(q, "WAN_UP_TETHER", "v4")
                        \/ "v4" \in m.is_upstream_set \/ HasRule(m, "v4")
      BY <1>3, <1>6, <2>1 DEF Known
    <3>1. \/ Pending("WAN_UP_TETHER", "v4")
          \/ "v4" \in lan.is_upstream_set \/ HasRule(lan, "v4")
      BY <1>8, <2>3 DEF CoreInv, Known
    <3>2. ~Pending("WAN_DOWN_TETHER", "v4")
      BY DEF CoreInv, NoDownWhileUp, ClearUp, Current
    <3>3. ~(e.type = "WAN_DOWN_TETHER" /\ e.addr = "v4") /\ "v4" \in Fam
      BY <1>2, <3>2 DEF Fam
    <3> QED
      BY <1>2, <2>3, <3>1, <3>3
  <2> QED
    BY <1>4, <1>5, <2>1, <2>3, <2>5, <2>6 DEF CoreInv
<1> QED
  BY <1>7, <1>8

LEMMA DownstreamCore ==
  ASSUME CoreInv, NEW e \in InternalEvents,
         e.type \notin {"WAN_UP_TETHER", "WAN_DOWN_TETHER"},
         internal' = Append(internal, e),
         UNCHANGED <<wan, wan_up, backhaul_is_sta_mode, tethered, lan>>
  PROVE  CoreInv'
<1>1. /\ internal' \in Seq(InternalEvents)
      /\ \A t, f : Pending(t, f)' <=> Pending(t, f) \/ (e.type = t /\ e.addr = f)
  BY HasAppend DEF CoreInv, Pending
<1>2. /\ Current' = Current /\ (LtesClear(Current)' <=> LtesClear(Current))
      /\ (ClearUp(Current)' <=> ClearUp(Current)) /\ (Alive' <=> Alive)
  BY DEF Current, LtesClear, ClearUp, Clear, Alive
<1>3. NoDownWhileUp' /\ Withdrawable'
  BY <1>1, <1>2 DEF CoreInv, NoDownWhileUp, Withdrawable
<1>4. Known'
  BY <1>1, <1>2 DEF CoreInv, Known, HasRule
<1> QED
  BY <1>1, <1>2, <1>3, <1>4 DEF CoreInv

\* A LAN object that gets an address or is made
LEMMA LanCore ==
  ASSUME CoreInv, internal = <<>>, NEW m, LanOK(m), lan' = m,
         UNCHANGED <<internal, wan, wan_up, backhaul_is_sta_mode, tethered>>,
         \A f \in m.is_upstream_set : Alive /\ f \in lan.is_upstream_set,
         "v4" \in m.ip_type /\ isWanUP =>
           \/ HasRule(m, "v4")
           \/ /\ Alive /\ "v4" \in lan.ip_type
              /\ "v4" \in lan.is_upstream_set => "v4" \in m.is_upstream_set
              /\ HasRule(lan, "v4") => HasRule(m, "v4")
  PROVE  CoreInv'
<1>1. /\ Current' = Current /\ (LtesClear(Current)' <=> LtesClear(Current))
      /\ (ClearUp(Current)' <=> ClearUp(Current))
      /\ \A t, f : ~Pending(t, f) /\ ~Pending(t, f)'
  BY NoneHas DEF Current, LtesClear, ClearUp, Clear, Pending
<1>2. NoDownWhileUp' /\ Withdrawable'
  BY <1>1 DEF CoreInv, NoDownWhileUp, Withdrawable, Alive
<1>3. Known'
  <2>1. ClearUp(Current) => isWanUP
    BY DEF ClearUp, Current, isWanUP
  <2> QED
    BY <1>1, <2>1 DEF CoreInv, Known
<1> QED
  BY <1>1, <1>2, <1>3 DEF CoreInv

LEMMA LanDownCore ==
  ASSUME CoreInv, internal = <<>>, Alive, LanDown,
         UNCHANGED <<wan, wan_up, backhaul_is_sta_mode>>
  PROVE  CoreInv'
<1> DEFINE e == Event("LAN_DELETE_SELF", Lan, Nil)
<1>1. e \in InternalEvents /\ internal' = Append(internal, e) /\ e.type = "LAN_DELETE_SELF"
  BY DEF Event, InternalEvents, LanDown
<1> HIDE DEF e
<1>2. LanOK(lan) /\ backhaul_is_sta_mode \in BOOLEAN /\ tethered \in [Fam -> Nat]
  BY Typed DEF CoreInv, Alive
<1>3. LanOK(lan') /\ ~lan'.is_active /\ tethered' \in [Fam -> Nat]
  BY <1>2, LanDownOK
<1>4. /\ internal' \in Seq(InternalEvents)
      /\ \A t, f : Pending(t, f)' <=> Pending(t, f) \/ (e.type = t /\ e.addr = f)
  BY <1>1, HasAppend DEF CoreInv, Pending
<1>5. \A t, f : ~Pending(t, f)
  BY NoneHas DEF Pending
<1>6. Current' \in States /\ (LtesClear(Current)' <=> LtesClear(Current))
  BY <1>3 DEF CoreInv, Current, States, LtesClear
<1>7. NoDownWhileUp' /\ Withdrawable' /\ Known'
  BY <1>1, <1>3, <1>4, <1>5 DEF NoDownWhileUp, Withdrawable, Known, Alive
<1> QED
  BY <1>3, <1>4, <1>6, <1>7 DEF CoreInv

LEMMA CreateCore ==
  ASSUME CoreInv, internal = <<>>, NEW i \in Ifaces, CreateIface(i)
  PROVE  CoreInv'
<1>1. UNCHANGED <<internal, wan_up, backhaul_is_sta_mode, tethered>>
  BY DEF CreateIface, statics
<1>2. CASE i = Lan /\ lan = Nil
  <2>1. lan' = NewLan /\ wan' = wan
    BY <1>2 DEF CreateIface
  <2>2. LanOK(NewLan) /\ NewLan.is_upstream_set = {} /\ NewLan.ip_type = {}
    BY NewLanOK DEF NewLan
  <2> QED
    BY <1>1, <2>1, <2>2, LanCore
<1>3. CASE i = Lan /\ lan # Nil
  <2>1. lan' = lan /\ wan' = wan
    BY <1>3 DEF CreateIface
  <2> QED
    BY <1>1, <2>1 DEF CoreInv, Current, LtesClear, ClearUp, Clear, NoDownWhileUp,
                      Withdrawable, Known, Pending, Alive, HasRule
<1>4. CASE i # Lan
  <2>1. i \in Wans
    BY <1>4 DEF Ifaces
  <2> DEFINE W == [wan EXCEPT ![i] = IF @ = Nil THEN NewWan ELSE @]
             t == [Current EXCEPT !.wan = W]
  <2>2. lan' = lan /\ wan' = W
    BY <1>4 DEF CreateIface
  <2>3. wan \in [Wans -> WanObjects \cup {Nil}] /\ Current \in States
    BY Typed DEF CoreInv
  <2>4. /\ NewWan \in WanObjects /\ NewWan.active = {} /\ NewWan.header_partial = {}
    BY DEF NewWan, WanObjects
  <2>5. /\ W \in [Wans -> WanObjects \cup {Nil}]
        /\ \A j \in Wans : W[j] = wan[j] \/ (wan[j] = Nil /\ W[j] = NewWan)
    BY <2>1, <2>3, <2>4
  <2> HIDE DEF W
  <2>6. Current' \in States
    BY <1>1, <2>2, <2>3, <2>5 DEF Current, States
  <2>7. LtesClear(Current)'
    <3>1. \A j \in Ltes : wan'[j] = Nil \/ wan'[j].header_partial = {}
      BY <2>2, <2>4, <2>5 DEF CoreInv, LtesClear, Current, Wans
    <3> QED
      BY <3>1 DEF LtesClear, Current
  <2>8. ClearUp(Current)' => ClearUp(Current)
    <3>1. ClearUp(Current)' <=>
            /\ "v4" \in wan_up'
            /\ \A j \in Wans : \/ wan'[j] = Nil \/ "v4" \notin wan'[j].active
                               \/ wan'[j].header_partial = {}
      BY DEF ClearUp, Clear, Current
    <3>2. ClearUp(Current) <=>
            /\ "v4" \in wan_up
            /\ \A j \in Wans : \/ wan[j] = Nil \/ "v4" \notin wan[j].active
                               \/ wan[j].header_partial = {}
      BY DEF ClearUp, Clear, Current
    <3> QED
      BY <1>1, <2>2, <2>5, <3>1, <3>2
  <2>9. NoDownWhileUp' /\ Withdrawable' /\ Known'
    BY <1>1, <2>2, <2>8 DEF CoreInv, NoDownWhileUp, Withdrawable, Known, Pending, Alive,
                            HasRule
  <2> QED
    BY <1>1, <2>2, <2>6, <2>7, <2>9 DEF CoreInv
<1> QED
  BY <1>2, <1>3, <1>4

LEMMA StepCore ==
  ASSUME CoreInv, internal = <<>>, NEW i \in Wans, wan[i] # Nil, NEW t,
         Step(Current, t, i), WanChanges(t)
  PROVE  CoreInv'
<1>1. Start /\ Current.wan = wan
  BY Typed DEF CoreInv, Current
<1>2. Move(Current, t)
  BY <1>1, StepMove DEF Start
<1> QED
  BY <1>2, MoveCore DEF WanChanges

LEMMA WanEventCore ==
  ASSUME CoreInv, internal = <<>>, NEW e \in ExternalEvents, e.iface \in Wans,
         wan[e.iface] # Nil, WanEvent(e)
  PROVE  CoreInv'
<1>1. PICK i \in Wans : i = e.iface
  OBVIOUS
<1>2. Start /\ Current \in States /\ Current.wan = wan /\ Current.posts = <<>>
  BY Typed DEF CoreInv, Current
<1>3. wan[i] # Nil /\ Current.wan[i] \in WanObjects
  BY <1>1, <1>2 DEF States
<1>4. CASE e.type = "LINK_DOWN" /\ DeleteWan(i)
  <2>1. PICK t : Move(Current, t) /\ Becomes(t) /\ lan' = lan
    BY <1>2, <1>3, <1>4, DeleteWanMove DEF CoreInv
  <2> QED
    BY <2>1, MoveCore
<1>5. CASE e.type = "ADDR_ADD" /\ WanChanges(WanAddrAdd(Current, i, e.addr))
  <2>1. PICK a \in Addresses : a = e.addr
    BY <1>5, ExternalKinds
  <2> DEFINE t == WanAddrAdd(Current, i, a)
  <2>2. Step(Current, t, i) /\ WanChanges(t)
    BY <1>2, <1>3, <1>5, <2>1, AddrStep
  <2> HIDE DEF t
  <2> QED
    BY <1>3, <2>2, StepCore
<1>6. CASE e.type = "NEW_NEIGH" /\ WanChanges(NewNeighbor(Current, i, e.addr))
  <2>1. PICK a \in Fam : a = e.addr
    BY <1>6, ExternalKinds
  <2> DEFINE t == NewNeighbor(Current, i, a)
  <2>2. Step(Current, t, i) /\ WanChanges(t)
    BY <1>2, <1>3, <1>6, <2>1, NeighborStep
  <2> HIDE DEF t
  <2> QED
    BY <1>3, <2>2, StepCore
<1>7. CASE e.type = "ROUTE_DEL" /\ WanChanges(OwnRouteDel(Current, i, e.addr))
  <2>1. PICK a \in Fam : a = e.addr
    BY <1>7, ExternalKinds
  <2> DEFINE t == OwnRouteDel(Current, i, a)
  <2>2. Move(Current, t) /\ WanChanges(t)
    BY <1>2, <1>3, <1>7, <2>1, OwnRouteDelMove
  <2> HIDE DEF t
  <2> QED
    BY <2>2, MoveCore DEF WanChanges
<1> QED
  BY <1>1, <1>4, <1>5, <1>6, <1>7 DEF WanEvent

LEMMA IgnoredCore == ASSUME CoreInv, Ignored PROVE CoreInv'
BY DEF CoreInv, Ignored, statics, Current, LtesClear, ClearUp, Clear, NoDownWhileUp,
       Withdrawable, Known, Pending, Alive, HasRule

LEMMA ExternalCore ==
  ASSUME CoreInv, external \in Seq(ExternalEvents), External
  PROVE  CoreInv'
<1> DEFINE e == Head(external)
<1>1. internal = <<>> /\ e \in ExternalEvents /\ HandleExternal(e)
  BY HeadTailProperties, EmptySeq DEF External
<1> HIDE DEF e
<1>2. CASE e.type = "LINK_UP" /\ CreateIface(e.iface)
  <2>1. e.iface \in Ifaces
    BY <1>1, <1>2, ExternalKinds
  <2> QED
    BY <1>1, <1>2, <2>1, CreateCore
<1>3. CASE e.type = "ROUTE_ADD" /\ RouteAdd(e.iface, e.addr)
  <2>1. e.iface \in Wans /\ e.addr \in Fam
    BY <1>1, <1>3, ExternalKinds
  <2>2. Start
    BY <1>1, Typed DEF CoreInv
  <2>3. PICK t : Move(Current, t) /\ WanChanges(t)
    BY <1>3, <2>1, <2>2, RouteAddMove
  <2> QED
    BY <1>1, <2>3, MoveCore DEF WanChanges
<1>4. CASE /\ e.iface \in Wans
           /\ IF wan[e.iface] = Nil THEN Ignored ELSE WanEvent(e)
  BY <1>1, <1>4, IgnoredCore, WanEventCore
<1>5. CASE IF Alive THEN LanDown /\ UNCHANGED <<wan, order, wan_up, backhaul_is_sta_mode>>
           ELSE Ignored
  BY <1>1, <1>5, IgnoredCore, LanDownCore
<1>6. CASE /\ e.type = "ADDR_ADD" /\ e.iface = Lan
           /\ IF Alive THEN LanChanges(LanAddrAdd(lan, FamOf(e.addr))) ELSE Ignored
  <2>1. FamOf(e.addr) \in Fam
    BY <1>1, <1>6, ExternalKinds DEF FamOf, Fam, Addresses
  <2>2. PICK f \in Fam : f = FamOf(e.addr)
    BY <2>1
  <2>3. CASE Alive
    <3>1. LanOK(lan) /\ backhaul_is_sta_mode \in BOOLEAN /\ "v4" \in Fam
      BY <2>3, Typed DEF CoreInv, Alive, Fam
    <3> DEFINE m == LanAddrAdd(lan, f)
    <3>2. /\ LanOK(m) /\ m.is_active = lan.is_active
          /\ m.is_upstream_set = lan.is_upstream_set
          /\ \A g \in Fam : HasRule(lan, g) => HasRule(m, g)
          /\ "v4" \in m.ip_type /\ isWanUP => "v4" \in lan.ip_type \/ HasRule(m, "v4")
      BY <3>1, LanAddrAddOK
    <3>3. lan' = m /\ UNCHANGED <<internal, wan, wan_up, backhaul_is_sta_mode, tethered>>
      BY <1>6, <2>2, <2>3 DEF LanChanges, statics
    <3> HIDE DEF m
    <3> QED
      BY <1>1, <2>3, <3>1, <3>2, <3>3, LanCore
  <2>4. CASE ~Alive
    BY <1>6, <2>4, IgnoredCore
  <2> QED
    BY <2>3, <2>4
<1> QED
  BY <1>1, <1>2, <1>3, <1>4, <1>5, <1>6 DEF HandleExternal

-----------------------------------------------------------------------------
(* The rest of the state, and the theorems *)

EnvInv ==
  /\ link \subseteq Ifaces /\ addrs \in [Ifaces -> SUBSET Addresses]
  /\ neigh \in [Stas -> SUBSET Fam] /\ changes \in 0..MaxChanges
  /\ default_gw_index \in Wans \cup {Nil} /\ upstream_up \subseteq Fam
  /\ rpc \in Seq(RouteEvents) /\ external \in Seq(ExternalEvents)
  /\ order \subseteq Wans \X Wans

IInv == EnvInv /\ CoreInv

LEMMA InitIInv == Init => IInv
<1> SUFFICES ASSUME Init PROVE IInv
  OBVIOUS
<1>1. EnvInv
  BY TetherAssumption DEF Init, EnvInv
<1>2. Current \in States
  <2>1. /\ wan \in [Wans -> WanObjects \cup {Nil}] /\ wan_up \in SUBSET Fam
        /\ backhaul_is_sta_mode \in BOOLEAN /\ tethered \in [Fam -> Nat]
    BY DEF Init
  <2> QED
    BY <2>1 DEF Current, States
<1>4. LtesClear(Current)
  BY DEF Init, Current, LtesClear, Wans
<1>3. NoDownWhileUp /\ Withdrawable /\ Known
  BY NoneHas DEF Init, NoDownWhileUp, Withdrawable, Known, Pending, Alive
<1> QED
  BY <1>1, <1>2, <1>3, <1>4 DEF Init, IInv, CoreInv

LEMMA SameCore == ASSUME CoreInv, UNCHANGED core PROVE CoreInv'
BY DEF core, CoreInv, Current, LtesClear, ClearUp, Clear, NoDownWhileUp,
       Withdrawable, Known, Pending, Alive, HasRule

LEMMA Posts ==
  ASSUME NEW S, NEW q \in Seq(S), NEW e \in S
  PROVE  Append(q, e) \in Seq(S)
OBVIOUS

LEMMA EnvEvents ==
  /\ \A i \in Ifaces, t \in {"LINK_UP", "LINK_DOWN"} : Event(t, i, Nil) \in ExternalEvents
  /\ \A i \in Ifaces, a \in Addresses : Event("ADDR_ADD", i, a) \in ExternalEvents
  /\ \A i \in Stas, f \in Fam : Event("NEW_NEIGH", i, f) \in ExternalEvents
  /\ \A i \in Wans, f \in Fam, t \in {"ROUTE_ADD", "ROUTE_DEL"} :
       Event(t, i, f) \in RouteEvents /\ Event(t, i, f) \in ExternalEvents
BY DEF Event, ExternalEvents, RouteEvents

LEMMA EnvStep ==
  ASSUME IInv, NEW i \in Ifaces,
         \/ LinkUp(i) \/ LinkDown(i) \/ \E a \in Kinds[i] : NewAddr(i, a)
         \/ i \in Stas /\ \E a \in Fam : NewNeigh(i, a)
  PROVE  IInv'
<1>1. PICK e : PostEvt(e) /\ e \in ExternalEvents
  BY EnvEvents, TetherAssumption DEF LinkUp, LinkDown, NewAddr, NewNeigh
<1>2. UNCHANGED core /\ UNCHANGED manager /\ UNCHANGED <<rpc, order>>
  BY <1>1 DEF PostEvt, core, statics
<1>3. external' \in Seq(ExternalEvents)
  BY <1>1, Posts DEF PostEvt, IInv, EnvInv
<1>4. /\ link' \subseteq Ifaces /\ addrs' \in [Ifaces -> SUBSET Addresses]
      /\ neigh' \in [Stas -> SUBSET Fam] /\ changes' \in 0..MaxChanges
  <2>1. CASE LinkUp(i)
    BY <2>1 DEF LinkUp, IInv, EnvInv
  <2>2. CASE LinkDown(i)
    <3>1. changes' \in 0..MaxChanges
      BY <2>2, TetherAssumption DEF LinkDown, Change, IInv, EnvInv
    <3> QED
      BY <2>2, <3>1 DEF LinkDown, IInv, EnvInv
  <2>3. CASE \E a \in Kinds[i] : NewAddr(i, a)
    <3>1. PICK a \in Kinds[i] : NewAddr(i, a)
      BY <2>3
    <3>2. a \in Addresses
      BY TetherAssumption
    <3>3. addrs' = [addrs EXCEPT ![i] = @ \cup {a}] /\ UNCHANGED <<link, neigh, changes>>
      BY <3>1 DEF NewAddr
    <3> QED
      BY <3>2, <3>3 DEF IInv, EnvInv
  <2>4. CASE i \in Stas /\ \E a \in Fam : NewNeigh(i, a)
    BY <2>4 DEF NewNeigh, IInv, EnvInv
  <2> QED
    BY <2>1, <2>2, <2>3, <2>4
<1>5. EnvInv'
  BY <1>2, <1>3, <1>4 DEF IInv, EnvInv, manager
<1>6. CoreInv'
  BY <1>2, SameCore DEF IInv
<1> QED
  BY <1>5, <1>6 DEF IInv

LEMMA RoutesTyped ==
  ASSUME NEW i \in Wans, NEW t \in {"ROUTE_ADD", "ROUTE_DEL"}, NEW F
  PROVE  Routes(t, i, F) \in Seq(RouteEvents)
<1>1. \A f \in Fam : Route(t, i, f, F) \in Seq(RouteEvents)
  BY EnvEvents DEF Route
<1> QED
  BY <1>1, ConcatProperties DEF Routes, Fam

LEMMA ManagerStep ==
  ASSUME IInv,
         \/ \E i \in Wans, F \in SUBSET Fam : setUpstream(i, F)
         \/ PostRoute
         \/ \E f \in Fam : addDownstream(f) \/ removeDownstream(f)
  PROVE  IInv'
<1>1. CASE \E i \in Wans, F \in SUBSET Fam : setUpstream(i, F)
  <2>1. PICK i \in Wans, F \in SUBSET Fam : setUpstream(i, F)
    BY <1>1
  <2> DEFINE dropped == IF F = {} \/ default_gw_index = Nil THEN {} ELSE upstream_up \ F
             D == Routes("ROUTE_DEL", default_gw_index, dropped)
             A == Routes("ROUTE_ADD", i, F \ upstream_up)
  <2>2. rpc' = D \o A
    BY <2>1 DEF setUpstream
  <2>3. D \in Seq(RouteEvents)
    <3>1. CASE default_gw_index = Nil
      <4>1. dropped = {}
        BY <3>1
      <4>2. D = <<>> \o <<>>
        BY <4>1 DEF Routes, Route
      <4>3. <<>> \in Seq(RouteEvents)
        OBVIOUS
      <4> QED
        BY <4>2, <4>3, ConcatProperties
    <3>2. CASE default_gw_index # Nil
      <4>1. default_gw_index \in Wans
        BY <3>2 DEF IInv, EnvInv
      <4> QED
        BY <4>1, RoutesTyped
    <3> QED
      BY <3>1, <3>2
  <2>4. A \in Seq(RouteEvents)
    BY RoutesTyped
  <2> HIDE DEF D, A
  <2>5. rpc' \in Seq(RouteEvents)
    BY <2>2, <2>3, <2>4, ConcatProperties
  <2>6. changes' \in 0..MaxChanges
    BY <2>1, TetherAssumption DEF setUpstream, Change, IInv, EnvInv
  <2>7. UNCHANGED core /\ UNCHANGED <<link, addrs, neigh, external, order>>
    BY <2>1 DEF setUpstream, core, statics
  <2>8. default_gw_index' \in Wans /\ upstream_up' \subseteq Fam
    BY <2>1 DEF setUpstream, IInv, EnvInv
  <2> QED
    BY <2>5, <2>6, <2>7, <2>8, SameCore DEF IInv, EnvInv
<1>2. CASE PostRoute
  <2>1. Head(rpc) \in RouteEvents /\ Tail(rpc) \in Seq(RouteEvents)
    BY <1>2, HeadTailProperties, EmptySeq DEF PostRoute, IInv, EnvInv
  <2>2. Head(rpc) \in ExternalEvents
    BY <2>1 DEF ExternalEvents
  <2>3. external' \in Seq(ExternalEvents) /\ rpc' \in Seq(RouteEvents)
    BY <1>2, <2>1, <2>2, Posts DEF PostRoute, IInv, EnvInv
  <2>4. UNCHANGED core /\ UNCHANGED env /\ UNCHANGED manager /\ order' = order
    BY <1>2 DEF PostRoute, core, statics
  <2> QED
    BY <2>3, <2>4, SameCore DEF IInv, EnvInv, env, manager
<1>3. CASE \E f \in Fam : addDownstream(f) \/ removeDownstream(f)
  <2>1. PICK f \in Fam, t \in {"DOWNSTREAM_ADD", "DOWNSTREAM_DEL"} : PostDownstream(t, f)
    BY <1>3 DEF addDownstream, removeDownstream
  <2> DEFINE e == Event(t, Lan, f)
  <2>2. e \in InternalEvents /\ e.type \notin {"WAN_UP_TETHER", "WAN_DOWN_TETHER"}
    BY DEF Event, InternalEvents
  <2>3. internal' = Append(internal, e)
    BY <2>1 DEF PostDownstream
  <2> HIDE DEF e
  <2>4. /\ UNCHANGED <<wan, wan_up, backhaul_is_sta_mode, tethered, lan>>
        /\ UNCHANGED <<link, addrs, neigh, default_gw_index, upstream_up, rpc, external, order>>
    BY <2>1 DEF PostDownstream, statics, manager
  <2>5. changes' \in 0..MaxChanges
    BY <2>1, TetherAssumption DEF PostDownstream, Change, IInv, EnvInv
  <2>6. CoreInv'
    BY <2>2, <2>3, <2>4, DownstreamCore DEF IInv
  <2> QED
    BY <2>4, <2>5, <2>6 DEF IInv, EnvInv
<1> QED
  BY <1>1, <1>2, <1>3

LEMMA OrderStep ==
  ASSUME EnvInv, External
  PROVE  order' \subseteq Wans \X Wans
<1> DEFINE e == Head(external)
<1>1. e \in ExternalEvents /\ HandleExternal(e)
  BY HeadTailProperties, EmptySeq DEF EnvInv, External
<1> HIDE DEF e
<1>2. \/ order' = order
      \/ e.type = "LINK_UP" /\ CreateIface(e.iface)
      \/ e.iface \in Wans /\ DeleteWan(e.iface)
  BY <1>1 DEF HandleExternal, RouteAdd, WanChanges, WanEvent, LanChanges, Ignored
<1>3. CASE e.type = "LINK_UP" /\ CreateIface(e.iface)
  <2>1. e.iface \in Ifaces
    BY <1>1, <1>3, ExternalKinds
  <2>2. CASE e.iface = Lan
    BY <1>3, <2>2 DEF CreateIface, EnvInv
  <2>3. CASE e.iface # Lan
    <3>1. e.iface \in Wans
      BY <2>1, <2>3 DEF Ifaces
    <3> QED
      BY <1>3, <2>3, <3>1 DEF CreateIface, EnvInv
  <2> QED
    BY <2>2, <2>3
<1>4. CASE e.iface \in Wans /\ DeleteWan(e.iface)
  BY <1>4 DEF DeleteWan, EnvInv
<1> QED
  BY <1>2, <1>3, <1>4 DEF EnvInv

LEMMA EventStep == ASSUME IInv, Internal \/ External PROVE IInv'
<1>1. CASE Internal
  <2>1. CoreInv'
    BY <1>1, InternalCore DEF IInv
  <2>2. EnvInv'
    BY <1>1 DEF Internal, IInv, EnvInv, env, manager
  <2> QED
    BY <2>1, <2>2 DEF IInv
<1>2. CASE External
  <2>1. CoreInv'
    BY <1>2, ExternalCore DEF IInv, EnvInv
  <2>2. external' \in Seq(ExternalEvents)
    BY <1>2, HeadTailProperties, EmptySeq DEF External, IInv, EnvInv
  <2>3. UNCHANGED <<link, addrs, neigh, changes, default_gw_index, upstream_up, rpc>>
    BY <1>2 DEF External, env, manager
  <2>4. EnvInv'
    BY <1>2, <2>2, <2>3, OrderStep DEF IInv, EnvInv
  <2> QED
    BY <2>1, <2>4 DEF IInv
<1> QED
  BY <1>1, <1>2

\* Nothing a driver, the framework or the event thread does in one step breaks
\* the invariant: the rules of the LAN object fit its flags, and every pending
\* event stands for what the LAN object has not been told.
THEOREM Inductive == Spec => []IInv
<1>1. IInv /\ [Next]_vars => IInv'
  <2> SUFFICES ASSUME IInv, [Next]_vars PROVE IInv'
    OBVIOUS
  <2>1. CASE UNCHANGED vars
    BY <2>1, SameCore DEF vars, env, manager, statics, core, IInv, EnvInv
  <2>2. CASE Next
    <3>1. ASSUME NEW i \in Ifaces,
                 LinkUp(i) \/ LinkDown(i) \/ \E a \in Kinds[i] : NewAddr(i, a)
          PROVE  IInv'
      BY <3>1, EnvStep
    <3>2. ASSUME NEW i \in Stas, NEW f \in Fam, NewNeigh(i, f) PROVE IInv'
      <4>1. i \in Ifaces
        BY DEF Ifaces, Wans
      <4> QED
        BY <3>2, <4>1, EnvStep
    <3> QED
      BY <2>2, <3>1, <3>2, ManagerStep, EventStep DEF Next
  <2> QED
    BY <2>1, <2>2
<1> QED
  BY <1>1, InitIInv, PTL DEF Spec

\* Interfaces, objects, queues and rules are well formed.
THEOREM TypeCorrect == Spec => []TypeOK
<1>1. IInv => TypeOK
  BY Typed DEF IInv, EnvInv, CoreInv, LanOK, TypeOK
<1> QED
  BY <1>1, Inductive, PTL

\* IPACM_Lan::handle_wan_up, handle_wan_up_ex, handle_wan_down: whatever the
\* order of addresses, upstreams and downstreams, an uplink rule of the LAN
\* object is in the kernel at most once and its flag says so.
THEOREM RulesAreExact == Spec => []RulesExact
<1>1. IInv => RulesExact
  BY DEF IInv, CoreInv, LanOK, Exact, RulesExact
<1> QED
  BY <1>1, Inductive, PTL

\* IPACM_Lan: an object that knows of an upstream and a downstream of a family
\* has a rule for it.
THEOREM UpstreamAndDownstream == Spec => []BothMeansRule
<1>1. IInv => BothMeansRule
  BY DEF IInv, CoreInv, LanOK, Both, HasRule, Alive, BothMeansRule
<1> QED
  BY <1>1, Inductive, PTL

\* IPACM_Wan::post_wan_down_tether_evt posts only for an entry of its list:
\* there is one for every upstream the LAN object knows of, or the event has
\* been posted.
THEOREM AlwaysWithdrawable == Spec => []CanBeWithdrawn
<1>1. IInv => CanBeWithdrawn
  <2> SUFFICES ASSUME IInv, Alive, NEW f \in lan.is_upstream_set
               PROVE  \/ tethered[f] > 0
                      \/ \E n \in DOMAIN internal :
                           internal[n].type = "WAN_DOWN_TETHER" /\ internal[n].addr = f
    BY DEF CanBeWithdrawn
  <2>1. f \in Fam
    BY DEF IInv, CoreInv, LanOK, LanObjects, Alive
  <2> QED
    BY <2>1 DEF IInv, CoreInv, Withdrawable, Pending, Has
<1> QED
  BY <1>1, Inductive, PTL

\* The promise of setUpstream: with all events handled, a LAN with an IPv4
\* address and a downstream has a rule while an IPv4 upstream is up.
THEOREM NoDownstreamForgotten == Spec => []NoneForgotten
<1>1. IInv => NoneForgotten
  <2> SUFFICES ASSUME IInv, Quiet, isWanUP, Alive,
                      "v4" \in lan.ip_type \cap lan.is_downstream_set,
                      \A i \in Wans : \/ wan[i] = Nil \/ "v4" \notin wan[i].active
                                      \/ wan[i].header_partial = {}
               PROVE  "v4" \in lan.sta_ul_set \cup lan.modem_ul_set
    BY DEF NoneForgotten
  <2>1. ClearUp(Current)
    BY DEF ClearUp, Clear, Current, isWanUP
  <2>2. ~Pending("WAN_UP_TETHER", "v4")
    BY NoneHas DEF Quiet, Pending
  <2>3. "v4" \in lan.is_upstream_set \/ HasRule(lan, "v4")
    BY <2>1, <2>2 DEF IInv, CoreInv, Known
  <2>4. "v4" \in lan.is_upstream_set => HasRule(lan, "v4")
    BY DEF IInv, CoreInv, LanOK, Both, Alive
  <2> QED
    BY <2>3, <2>4 DEF HasRule
<1> QED
  BY <1>1, Inductive, PTL
=============================================================================
