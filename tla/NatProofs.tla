----------------------------- MODULE NatProofs -----------------------------
(***************************************************************************)
(* Safety of the two NAT modules.  NatApp: for any clients, public         *)
(* addresses and connections and for caches of any size.  NatTable: for    *)
(* tables of any size, any rules and any hashes of theirs.                 *)
(***************************************************************************)
EXTENDS NatApp, NatTable, FiniteSetTheorems, SequenceTheorems, WellFoundedInduction, TLAPS

-----------------------------------------------------------------------------
(* NatApp                                                                    *)

\* What every operation keeps of the cache and the hardware table: the table is
\* that of the enabled entries and of the failed deletions, handles and rules
\* are unique, and curCnt counts.  The handle of a failed deletion is still in
\* use, so that an entry added later cannot be taken for it.
SoundTable(n) ==
  /\ n.hw = Enabled(n) \cup n.lost
  /\ n.lost \cap n.cache = {}
  /\ \A e \in n.lost : e.hdl # None
  /\ \A d, e \in n.hw : d.hdl = e.hdl => d = e
SoundCache(n) ==
  /\ \A d, e \in n.cache : d.rule = e.rule => d = e
  /\ IsFiniteSet(n.cache) /\ n.count = Cardinality(n.cache)
Sound(n) ==
  /\ n \in [cache : SUBSET Entries, count : Int,
            hw : SUBSET Entries, lost : SUBSET Entries]
  /\ SoundTable(n) /\ SoundCache(n)

\* The cache and the table after entries new were added, in place of entries old
\* or not, and after the rules of entries out were taken out of the table.
Adding(n, old, new) ==
  [n EXCEPT !.cache = (@ \ old) \cup new, !.hw = @ \cup new,
            !.count = n.count - Cardinality(old) + Cardinality(new)]
Entering(n, new) ==
  [n EXCEPT !.cache = @ \cup new, !.hw = @ \cup new, !.count = @ + Cardinality(new)]
Disabling(n, out) == [n EXCEPT !.cache = OutOfTable(n, out), !.hw = @ \ out]

\* Entries old may be replaced by others for the given rules.
Replaced(n, old, rules) ==
  /\ old \in SUBSET n.cache /\ \A e \in old : e.hdl = None
  /\ \A e \in n.cache \ old : e.rule \notin rules

-----------------------------------------------------------------------------
\* Entries as records.
LEMMA EntryFacts ==
  ASSUME NEW e \in Entries
  PROVE  /\ [e EXCEPT !.hdl = None] = [rule |-> e.rule, hdl |-> None]
         /\ [e EXCEPT !.hdl = None] \in Entries
         /\ e = [rule |-> e.rule, hdl |-> e.hdl]
         /\ e.rule \in Rules /\ e.hdl \in Handles \cup {None}
BY DEF Entries

\* Disabling entries with different rules keeps their number.
LEMMA DisabledFacts ==
  ASSUME NEW S \in SUBSET Entries, \A d, e \in S : d.rule = e.rule => d = e
  PROVE  /\ Disabled(S) \in SUBSET Entries
         /\ \A e \in Disabled(S) : e.hdl = None /\ e.rule \in RulesOf(S)
         /\ RulesOf(Disabled(S)) = RulesOf(S)
         /\ \A d, e \in Disabled(S) : d.rule = e.rule => d = e
         /\ IsFiniteSet(S) => /\ IsFiniteSet(Disabled(S))
                              /\ Cardinality(Disabled(S)) = Cardinality(S)
<1>1. \A e \in Disabled(S) : \E d \in S :
         e = [rule |-> d.rule, hdl |-> None] /\ e \in Entries
  <2> SUFFICES ASSUME NEW e \in Disabled(S)
               PROVE  \E d \in S :
                         e = [rule |-> d.rule, hdl |-> None] /\ e \in Entries
    OBVIOUS
  <2>1. PICK d \in S : e = [d EXCEPT !.hdl = None]
    BY DEF Disabled
  <2>2. [d EXCEPT !.hdl = None] \in Entries
        /\ [d EXCEPT !.hdl = None] = [rule |-> d.rule, hdl |-> None]
    BY EntryFacts
  <2> QED
    BY <2>1, <2>2
<1>2. \A d \in S : [rule |-> d.rule, hdl |-> None] \in Disabled(S)
  BY EntryFacts DEF Disabled
<1>3. \A e \in Disabled(S) : e.hdl = None /\ e.rule \in RulesOf(S) /\ e \in Entries
  BY <1>1 DEF RulesOf
<1>4. RulesOf(Disabled(S)) = RulesOf(S)
  <2>1. RulesOf(Disabled(S)) \subseteq RulesOf(S)
    BY <1>3 DEF RulesOf
  <2>2. ASSUME NEW d \in S PROVE d.rule \in RulesOf(Disabled(S))
    <3>1. [rule |-> d.rule, hdl |-> None].rule = d.rule
      OBVIOUS
    <3> QED
      BY <1>2, <3>1 DEF RulesOf
  <2> QED
    BY <2>1, <2>2 DEF RulesOf
<1>5. \A d, e \in Disabled(S) : d.rule = e.rule => d = e
  BY <1>1
<1>6. ASSUME IsFiniteSet(S)
      PROVE  /\ IsFiniteSet(Disabled(S))
             /\ Cardinality(Disabled(S)) = Cardinality(S)
  <2> DEFINE f == [e \in S |-> [e EXCEPT !.hdl = None]]
  <2>1. \A e \in S : f[e] = [rule |-> e.rule, hdl |-> None]
    BY EntryFacts
  <2>2. \A d, e \in S : f[d] = f[e] => d.rule = e.rule
    <3> SUFFICES ASSUME NEW d \in S, NEW e \in S, f[d] = f[e]
                 PROVE  d.rule = e.rule
      OBVIOUS
    <3>1. [rule |-> d.rule, hdl |-> None] = [rule |-> e.rule, hdl |-> None]
      BY <2>1
    <3> HIDE DEF f
    <3> QED
      BY <3>1
  <2>3. f \in [S -> Disabled(S)] /\ \A e \in Disabled(S) : \E d \in S : f[d] = e
    BY DEF Disabled
  <2>4. f \in Surjection(S, Disabled(S)) /\ f \in Injection(S, Disabled(S))
    <3> HIDE DEF f
    <3> QED
      BY <2>2, <2>3 DEF Surjection, Injection, IsInjective
  <2> QED
    BY <1>6, <2>4, FS_Surjection
<1> QED
  BY <1>1, <1>3, <1>4, <1>5, <1>6

\* The entries that result from adding rules: each has a handle that was free,
\* and there is at most one for each rule.
LEMMA AddedFacts ==
  ASSUME NEW n, NEW rules \in SUBSET Rules, IsFiniteSet(rules), NEW ip,
         NEW new \in Added(n, rules, ip)
  PROVE  /\ new \in SUBSET Entries
         /\ \A e \in new : /\ e.rule \in rules /\ e.hdl # None
                           /\ e.hdl \in Handles /\ \A d \in n.hw : d.hdl # e.hdl
         /\ \A d, e \in new : d.rule = e.rule \/ d.hdl = e.hdl => d = e
         /\ IsFiniteSet(new) /\ Cardinality(new) <= Cardinality(rules)
         /\ ip = None => new = {}
<1>1. CASE ip = None
  <2>1. new = {}
    BY <1>1 DEF Added
  <2> QED
    BY <2>1, FS_EmptySet, FS_CardinalityType
<1>2. CASE ip # None
  <2>1. PICK part \in SUBSET rules :
           \E h \in Injection(part, FreeHandles(n)) :
              new = {[rule |-> r, hdl |-> h[r]] : r \in part}
    BY <1>2 DEF Added
  <2>h. PICK h \in Injection(part, FreeHandles(n)) :
           new = {[rule |-> r, hdl |-> h[r]] : r \in part}
    BY <2>1
  <2>2. /\ h \in [part -> FreeHandles(n)]
        /\ \A a, b \in part : h[a] = h[b] => a = b
    BY <2>h DEF Injection, IsInjective
  <2>3. \A e \in new : \E r \in part :
           e = [rule |-> r, hdl |-> h[r]] /\ h[r] \in FreeHandles(n)
    BY <2>h, <2>2
  <2>4. \A e \in new : /\ e.rule \in part /\ e.hdl \in FreeHandles(n)
                       /\ e.hdl = h[e.rule] /\ e = [rule |-> e.rule, hdl |-> e.hdl]
    BY <2>3
  <2>5. \A x \in FreeHandles(n) : x \in Handles /\ x # None /\ \A d \in n.hw : d.hdl # x
    BY NatAppAssumption DEF FreeHandles
  <2>6. \A d, e \in new : d.rule = e.rule \/ d.hdl = e.hdl => d = e
    BY <2>2, <2>4
  <2>7. new \in SUBSET Entries
    BY <2>1, <2>4, <2>5 DEF Entries
  <2>8. IsFiniteSet(new) /\ Cardinality(new) <= Cardinality(rules)
    <3> DEFINE f == [r \in part |-> [rule |-> r, hdl |-> h[r]]]
    <3>1. f \in Surjection(part, new)
      BY <2>h DEF Surjection
    <3>2. IsFiniteSet(part) /\ Cardinality(part) <= Cardinality(rules)
      BY <2>1, FS_Subset
    <3>3. IsFiniteSet(new) /\ Cardinality(new) <= Cardinality(part)
      BY <3>1, <3>2, FS_Surjection
    <3>4. Cardinality(new) \in Nat /\ Cardinality(part) \in Nat
      BY <3>2, <3>3, FS_CardinalityType
    <3>5. Cardinality(rules) \in Nat
      BY FS_CardinalityType
    <3> HIDE DEF f
    <3> QED
      BY <3>2, <3>3, <3>4, <3>5
  <2> QED
    BY <1>2, <2>1, <2>4, <2>5, <2>6, <2>7, <2>8
<1> QED
  BY <1>1, <1>2

\* A finite set without a part of it.
LEMMA PartFacts ==
  ASSUME NEW S, IsFiniteSet(S), NEW T \in SUBSET S
  PROVE  /\ IsFiniteSet(T) /\ IsFiniteSet(S \ T)
         /\ Cardinality(S \ T) = Cardinality(S) - Cardinality(T)
         /\ Cardinality(S) \in Nat /\ Cardinality(T) \in Nat
<1>1. S \cap T = T
  OBVIOUS
<1>2. Cardinality(S \ T) = Cardinality(S) - Cardinality(S \cap T)
  BY FS_Difference
<1>3. Cardinality(S \ T) = Cardinality(S) - Cardinality(T)
  BY <1>1, <1>2, Zenon
<1>4. IsFiniteSet(T) /\ IsFiniteSet(S \ T)
  BY FS_Subset, FS_Difference
<1> QED
  BY <1>3, <1>4, FS_CardinalityType

\* Two finite sets without a common member.
LEMMA DisjointFacts ==
  ASSUME NEW S, IsFiniteSet(S), NEW T, IsFiniteSet(T), S \cap T = {}
  PROVE  IsFiniteSet(S \cup T) /\ Cardinality(S \cup T) = Cardinality(S) + Cardinality(T)
<1>1. /\ IsFiniteSet(S \cup T)
      /\ Cardinality(S \cup T) = Cardinality(S) + Cardinality(T) - Cardinality(S \cap T)
  BY FS_Union
<1>2. Cardinality(S \cap T) = 0
  BY FS_EmptySet, Zenon
<1>3. Cardinality(S) \in Nat /\ Cardinality(T) \in Nat
  BY FS_CardinalityType
<1> QED
  BY <1>1, <1>2, <1>3

\* Adding rules, in place of disabled entries: the new entries are told from
\* those that stay by their rules, and from the failed deletions by their handles.
LEMMA AddKeepsSound ==
  ASSUME NEW n, Sound(n), NEW rules \in SUBSET Rules, IsFiniteSet(rules),
         NEW old, Replaced(n, old, rules), NEW ip, NEW new \in Added(n, rules, ip)
  PROVE  /\ Sound(Adding(n, old, new))
         /\ Adding(n, old, new).cache = (n.cache \ old) \cup new
         /\ Adding(n, old, new).hw = n.hw \cup new
<1> DEFINE m == Adding(n, old, new)
<1>r. /\ old \in SUBSET n.cache /\ \A e \in old : e.hdl = None
      /\ \A e \in n.cache \ old : e.rule \notin rules
  BY DEF Replaced
<1>0. m = [n EXCEPT !.cache = (@ \ old) \cup new, !.hw = @ \cup new,
                    !.count = n.count - Cardinality(old) + Cardinality(new)]
  BY DEF Adding
<1> HIDE DEF m
<1>1. /\ new \in SUBSET Entries
      /\ \A e \in new : /\ e.rule \in rules /\ e.hdl # None
                        /\ e.hdl \in Handles /\ \A d \in n.hw : d.hdl # e.hdl
      /\ \A d, e \in new : d.rule = e.rule \/ d.hdl = e.hdl => d = e
      /\ IsFiniteSet(new)
  BY AddedFacts
<1>2. /\ m.cache = (n.cache \ old) \cup new /\ m.hw = n.hw \cup new
      /\ m.lost = n.lost
      /\ m.count = n.count - Cardinality(old) + Cardinality(new)
  BY <1>0 DEF Sound
<1>3. IsFiniteSet(old) /\ IsFiniteSet(n.cache \ old)
      /\ Cardinality(n.cache \ old) = n.count - Cardinality(old)
      /\ Cardinality(old) \in Nat /\ Cardinality(new) \in Nat
  BY <1>r, <1>1, PartFacts, FS_CardinalityType DEF Sound, SoundCache
<1>4. (n.cache \ old) \cap new = {}
  BY <1>r, <1>1
<1>5. IsFiniteSet(m.cache) /\ m.count = Cardinality(m.cache)
  <2>1. IsFiniteSet((n.cache \ old) \cup new)
        /\ Cardinality((n.cache \ old) \cup new)
             = Cardinality(n.cache \ old) + Cardinality(new)
    BY <1>1, <1>3, <1>4, DisjointFacts
  <2>3. n.count \in Int
    BY DEF Sound
  <2> QED
    BY <1>2, <1>3, <2>1, <2>3
<1>6. SoundCache(m)
  <2>1. \A d, e \in n.cache : d.rule = e.rule => d = e
    BY DEF Sound, SoundCache
  <2> QED
    BY <1>r, <1>1, <1>2, <1>5, <2>1 DEF SoundCache
<1>7. SoundTable(m)
  <2>1. m.hw = Enabled(m) \cup m.lost
    BY <1>r, <1>1, <1>2 DEF Sound, SoundTable, Enabled
  <2>2. m.lost \cap m.cache = {}
    BY <1>r, <1>1, <1>2 DEF Sound, SoundTable
  <2>3. \A d, e \in m.hw : d.hdl = e.hdl => d = e
    BY <1>r, <1>1, <1>2 DEF Sound, SoundTable
  <2> QED
    BY <1>2, <2>1, <2>2, <2>3 DEF Sound, SoundTable
<1>8. m \in [cache : SUBSET Entries, count : Int,
             hw : SUBSET Entries, lost : SUBSET Entries]
  <2>1. n.count - Cardinality(old) + Cardinality(new) \in Int
    BY <1>3 DEF Sound
  <2> QED
    BY <1>r, <1>0, <1>1, <2>1 DEF Sound
<1> QED
  BY <1>2, <1>6, <1>7, <1>8 DEF Sound, m

\* Taking rules out of the table: the entries stay, disabled.
LEMMA OutKeepsSound ==
  ASSUME NEW n, Sound(n), NEW out \in SUBSET Enabled(n)
  PROVE  /\ Sound(Disabling(n, out))
         /\ Disabling(n, out).hw = n.hw \ out
         /\ RulesOf(Disabling(n, out).cache) = RulesOf(n.cache)
<1> DEFINE m == Disabling(n, out)
<1>0. m = [n EXCEPT !.cache = OutOfTable(n, out), !.hw = @ \ out]
  BY DEF Disabling
<1> HIDE DEF m
<1>1. out \in SUBSET Entries /\ out \subseteq n.cache
      /\ \A d, e \in n.cache : d.rule = e.rule => d = e
  BY DEF Sound, SoundCache, Enabled
<1>2. /\ Disabled(out) \in SUBSET Entries
      /\ \A e \in Disabled(out) : e.hdl = None /\ e.rule \in RulesOf(out)
      /\ RulesOf(Disabled(out)) = RulesOf(out)
      /\ \A d, e \in Disabled(out) : d.rule = e.rule => d = e
      /\ IsFiniteSet(out) => /\ IsFiniteSet(Disabled(out))
                             /\ Cardinality(Disabled(out)) = Cardinality(out)
  BY <1>1, DisabledFacts
<1>3. /\ m.cache = (n.cache \ out) \cup Disabled(out) /\ m.hw = n.hw \ out
      /\ m.lost = n.lost /\ m.count = n.count
  BY <1>0 DEF Sound, OutOfTable
<1>4. \A e \in n.cache \ out : e.rule \notin RulesOf(out)
  BY <1>1 DEF RulesOf
<1>5. IsFiniteSet(m.cache) /\ m.count = Cardinality(m.cache)
  <2>1. IsFiniteSet(n.cache) /\ n.count = Cardinality(n.cache)
    BY DEF Sound, SoundCache
  <2>2. (n.cache \ out) \cap Disabled(out) = {}
    BY <1>1, <1>2, <1>4
  <2>3. /\ IsFiniteSet(out) /\ IsFiniteSet(n.cache \ out)
        /\ Cardinality(n.cache \ out) = Cardinality(n.cache) - Cardinality(out)
        /\ Cardinality(n.cache) \in Nat /\ Cardinality(out) \in Nat
    BY <1>1, <2>1, PartFacts
  <2>4. IsFiniteSet(m.cache)
        /\ Cardinality(m.cache) = Cardinality(n.cache \ out) + Cardinality(out)
    <3>1. /\ IsFiniteSet((n.cache \ out) \cup Disabled(out))
          /\ Cardinality((n.cache \ out) \cup Disabled(out))
               = Cardinality(n.cache \ out) + Cardinality(Disabled(out))
      BY <1>2, <2>2, <2>3, DisjointFacts
    <3> QED
      BY <1>2, <1>3, <2>3, <3>1, Zenon
  <2> QED
    BY <1>3, <2>1, <2>3, <2>4
<1>6. SoundCache(m)
  BY <1>1, <1>2, <1>3, <1>4, <1>5 DEF SoundCache
<1>7. SoundTable(m)
  <2>1. Enabled(m) = Enabled(n) \ out
    BY <1>2, <1>3 DEF Enabled
  <2>2. out \cap n.lost = {} /\ n.hw = Enabled(n) \cup n.lost
    BY <1>1 DEF Sound, SoundTable
  <2>3. m.hw = Enabled(m) \cup m.lost
    BY <1>3, <2>1, <2>2
  <2>4. m.lost \cap m.cache = {}
    BY <1>2, <1>3 DEF Sound, SoundTable
  <2> QED
    BY <1>3, <2>3, <2>4 DEF Sound, SoundTable
<1>8. m \in [cache : SUBSET Entries, count : Int,
             hw : SUBSET Entries, lost : SUBSET Entries]
  <2>1. OutOfTable(n, out) \in SUBSET Entries
    BY <1>2 DEF OutOfTable, Sound
  <2> QED
    BY <1>0, <2>1 DEF Sound
<1>9. RulesOf(m.cache) = RulesOf(n.cache)
  <2>1. RulesOf(m.cache) = RulesOf(n.cache \ out) \cup RulesOf(Disabled(out))
    BY <1>3 DEF RulesOf
  <2>2. RulesOf(n.cache) = RulesOf(n.cache \ out) \cup RulesOf(out)
    BY <1>1 DEF RulesOf
  <2> QED
    BY <1>2, <2>1, <2>2
<1> QED
  BY <1>3, <1>6, <1>7, <1>8, <1>9 DEF Sound, m

\* Without a table all entries are disabled and no failed deletion matters.
LEMMA NoTableKeepsSound ==
  ASSUME NEW n, Sound(n)
  PROVE  /\ Sound(NoTable(n)) /\ NoTable(n).hw = {}
         /\ \A e \in NoTable(n).cache : e.hdl = None
         /\ RulesOf(NoTable(n).cache) = RulesOf(n.cache)
<1>1. /\ NoTable(n).cache = Disabled(n.cache) /\ NoTable(n).hw = {}
      /\ NoTable(n).lost = {} /\ NoTable(n).count = n.count
  BY DEF NoTable, Sound
<1>2. /\ Disabled(n.cache) \in SUBSET Entries
      /\ \A e \in Disabled(n.cache) : e.hdl = None /\ e.rule \in RulesOf(n.cache)
      /\ RulesOf(Disabled(n.cache)) = RulesOf(n.cache)
      /\ \A d, e \in Disabled(n.cache) : d.rule = e.rule => d = e
      /\ IsFiniteSet(n.cache) =>
           /\ IsFiniteSet(Disabled(n.cache))
           /\ Cardinality(Disabled(n.cache)) = Cardinality(n.cache)
  BY DisabledFacts DEF Sound, SoundCache
<1>3. SoundCache(NoTable(n))
  BY <1>1, <1>2 DEF SoundCache, Sound
<1>4. SoundTable(NoTable(n))
  BY <1>1, <1>2 DEF SoundTable, Enabled
<1>5. NoTable(n) \in [cache : SUBSET Entries, count : Int,
                      hw : SUBSET Entries, lost : SUBSET Entries]
  BY <1>2 DEF NoTable, Sound
<1> QED
  BY <1>1, <1>2, <1>3, <1>4, <1>5 DEF Sound

\* Deleting the entry of a rule: it leaves the cache, and the table too unless
\* the deletion fails.
LEMMA DeleteKeepsSound ==
  ASSUME NEW n, Sound(n), NEW r, NEW m \in DeleteEntry(n, r)
  PROVE  /\ Sound(m) /\ m.hw \subseteq n.hw
         /\ m.cache = {e \in n.cache : e.rule # r}
<1>1. CASE {e \in n.cache : e.rule = r} = {}
  BY <1>1 DEF DeleteEntry
<1>2. CASE {e \in n.cache : e.rule = r} # {}
  <2>1. PICK e \in n.cache : e.rule = r
    BY <1>2
  <2>2. /\ {d \in n.cache : d.rule = r} = {e}
        /\ n.cache \ {e} = {d \in n.cache : d.rule # r}
    BY <2>1 DEF Sound, SoundCache
  <2> DEFINE gone == [n EXCEPT !.cache = @ \ {e}, !.count = @ - 1, !.hw = @ \ {e}]
             kept == [gone EXCEPT !.hw = n.hw, !.lost = @ \cup {e}]
  <2>3. m = gone \/ (e \in Enabled(n) /\ m = kept)
    <3>1. m \in {[n EXCEPT !.cache = @ \ {d}, !.count = @ - 1, !.hw = @ \ {d}] :
                    d \in {e}}
          \/ m \in {[[n EXCEPT !.cache = @ \ {d}, !.count = @ - 1, !.hw = @ \ {d}]
                       EXCEPT !.hw = n.hw, !.lost = @ \cup {d}] :
                    d \in {e} \cap Enabled(n)}
      BY <1>2, <2>2, Zenon DEF DeleteEntry
    <3> QED
      BY <3>1, Zenon
  <2>i. n.count - 1 \in Int
    BY DEF Sound
  <2>4. m.cache = n.cache \ {e} /\ m.count = n.count - 1
    BY <2>3, <2>i DEF Sound
  <2>5. SoundCache(m)
    <3>1. IsFiniteSet(n.cache \ {e})
          /\ Cardinality(n.cache \ {e}) = Cardinality(n.cache) - 1
      BY FS_RemoveElement DEF Sound, SoundCache
    <3> QED
      BY <2>4, <3>1 DEF Sound, SoundCache
  <2>6. CASE m = gone
    <3>1. m.hw = n.hw \ {e} /\ m.lost = n.lost
      BY <2>6 DEF Sound
    <3>2. SoundTable(m)
      BY <2>4, <3>1 DEF Sound, SoundTable, Enabled
    <3>3. m \in [cache : SUBSET Entries, count : Int,
                 hw : SUBSET Entries, lost : SUBSET Entries]
      BY <2>i, <2>6 DEF Sound
    <3> QED
      BY <2>2, <2>4, <2>5, <3>1, <3>2, <3>3 DEF Sound
  <2>7. CASE e \in Enabled(n) /\ m = kept
    <3>1. m.hw = n.hw /\ m.lost = n.lost \cup {e}
      BY <2>7 DEF Sound
    <3>2. SoundTable(m)
      BY <2>4, <2>7, <3>1 DEF Sound, SoundTable, Enabled
    <3>3. m \in [cache : SUBSET Entries, count : Int,
                 hw : SUBSET Entries, lost : SUBSET Entries]
      BY <2>i, <2>7, <3>1 DEF Sound
    <3> QED
      BY <2>2, <2>4, <2>5, <3>1, <3>2, <3>3 DEF Sound
  <2> QED
    BY <2>3, <2>6, <2>7
<1> QED
  BY <1>1, <1>2

-----------------------------------------------------------------------------
\* The outcomes of the operations.  AddTable and ResetPwrSaveIf bring in no
\* rule that was not cached.
LEMMA ReaddedFacts ==
  ASSUME NEW n, Sound(n), NEW old \in SUBSET n.cache, \A e \in old : e.hdl = None,
         NEW ip, NEW m \in Readded(n, old, ip)
  PROVE  /\ Sound(m)
         /\ \A e \in m.cache : e.rule \in RulesOf(n.cache)
         /\ \A e \in m.hw \ n.hw : e.rule \in RulesOf(old)
         /\ ip = None => m.hw = n.hw
<1>1. /\ IsFiniteSet(old) /\ \A d, e \in n.cache : d.rule = e.rule => d = e
      /\ old \in SUBSET Entries
  BY PartFacts DEF Sound, SoundCache
<1>2. RulesOf(old) \in SUBSET Rules
  BY <1>1, EntryFacts DEF RulesOf
<1>3. IsFiniteSet(RulesOf(old))
  <2> DEFINE f == [e \in old |-> e.rule]
  <2>1. f \in Surjection(old, RulesOf(old))
    BY DEF Surjection, RulesOf
  <2> QED
    BY <1>1, <2>1, FS_Surjection
<1>4. \A e \in n.cache \ old : e.rule \notin RulesOf(old)
  BY <1>1 DEF RulesOf
<1>5. PICK new \in Added(n, RulesOf(old), ip) : m = Adding(n, old, new)
  BY DEF Readded, CountsLost, Adding
<1>6. Sound(m) /\ m.cache = (n.cache \ old) \cup new /\ m.hw = n.hw \cup new
  <2>1. /\ Sound(Adding(n, old, new))
        /\ Adding(n, old, new).cache = (n.cache \ old) \cup new
        /\ Adding(n, old, new).hw = n.hw \cup new
    <3>1. Replaced(n, old, RulesOf(old))
      BY <1>4 DEF Replaced
    <3> QED
      BY <1>2, <1>3, <3>1, AddKeepsSound
  <2> QED
    BY <1>5, <2>1
<1>7. (\A e \in new : e.rule \in RulesOf(old)) /\ (ip = None => new = {})
  BY <1>2, <1>3, AddedFacts
<1> QED
  BY <1>6, <1>7 DEF RulesOf

\* AddEntry and FlushTempEntries add rules that are not cached.
LEMMA EnteredFacts ==
  ASSUME NEW n, Sound(n), NEW rules \in SUBSET Rules, IsFiniteSet(rules),
         \A r \in rules : r \notin RulesOf(n.cache),
         NEW ip, NEW new \in Added(n, rules, ip), NEW m, m = Entering(n, new)
  PROVE  /\ Sound(m)
         /\ \A e \in m.cache : e \in n.cache \/ e.rule \in rules
         /\ \A e \in m.hw \ n.hw : e.rule \in rules
         /\ ip = None => m.hw = n.hw
<1>1. /\ \A e \in new : e.rule \in rules
      /\ ip = None => new = {}
      /\ IsFiniteSet(new)
  BY AddedFacts
<1>2. n.count - Cardinality({}) + Cardinality(new) = n.count + Cardinality(new)
  BY <1>1, FS_EmptySet, FS_CardinalityType DEF Sound
<1>3. n.cache \cup new = (n.cache \ {}) \cup new
  OBVIOUS
<1>4. m = Adding(n, {}, new)
  BY <1>2, <1>3, Zenon DEF Adding, Entering
<1>5. Replaced(n, {}, rules)
  BY DEF RulesOf, Replaced
<1>6. Sound(m) /\ m.cache = (n.cache \ {}) \cup new /\ m.hw = n.hw \cup new
  BY <1>4, <1>5, AddKeepsSound
<1> QED
  BY <1>1, <1>6

\* CacheEntry leaves the table alone.
LEMMA CachedFacts ==
  ASSUME NEW n, Sound(n), NEW r \in Rules, r \notin RulesOf(n.cache)
  PROVE  /\ Sound(Cached(n, r)) /\ Cached(n, r).hw = n.hw
         /\ \A e \in Cached(n, r).cache : e \in n.cache \/ e.rule = r
<1> DEFINE d == [rule |-> r, hdl |-> None]
<1>1. d \in Entries /\ d.rule = r /\ d.hdl = None
  BY DEF Entries
<1>2. d \notin n.cache /\ \A e \in n.cache : e.rule # r
  BY <1>1 DEF RulesOf
<1> HIDE DEF d
<1>3. n.count + 1 \in Int
  BY DEF Sound
<1>4. Cached(n, r) = [n EXCEPT !.cache = @ \cup {d}, !.count = @ + 1]
  BY DEF Cached, d
<1>5. /\ Cached(n, r).cache = n.cache \cup {d} /\ Cached(n, r).hw = n.hw
      /\ Cached(n, r).lost = n.lost /\ Cached(n, r).count = n.count + 1
  BY <1>3, <1>4 DEF Sound
<1>6. SoundCache(Cached(n, r))
  <2>1. IsFiniteSet(n.cache \cup {d})
        /\ Cardinality(n.cache \cup {d}) = Cardinality(n.cache) + 1
    BY <1>2, FS_AddElement DEF Sound, SoundCache
  <2> QED
    BY <1>1, <1>2, <1>5, <2>1 DEF Sound, SoundCache
<1>7. SoundTable(Cached(n, r))
  BY <1>1, <1>5 DEF Sound, SoundTable, Enabled
<1>8. Cached(n, r) \in [cache : SUBSET Entries, count : Int,
                        hw : SUBSET Entries, lost : SUBSET Entries]
  BY <1>1, <1>3, <1>4 DEF Sound
<1> QED
  BY <1>1, <1>5, <1>6, <1>7, <1>8 DEF Sound

\* DelEntriesOnClntDiscon and UpdatePwrSaveIf only take rules out of the table.
LEMMA UninstalledFacts ==
  ASSUME NEW n, Sound(n), NEW c, NEW m \in Uninstalled(n, c)
  PROVE  Sound(m) /\ m.hw \subseteq n.hw /\ RulesOf(m.cache) = RulesOf(n.cache)
<1>1. PICK out \in SUBSET Enabled(n) : m = Disabling(n, out)
  BY DEF Uninstalled, Disabling
<1>2. /\ Sound(Disabling(n, out))
      /\ Disabling(n, out).hw = n.hw \ out
      /\ RulesOf(Disabling(n, out).cache) = RulesOf(n.cache)
  BY OutKeepsSound
<1> QED
  BY <1>1, <1>2

\* AddEntry adds at most its rule, and to the table only if the client is awake.
LEMMA AddEntryFacts ==
  ASSUME NEW n, Sound(n), NEW r \in Rules, NEW m \in AddEntry(n, r)
  PROVE  /\ Sound(m)
         /\ \A e \in m.cache : e \in n.cache \/ e.rule = r
         /\ \A e \in m.hw \ n.hw : e.rule = r /\ r.priv \notin pwrSave
         /\ pubIp = None => m.hw = n.hw
<1>1. CASE pubIp = None \/ ~ Room(n, r)
  BY <1>1 DEF AddEntry
<1>2. CASE /\ ~ (pubIp = None \/ ~ Room(n, r)) /\ InPowerSave(r, pwrSave)
  BY <1>2, CachedFacts DEF AddEntry, Room
<1>3. CASE /\ ~ (pubIp = None \/ ~ Room(n, r)) /\ ~ InPowerSave(r, pwrSave)
  <2>1. PICK new \in Added(n, {r}, pubIp) : m = Entering(n, new)
    BY <1>3, Zenon DEF AddEntry, Entering
  <2>2. IsFiniteSet({r}) /\ {r} \in SUBSET Rules
        /\ \A q \in {r} : q \notin RulesOf(n.cache)
    BY <1>3, FS_Singleton DEF Room
  <2>3. /\ Sound(m)
        /\ \A e \in m.cache : e \in n.cache \/ e.rule \in {r}
        /\ \A e \in m.hw \ n.hw : e.rule \in {r}
    BY <2>1, <2>2, EnteredFacts
  <2> QED
    BY <1>3, <2>3 DEF InPowerSave
<1> QED
  BY <1>1, <1>2, <1>3

-----------------------------------------------------------------------------
\* The rules NatApp may hold: of a NAT client only those under its own address
\* and of connections that are alive.
GoodRule(r, live) ==
  Private[r.conn] \in NatClients => r.priv = Private[r.conn] /\ r.conn \in live

Typed ==
  /\ wanIp \in WanIps \cup {None} /\ pubIp \in {None, wanIp}
  /\ pwrSave \in SUBSET Clients
  /\ temp \in SUBSET [rule : Rules, pub : WanIps] /\ IsFiniteSet(temp)

\* The inductive invariant.  That a closed connection is forgotten depends on
\* the rules of NAT clients being found again under their own address.
IInv ==
  /\ Sound(nat)
  /\ Typed
  /\ pubIp = None => nat.hw = {}
  /\ \A e \in nat.cache : GoodRule(e.rule, alive)
  /\ \A t \in temp : GoodRule(t.rule, alive)

\* What PwrSaveStaysOut says of a step.
StaysOut == \A e \in nat'.hw \ nat.hw : e.rule.priv \in pwrSave' => pubIp # pubIp'

\* The invariant holds initially.
LEMMA InitIInv == Init => IInv
<1> SUFFICES ASSUME Init PROVE IInv
  OBVIOUS
<1>1. nat = [cache |-> {}, count |-> 0, hw |-> {}, lost |-> {}]
  BY DEF Init
<1>2. nat.cache = {} /\ nat.hw = {} /\ nat.lost = {} /\ nat.count = 0
  BY <1>1
<1>3. SoundCache(nat)
  BY <1>2, FS_EmptySet DEF SoundCache
<1>4. SoundTable(nat)
  BY <1>2 DEF SoundTable, Enabled
<1>5. nat \in [cache : SUBSET Entries, count : Int,
               hw : SUBSET Entries, lost : SUBSET Entries]
  BY <1>1
<1>6. Typed
  BY FS_EmptySet DEF Init, Typed
<1> QED
  BY <1>2, <1>3, <1>4, <1>5, <1>6 DEF Init, IInv, Sound

\* A WAN address that comes brings the cached rules back or none.
LEMMA WanUpStep ==
  ASSUME IInv, NEW ip \in WanIps, WanUp(ip) \/ WanUpFails(ip)
  PROVE  IInv' /\ StaysOut
<1> DEFINE n == NoTable(nat)
<1>1. /\ Sound(n) /\ n.hw = {}
      /\ \A e \in n.cache : e.hdl = None
      /\ RulesOf(n.cache) = RulesOf(nat.cache)
  BY NoTableKeepsSound DEF IInv
<1>2. /\ wanIp' = ip /\ wanIp # ip /\ pubIp' \in {ip, None} /\ ip # None
      /\ UNCHANGED <<alive, temp, pwrSave>>
      /\ \/ nat' = n
         \/ nat' \in Readded(n, n.cache, ip) /\ pubIp' = ip
  BY NatAppAssumption DEF WanUp, WanUpFails, lists
<1> HIDE DEF n
<1>3. /\ Sound(nat') /\ \A e \in nat'.cache : e.rule \in RulesOf(n.cache)
      /\ pubIp' = None => nat'.hw = {}
      /\ pubIp' = pubIp => nat'.hw = {}
  <2>1. CASE nat' = n
    BY <1>1, <2>1 DEF RulesOf
  <2>2. CASE nat' \in Readded(n, n.cache, ip) /\ pubIp' = ip
    <3>1. Sound(nat') /\ \A e \in nat'.cache : e.rule \in RulesOf(n.cache)
      BY <1>1, <2>2, ReaddedFacts
    <3> QED
      BY <1>2, <2>2, <3>1 DEF IInv, Typed
  <2> QED
    BY <1>2, <2>1, <2>2
<1>4. Typed'
  BY <1>2 DEF IInv, Typed
<1>5. \A e \in nat'.cache : GoodRule(e.rule, alive')
  BY <1>1, <1>2, <1>3 DEF IInv, GoodRule, RulesOf
<1>6. \A t \in temp' : GoodRule(t.rule, alive')
  BY <1>2 DEF IInv, GoodRule
<1> QED
  BY <1>3, <1>4, <1>5, <1>6 DEF IInv, StaysOut

\* Without a WAN there is no table.
LEMMA WanDownStep ==
  ASSUME IInv, WanDown
  PROVE  IInv' /\ StaysOut
<1>1. /\ Sound(nat') /\ nat'.hw = {} /\ RulesOf(nat'.cache) = RulesOf(nat.cache)
  BY NoTableKeepsSound DEF IInv, WanDown
<1>2. Typed' /\ UNCHANGED <<alive, temp>>
  BY DEF IInv, Typed, WanDown, lists
<1>3. \A e \in nat'.cache : GoodRule(e.rule, alive')
  BY <1>1, <1>2 DEF IInv, GoodRule, RulesOf
<1>4. \A t \in temp' : GoodRule(t.rule, alive')
  BY <1>2 DEF IInv, GoodRule
<1> QED
  BY <1>1, <1>2, <1>3, <1>4 DEF IInv, StaysOut

\* The rule of a connection that is not ignored is well formed, and that of a
\* NAT client is never ignored and has its own address.
LEMMA RuleFacts ==
  ASSUME IInv, NEW k \in Conns
  PROVE  /\ ~ Ignored(k) => Rule(k) \in Rules
         /\ Rule(k).conn = k
         /\ Private[k] \in NatClients =>
              ~ Ignored(k) /\ Rule(k) = [priv |-> Private[k], conn |-> k]
<1>1. Private[k] \in Clients \cup WanIps /\ Private[k] # None
  BY NatAppAssumption
<1>2. Rule(k).priv = (IF IsOther(k) THEN wanIp ELSE Private[k]) /\ Rule(k).conn = k
  BY DEF Rule
<1>3. ~ Ignored(k) => Rule(k) \in Rules
  <2>1. ~ Ignored(k) => Rule(k).priv \in Clients \cup WanIps
    BY <1>1, <1>2 DEF Ignored, IInv, Typed
  <2> QED
    BY <1>2, <2>1 DEF Rule, Rules
<1>4. Private[k] \in NatClients => ~ IsOther(k) /\ ~ Ours(k)
  BY NatAppAssumption DEF IsOther, Ours
<1> QED
  BY <1>1, <1>2, <1>3, <1>4 DEF Ignored, Rule

\* An open connection enters under its rule.
LEMMA OpenStep ==
  ASSUME IInv, NEW k \in Conns, Open(k)
  PROVE  IInv' /\ StaysOut
<1>1. /\ alive' = alive \cup {k}
      /\ UNCHANGED <<wanIp, pubIp, pwrSave>>
  BY DEF Open, wan, lists
<1>2. \A r : GoodRule(r, alive) => GoodRule(r, alive')
  BY <1>1 DEF GoodRule
<1>3. GoodRule(Rule(k), alive')
  <2>1. Private[k] \in NatClients => Rule(k).priv = Private[k]
    BY RuleFacts
  <2> QED
    BY <1>1, <2>1, RuleFacts DEF GoodRule
<1>4. CASE Ignored(k)
  <2>1. UNCHANGED <<nat, temp>>
    BY <1>4 DEF Open
  <2> QED
    BY <1>1, <1>2, <2>1 DEF IInv, Typed, StaysOut
<1>5. CASE ~ Ignored(k)
  <2>1. Rule(k) \in Rules
    BY <1>5, RuleFacts
  <2>2. CASE wanIp = None
    <3>1. temp' = temp /\ pubIp = None
          /\ nat' = IF Room(nat, Rule(k)) THEN Cached(nat, Rule(k)) ELSE nat
      BY <1>5, <2>2 DEF Open, IInv, Typed
    <3>2. /\ Sound(nat') /\ nat'.hw = nat.hw
          /\ \A e \in nat'.cache : e \in nat.cache \/ e.rule = Rule(k)
      BY <2>1, <3>1, CachedFacts DEF IInv, Room
    <3> QED
      BY <1>1, <1>2, <1>3, <3>1, <3>2 DEF IInv, Typed, StaysOut
  <2>3. CASE wanIp # None /\ Known(k)
    <3>1. temp' = temp /\ nat' \in AddEntry(nat, Rule(k))
      BY <1>5, <2>3 DEF Open
    <3>2. /\ Sound(nat')
          /\ \A e \in nat'.cache : e \in nat.cache \/ e.rule = Rule(k)
          /\ \A e \in nat'.hw \ nat.hw : e.rule = Rule(k) /\ Rule(k).priv \notin pwrSave
          /\ pubIp = None => nat'.hw = nat.hw
      BY <2>1, <3>1, AddEntryFacts DEF IInv
    <3> QED
      BY <1>1, <1>2, <1>3, <3>1, <3>2 DEF IInv, Typed, StaysOut
  <2>4. CASE wanIp # None /\ ~ Known(k)
    <3>1. nat' = nat /\ temp' = AddTemp(Rule(k)) /\ wanIp \in WanIps
      BY <1>5, <2>4 DEF Open, IInv, Typed
    <3>2. temp' = temp \/ temp' = temp \cup {[rule |-> Rule(k), pub |-> wanIp]}
      BY <3>1 DEF AddTemp
    <3>3. [rule |-> Rule(k), pub |-> wanIp] \in [rule : Rules, pub : WanIps]
          /\ [rule |-> Rule(k), pub |-> wanIp].rule = Rule(k)
      BY <2>1, <3>1
    <3>4. temp' \in SUBSET [rule : Rules, pub : WanIps]
          /\ \A t \in temp' : t \in temp \/ t.rule = Rule(k)
      BY <3>2, <3>3 DEF IInv, Typed
    <3>5. IsFiniteSet(temp')
      <4>1. IsFiniteSet(temp) /\ \A x : IsFiniteSet(temp \cup {x})
        BY FS_AddElement DEF IInv, Typed
      <4> QED
        BY <3>2, <4>1, Zenon
    <3> QED
      BY <1>1, <1>2, <1>3, <3>1, <3>4, <3>5 DEF IInv, Typed, StaysOut
  <2> QED
    BY <2>2, <2>3, <2>4
<1> QED
  BY <1>4, <1>5

\* A closed connection leaves the cache and the temporary entries; one of a NAT
\* client is found there.
LEMMA CloseStep ==
  ASSUME IInv, NEW k \in Conns, Close(k)
  PROVE  IInv' /\ StaysOut
<1>1. alive' = alive \ {k} /\ UNCHANGED <<wanIp, pubIp, pwrSave>>
  BY DEF Close, wan, lists
<1>2. \A r \in Rules : GoodRule(r, alive) /\ (Private[k] \in NatClients => r # Rule(k))
                         => GoodRule(r, alive')
  <2> SUFFICES ASSUME NEW r \in Rules, GoodRule(r, alive), Private[r.conn] \in NatClients,
                      Private[k] \in NatClients => r # Rule(k)
               PROVE  r.priv = Private[r.conn] /\ r.conn \in alive \ {k}
    BY <1>1 DEF GoodRule
  <2>1. r.priv = Private[r.conn] /\ r.conn \in alive
    BY DEF GoodRule
  <2>2. r.conn # k
    <3> SUFFICES ASSUME r.conn = k PROVE FALSE
      OBVIOUS
    <3>1. r = [priv |-> Private[k], conn |-> k]
      BY <2>1 DEF Rules
    <3> QED
      BY <3>1, RuleFacts
  <2> QED
    BY <2>1, <2>2
<1>3. CASE Ignored(k)
  <2>1. UNCHANGED <<nat, temp>> /\ Private[k] \notin NatClients
    BY <1>3, RuleFacts DEF Close
  <2>2. /\ \A e \in nat.cache : e.rule \in Rules
        /\ \A t \in temp : t.rule \in Rules
    BY EntryFacts DEF IInv, Sound, Typed
  <2> QED
    BY <1>1, <1>2, <2>1, <2>2 DEF IInv, Typed, StaysOut
<1>4. CASE ~ Ignored(k)
  <2>1. nat' \in DeleteEntry(nat, Rule(k)) /\ temp' = {t \in temp : t.rule # Rule(k)}
    BY <1>4 DEF Close, WithoutTemp
  <2>2. /\ Sound(nat') /\ nat'.hw \subseteq nat.hw
        /\ nat'.cache = {e \in nat.cache : e.rule # Rule(k)}
    BY <2>1, DeleteKeepsSound DEF IInv
  <2>3. temp' \in SUBSET temp /\ IsFiniteSet(temp')
    BY <2>1, FS_Subset DEF IInv, Typed
  <2>4. /\ \A e \in nat.cache : e.rule \in Rules
        /\ \A t \in temp : t.rule \in Rules
    BY EntryFacts DEF IInv, Sound, Typed
  <2>5. Typed' /\ (pubIp' = None => nat'.hw = {}) /\ StaysOut
    BY <1>1, <2>2, <2>3 DEF IInv, Typed, StaysOut
  <2>6. \A e \in nat'.cache : GoodRule(e.rule, alive')
    BY <1>2, <2>2, <2>4 DEF IInv
  <2>7. \A t \in temp' : GoodRule(t.rule, alive')
    BY <1>2, <2>1, <2>4 DEF IInv
  <2> QED
    BY <2>2, <2>5, <2>6, <2>7 DEF IInv
<1> QED
  BY <1>3, <1>4

-----------------------------------------------------------------------------
\* FlushTempEntries, given the entries it makes of the temporary ones.
LEMMA FlushFacts ==
  ASSUME IInv, NEW n, Sound(n), NEW c,
         NEW made \in SUBSET [rule : Rules, pub : WanIps], IsFiniteSet(made),
         NEW add \in Added(n, {r \in RulesOf(made) : r \notin RulesOf(n.cache)}, pubIp),
         nat' = Entering(n, add),
         temp' = (temp \ TempOf(c)) \cup {t \in made : t.rule \notin RulesOf(add)}
  PROVE  /\ Sound(nat')
         /\ \A e \in nat'.cache : e \in n.cache \/ e.rule \in RulesOf(made)
         /\ \A e \in nat'.hw \ n.hw : e.rule \in RulesOf(made)
         /\ pubIp = None => nat'.hw = n.hw
         /\ temp' \in SUBSET (temp \cup made) /\ IsFiniteSet(temp')
         /\ temp' \in SUBSET [rule : Rules, pub : WanIps]
<1> DEFINE rules == {r \in RulesOf(made) : r \notin RulesOf(n.cache)}
<1>1. IsFiniteSet(RulesOf(made))
  <2> DEFINE f == [t \in made |-> t.rule]
  <2>1. f \in Surjection(made, RulesOf(made))
    BY DEF Surjection, RulesOf
  <2> QED
    BY <2>1, FS_Surjection
<1>2. /\ rules \in SUBSET Rules /\ IsFiniteSet(rules)
      /\ \A r \in rules : r \in RulesOf(made) /\ r \notin RulesOf(n.cache)
  <2>1. rules \in SUBSET RulesOf(made) /\ RulesOf(made) \in SUBSET Rules
    BY DEF RulesOf
  <2> QED
    BY <1>1, <2>1, FS_Subset
<1>3. add \in Added(n, rules, pubIp)
  OBVIOUS
<1> HIDE DEF rules
<1>4. /\ Sound(nat')
      /\ \A e \in nat'.cache : e \in n.cache \/ e.rule \in rules
      /\ \A e \in nat'.hw \ n.hw : e.rule \in rules
      /\ pubIp = None => nat'.hw = n.hw
  BY <1>2, <1>3, EnteredFacts
<1>5. temp' \in SUBSET (temp \cup made) /\ IsFiniteSet(temp \cup made)
      /\ temp' \in SUBSET [rule : Rules, pub : WanIps]
  BY FS_Union DEF IInv, Typed
<1>6. IsFiniteSet(temp')
  BY <1>5, FS_Subset
<1> QED
  BY <1>2, <1>4, <1>5, <1>6

\* The entries FlushTempEntries makes of those of a NAT client are the same.
LEMMA AddNatClientStep ==
  ASSUME IInv, NEW c \in NatClients, AddNatClient(c)
  PROVE  IInv' /\ StaysOut
<1>1. /\ UNCHANGED <<alive, wanIp, pubIp>> /\ pwrSave' = pwrSave \ {c}
      /\ \E n \in Readded(nat, ClientEntries(c), pubIp) : FlushAdd(n, c, FALSE)
  BY DEF AddNatClient, wan
<1>2. PICK n \in Readded(nat, ClientEntries(c), pubIp) : FlushAdd(n, c, FALSE)
  BY <1>1
<1> DEFINE made == {Flushed(t, FALSE) : t \in {u \in TempOf(c) : u.pub = pubIp}}
<1>3. ClientEntries(c) \in SUBSET nat.cache
      /\ \A e \in ClientEntries(c) : e.hdl = None /\ e.rule.priv = c
  BY DEF ClientEntries
<1>4. /\ Sound(n) /\ \A e \in n.cache : e.rule \in RulesOf(nat.cache)
      /\ \A e \in n.hw \ nat.hw : e.rule.priv = c
      /\ pubIp = None => n.hw = nat.hw
  <2>1. /\ Sound(n) /\ \A e \in n.cache : e.rule \in RulesOf(nat.cache)
        /\ \A e \in n.hw \ nat.hw : e.rule \in RulesOf(ClientEntries(c))
        /\ pubIp = None => n.hw = nat.hw
    BY <1>2, <1>3, ReaddedFacts DEF IInv
  <2> QED
    BY <1>3, <2>1 DEF RulesOf
<1>5. made \in SUBSET TempOf(c)
  BY DEF Flushed
<1>6. PICK add \in Added(n, {r \in RulesOf(made) : r \notin RulesOf(n.cache)}, pubIp) :
         /\ nat' = Entering(n, add)
         /\ temp' = (temp \ TempOf(c)) \cup {t \in made : t.rule \notin RulesOf(add)}
  BY <1>2 DEF FlushAdd, Entering
<1> HIDE DEF made
<1>7. /\ made \in SUBSET temp /\ made \in SUBSET [rule : Rules, pub : WanIps]
      /\ IsFiniteSet(made) /\ \A r \in RulesOf(made) : r.priv = c
      /\ \A r \in RulesOf(made) : GoodRule(r, alive)
  <2>1. made \in SUBSET temp /\ \A t \in made : t.rule.priv = c
    BY <1>5 DEF TempOf
  <2>2. IsFiniteSet(made)
    BY <2>1, FS_Subset DEF IInv, Typed
  <2> QED
    BY <2>1, <2>2 DEF IInv, Typed, RulesOf
<1>8. /\ Sound(nat')
      /\ \A e \in nat'.cache : e \in n.cache \/ e.rule \in RulesOf(made)
      /\ \A e \in nat'.hw \ n.hw : e.rule \in RulesOf(made)
      /\ pubIp = None => nat'.hw = n.hw
      /\ temp' \in SUBSET (temp \cup made) /\ IsFiniteSet(temp')
      /\ temp' \in SUBSET [rule : Rules, pub : WanIps]
  BY <1>4, <1>6, <1>7, FlushFacts
<1>9. Typed' /\ (pubIp' = None => nat'.hw = {})
  BY <1>1, <1>4, <1>8 DEF IInv, Typed
<1>10. StaysOut
  BY <1>1, <1>4, <1>7, <1>8 DEF StaysOut
<1>11. \A e \in nat'.cache : GoodRule(e.rule, alive')
  BY <1>1, <1>4, <1>7, <1>8 DEF IInv, RulesOf
<1>12. \A t \in temp' : GoodRule(t.rule, alive')
  BY <1>1, <1>7, <1>8 DEF IInv
<1> QED
  BY <1>8, <1>9, <1>10, <1>11, <1>12 DEF IInv

\* Those of another client get the public address in place of the client's, and
\* no connection of a NAT client is among them.
LEMMA AddOtherClientStep ==
  ASSUME IInv, NEW c \in Clients \ NatClients, AddOtherClient(c)
  PROVE  IInv' /\ StaysOut
<1>1. UNCHANGED <<alive, wanIp, pubIp, pwrSave>> /\ FlushAdd(nat, c, TRUE)
  BY DEF AddOtherClient, wan
<1> DEFINE part == {u \in TempOf(c) : u.pub = pubIp}
           made == {Flushed(t, TRUE) : t \in part}
<1>2. \A t \in temp : /\ t.pub \in WanIps /\ t.rule.conn \in Conns
                      /\ DummyRule(t) = [priv |-> t.pub, conn |-> t.rule.conn]
                      /\ DummyRule(t) \in Rules
                      /\ Flushed(t, TRUE) = [rule |-> DummyRule(t), pub |-> t.pub]
  BY DEF DummyRule, Flushed, IInv, Typed, Rules
<1>3. PICK add \in Added(nat, {r \in RulesOf(made) : r \notin RulesOf(nat.cache)}, pubIp) :
         /\ nat' = Entering(nat, add)
         /\ temp' = (temp \ TempOf(c)) \cup {t \in made : t.rule \notin RulesOf(add)}
  BY <1>1 DEF FlushAdd, Entering
<1>4. \A m \in made : \E t \in temp :
         /\ t.rule.priv = c
         /\ m = [rule |-> DummyRule(t), pub |-> t.pub]
  <2>1. \A t \in part : t \in temp /\ t.rule.priv = c
    BY DEF TempOf
  <2> HIDE DEF part
  <2> SUFFICES ASSUME NEW m \in made
               PROVE  \E t \in temp : t.rule.priv = c
                                      /\ m = [rule |-> DummyRule(t), pub |-> t.pub]
    OBVIOUS
  <2>2. PICK t \in part : m = Flushed(t, TRUE)
    OBVIOUS
  <2> QED
    BY <1>2, <2>1, <2>2
<1>5. IsFiniteSet(made)
  <2> DEFINE f == [t \in part |-> Flushed(t, TRUE)]
  <2>1. part \in SUBSET temp
    BY DEF TempOf
  <2>2. IsFiniteSet(part)
    BY <2>1, FS_Subset DEF IInv, Typed
  <2>3. f \in Surjection(part, made)
    BY DEF Surjection
  <2> HIDE DEF f, part, made
  <2> QED
    BY <2>2, <2>3, FS_Surjection
<1> HIDE DEF made
<1>6. /\ made \in SUBSET [rule : Rules, pub : WanIps]
      /\ \A m \in made : m.rule.priv \in WanIps /\ GoodRule(m.rule, alive)
  <2> SUFFICES ASSUME NEW m \in made
               PROVE  /\ m \in [rule : Rules, pub : WanIps]
                      /\ m.rule.priv \in WanIps /\ GoodRule(m.rule, alive)
    OBVIOUS
  <2>1. PICK t \in temp : t.rule.priv = c /\ m = [rule |-> DummyRule(t), pub |-> t.pub]
    BY <1>4
  <2>2. /\ m.rule = DummyRule(t) /\ m.rule.conn = t.rule.conn
        /\ m.rule.priv = t.pub
    <3>1. m.rule = DummyRule(t)
      BY <2>1
    <3>2. DummyRule(t) = [priv |-> t.pub, conn |-> t.rule.conn]
      BY <1>2
    <3> QED
      BY <3>1, <3>2
  <2>3. Private[t.rule.conn] \notin NatClients
    BY <2>1 DEF IInv, GoodRule
  <2> QED
    BY <1>2, <2>1, <2>2, <2>3 DEF GoodRule
<1>7. /\ Sound(nat')
      /\ \A e \in nat'.cache : e \in nat.cache \/ e.rule \in RulesOf(made)
      /\ \A e \in nat'.hw \ nat.hw : e.rule \in RulesOf(made)
      /\ pubIp = None => nat'.hw = nat.hw
      /\ temp' \in SUBSET (temp \cup made) /\ IsFiniteSet(temp')
      /\ temp' \in SUBSET [rule : Rules, pub : WanIps]
  BY <1>3, <1>5, <1>6, FlushFacts DEF IInv
<1>8. \A r \in RulesOf(made) : r.priv \in WanIps /\ GoodRule(r, alive)
  BY <1>6 DEF RulesOf
<1>9. Typed' /\ (pubIp' = None => nat'.hw = {})
  BY <1>1, <1>7 DEF IInv, Typed
<1>10. StaysOut
  BY <1>1, <1>7, <1>8, NatAppAssumption DEF StaysOut, IInv, Typed
<1>11. \A e \in nat'.cache : GoodRule(e.rule, alive')
  BY <1>1, <1>7, <1>8 DEF IInv
<1>12. \A t \in temp' : GoodRule(t.rule, alive')
  BY <1>1, <1>6, <1>7 DEF IInv
<1> QED
  BY <1>7, <1>9, <1>10, <1>11, <1>12 DEF IInv

\* A client that leaves or falls asleep only loses rules.
LEMMA ClientOutStep ==
  ASSUME IInv, NEW c, nat' \in Uninstalled(nat, c),
         UNCHANGED <<alive, wanIp, pubIp>>, pwrSave' \in SUBSET Clients,
         temp' \in SUBSET temp
  PROVE  IInv' /\ StaysOut
<1>1. Sound(nat') /\ nat'.hw \subseteq nat.hw /\ RulesOf(nat'.cache) = RulesOf(nat.cache)
  BY UninstalledFacts DEF IInv
<1>2. IsFiniteSet(temp')
  BY FS_Subset DEF IInv, Typed
<1>3. Typed' /\ (pubIp' = None => nat'.hw = {}) /\ StaysOut
  BY <1>1, <1>2 DEF IInv, Typed, StaysOut
<1>4. \A e \in nat'.cache : GoodRule(e.rule, alive')
  BY <1>1 DEF IInv, RulesOf
<1>5. \A t \in temp' : GoodRule(t.rule, alive')
  BY DEF IInv
<1> QED
  BY <1>1, <1>3, <1>4, <1>5 DEF IInv

\* A client that wakes up gets its own rules back.
LEMMA RecoverStep ==
  ASSUME IInv, NEW c \in NatClients, Recover(c)
  PROVE  IInv' /\ StaysOut
<1>1. /\ UNCHANGED <<alive, wanIp, pubIp, temp>> /\ pwrSave' = pwrSave \ {c}
      /\ nat' \in Readded(nat, ClientEntries(c), pubIp)
  BY DEF Recover, wan
<1>2. ClientEntries(c) \in SUBSET nat.cache
      /\ \A e \in ClientEntries(c) : e.hdl = None /\ e.rule.priv = c
  BY DEF ClientEntries
<1>3. /\ Sound(nat') /\ \A e \in nat'.cache : e.rule \in RulesOf(nat.cache)
      /\ \A e \in nat'.hw \ nat.hw : e.rule \in RulesOf(ClientEntries(c))
      /\ pubIp = None => nat'.hw = nat.hw
  BY <1>1, <1>2, ReaddedFacts DEF IInv
<1>4. Typed' /\ (pubIp' = None => nat'.hw = {})
  BY <1>1, <1>3 DEF IInv, Typed
<1>5. StaysOut
  BY <1>1, <1>2, <1>3 DEF StaysOut, RulesOf
<1>6. \A e \in nat'.cache : GoodRule(e.rule, alive')
  BY <1>1, <1>3 DEF IInv, RulesOf
<1>7. \A t \in temp' : GoodRule(t.rule, alive')
  BY <1>1 DEF IInv
<1> QED
  BY <1>3, <1>4, <1>5, <1>6, <1>7 DEF IInv

-----------------------------------------------------------------------------
\* Every step keeps the invariant and power-save clients out of the table.
LEMMA NextIInv == IInv /\ [Next]_vars => IInv' /\ [StaysOut]_vars
<1> SUFFICES ASSUME IInv, [Next]_vars PROVE IInv' /\ [StaysOut]_vars
  OBVIOUS
<1>1. CASE \E ip \in WanIps : WanUp(ip) \/ WanUpFails(ip)
  BY <1>1, WanUpStep
<1>2. CASE WanDown
  BY <1>2, WanDownStep
<1>3. CASE \E k \in Conns : Open(k) \/ Close(k)
  BY <1>3, OpenStep, CloseStep
<1>4. ASSUME NEW c \in NatClients,
             AddNatClient(c) \/ DelNatClient(c) \/ PowerSave(c) \/ Recover(c)
      PROVE  IInv' /\ StaysOut
  <2>1. CASE AddNatClient(c)
    BY <2>1, AddNatClientStep
  <2>2. CASE DelNatClient(c)
    <3>1. /\ nat' \in Uninstalled(nat, c) /\ UNCHANGED <<alive, wanIp, pubIp>>
          /\ pwrSave' \in SUBSET Clients /\ temp' \in SUBSET temp
      BY <2>2 DEF DelNatClient, wan, IInv, Typed
    <3> QED
      BY <3>1, ClientOutStep
  <2>3. CASE PowerSave(c)
    <3>1. /\ nat' \in Uninstalled(nat, c) /\ UNCHANGED <<alive, wanIp, pubIp>>
          /\ pwrSave' \in SUBSET Clients /\ temp' \in SUBSET temp
      BY <2>3, NatAppAssumption DEF PowerSave, wan, IInv, Typed
    <3> QED
      BY <3>1, ClientOutStep
  <2>4. CASE Recover(c)
    BY <2>4, RecoverStep
  <2> QED
    BY <1>4, <2>1, <2>2, <2>3, <2>4
<1>5. ASSUME NEW c \in Clients \ NatClients, AddOtherClient(c) \/ DelOtherClient(c)
      PROVE  IInv' /\ StaysOut
  <2>1. CASE AddOtherClient(c)
    BY <2>1, AddOtherClientStep
  <2>2. CASE DelOtherClient(c)
    <3>1. /\ nat' \in Uninstalled(nat, c) /\ UNCHANGED <<alive, wanIp, pubIp>>
          /\ pwrSave' \in SUBSET Clients /\ temp' \in SUBSET temp
      BY <2>2 DEF DelOtherClient, wan, IInv, Typed
    <3> QED
      BY <3>1, ClientOutStep
  <2> QED
    BY <1>5, <2>1, <2>2
<1>6. CASE UNCHANGED vars
  BY <1>6 DEF vars, IInv, Typed
<1> QED
  BY <1>1, <1>2, <1>3, <1>4, <1>5, <1>6 DEF Next

LEMMA Invariance == Spec => []IInv
BY InitIInv, NextIInv, PTL DEF Spec

\* The hardware table holds the rules of the enabled entries and those whose
\* deletion failed, under handles of their own, and nothing without a table
\* (NatApp::AddEntry, DeleteEntry, AddTable, Reset).
THEOREM TableMatches == Spec => []TableMatchesCache
<1>1. IInv => TableMatchesCache
  BY DEF IInv, Sound, SoundTable, TableMatchesCache
<1> QED
  BY <1>1, Invariance, PTL

\* No operation leaves a double entry or a wrong curCnt, whatever adds and
\* deletions fail.
THEOREM Counts == Spec => []CountExact
<1>1. IInv => CountExact
  BY DEF IInv, Sound, SoundCache, CountExact
<1> QED
  BY <1>1, Invariance, PTL

\* A closed connection of a NAT client is in neither list
\* (IPACM_ConntrackListener::AddORDeleteNatEntry).
THEOREM Forgotten == Spec => []ClosedForgotten
<1>1. IInv => ClosedForgotten
  BY DEF IInv, GoodRule, ClosedForgotten
<1> QED
  BY <1>1, Invariance, PTL

\* Only AddTable puts rules of a power-save client into the table.
THEOREM AsleepStaysOut == Spec => PwrSaveStaysOut
<1>1. [StaysOut]_vars => [\A e \in nat'.hw \ nat.hw :
                            e.rule.priv \in pwrSave' => pubIp # pubIp']_vars
  BY DEF StaysOut
<1> QED
  BY <1>1, Invariance, NextIInv, PTL DEF Spec, PwrSaveStaysOut

-----------------------------------------------------------------------------
\* What TypeOK says beyond IInv: the limits of the two lists and the types the
\* other theorems do not need.  curCnt is the number of entries (SoundCache), so
\* the limit of the cache is stated of curCnt.
Limits ==
  /\ nat.count <= MaxEntries /\ Cardinality(temp) <= MaxTemp
  /\ alive \in SUBSET Conns /\ prevIp \in WanIps \cup {None}
  /\ natIfs \in SUBSET NatClients
  /\ nonNat \in [Clients \ NatClients -> 0 .. MaxCopies]

\* Adding disabled entries again gives at most as many as there were.
LEMMA ReaddedCount ==
  ASSUME NEW n, Sound(n), NEW old \in SUBSET n.cache, NEW ip,
         NEW m \in Readded(n, old, ip)
  PROVE  m.count <= n.count
<1>1. IsFiniteSet(old) /\ old \in SUBSET Entries
  BY PartFacts DEF Sound, SoundCache
<1>2. RulesOf(old) \in SUBSET Rules
  BY <1>1, EntryFacts DEF RulesOf
<1>3. IsFiniteSet(RulesOf(old)) /\ Cardinality(RulesOf(old)) <= Cardinality(old)
  <2> DEFINE f == [e \in old |-> e.rule]
  <2>1. f \in Surjection(old, RulesOf(old))
    BY DEF Surjection, RulesOf
  <2> QED
    BY <1>1, <2>1, FS_Surjection
<1>4. PICK new \in Added(n, RulesOf(old), ip) : m = Adding(n, old, new)
  BY DEF Readded, CountsLost, Adding
<1>5. IsFiniteSet(new) /\ Cardinality(new) <= Cardinality(RulesOf(old))
  BY <1>2, <1>3, AddedFacts
<1>6. /\ Cardinality(old) \in Nat /\ Cardinality(RulesOf(old)) \in Nat
      /\ Cardinality(new) \in Nat
  BY <1>1, <1>3, <1>5, FS_CardinalityType
<1>7. n.count - Cardinality(old) + Cardinality(new) \in Int
  BY <1>6 DEF Sound
<1>8. m.count = n.count - Cardinality(old) + Cardinality(new)
  BY <1>4, <1>7 DEF Adding, Sound
<1> QED
  BY <1>3, <1>5, <1>6, <1>8 DEF Sound

\* No removal adds to the count.
LEMMA RemovalCount ==
  ASSUME NEW n, Sound(n)
  PROVE  /\ NoTable(n).count = n.count
         /\ \A c : \A m \in Uninstalled(n, c) : m.count = n.count
         /\ \A r : \A m \in DeleteEntry(n, r) : m.count <= n.count
<1>1. NoTable(n).count = n.count
  BY DEF NoTable, Sound
<1>2. ASSUME NEW c, NEW m \in Uninstalled(n, c) PROVE m.count = n.count
  BY <1>2 DEF Uninstalled, Sound
<1>3. ASSUME NEW r, NEW m \in DeleteEntry(n, r) PROVE m.count <= n.count
  <2>1. n.count \in Int /\ n.count - 1 \in Int
    BY DEF Sound
  <2>2. \A e : /\ [n EXCEPT !.cache = @ \ {e}, !.count = @ - 1,
                            !.hw = @ \ {e}].count = n.count - 1
               /\ [[n EXCEPT !.cache = @ \ {e}, !.count = @ - 1, !.hw = @ \ {e}]
                     EXCEPT !.hw = n.hw, !.lost = @ \cup {e}].count = n.count - 1
    BY <2>1 DEF Sound
  <2>3. \/ m = n
        \/ \E e : \/ m = [n EXCEPT !.cache = @ \ {e}, !.count = @ - 1, !.hw = @ \ {e}]
                  \/ m = [[n EXCEPT !.cache = @ \ {e}, !.count = @ - 1,
                                    !.hw = @ \ {e}]
                            EXCEPT !.hw = n.hw, !.lost = @ \cup {e}]
    BY <1>3, Zenon DEF DeleteEntry
  <2>4. m.count = n.count \/ m.count = n.count - 1
    BY <2>2, <2>3, Zenon
  <2> QED
    BY <2>1, <2>4
<1> QED
  BY <1>1, <1>2, <1>3

\* AddEntry and CacheEntry take an entry only where there is room.
LEMMA RoomCount ==
  ASSUME NEW n, Sound(n), n.count <= MaxEntries, NEW r \in Rules
  PROVE  /\ Room(n, r) => Cached(n, r).count <= MaxEntries
         /\ \A m \in AddEntry(n, r) : m.count <= MaxEntries
<1>1. n.count \in Int /\ n.count = Cardinality(n.cache) /\ MaxEntries \in Nat
  BY NatAppAssumption DEF Sound, SoundCache
<1>2. Cached(n, r).count = n.count + 1
  BY <1>1 DEF Cached, Sound
<1>3. Room(n, r) => n.count + 1 <= MaxEntries
  BY <1>1 DEF Room
<1>4. ASSUME NEW m \in AddEntry(n, r), Room(n, r), m # n, m # Cached(n, r)
      PROVE  m.count <= MaxEntries
  <2>1. PICK new \in Added(n, {r}, pubIp) : m = Entering(n, new)
    BY <1>4, Zenon DEF AddEntry, Entering
  <2>2. IsFiniteSet({r}) /\ {r} \in SUBSET Rules /\ Cardinality({r}) = 1
    BY FS_Singleton
  <2>3. IsFiniteSet(new) /\ Cardinality(new) <= 1
    BY <2>2, AddedFacts
  <2>4. Cardinality(new) \in Nat
    BY <2>3, FS_CardinalityType
  <2>5. m.count = n.count + Cardinality(new)
    BY <1>1, <2>1, <2>4 DEF Entering, Sound
  <2> QED
    BY <1>1, <1>3, <1>4, <2>3, <2>4, <2>5
<1>5. \A m \in AddEntry(n, r) : ~ Room(n, r) => m = n
  BY Zenon DEF AddEntry
<1> QED
  BY <1>1, <1>2, <1>3, <1>4, <1>5

\* FlushTempEntries puts no more back into the temporary list than it took out.
LEMMA FlushLimits ==
  ASSUME IInv, NEW n, Sound(n), NEW c, NEW isDummy, FlushAdd(n, c, isDummy),
         Sound(nat'), Cardinality(temp) <= MaxTemp
  PROVE  nat'.count <= MaxEntries /\ Cardinality(temp') <= MaxTemp
<1> DEFINE part == {u \in TempOf(c) : u.pub = pubIp}
           made == {Flushed(t, isDummy) : t \in part}
<1>1. PICK add : /\ nat' = Entering(n, add)
                 /\ Cardinality(n.cache \cup add) <= MaxEntries
                 /\ temp' = (temp \ TempOf(c)) \cup {t \in made : t.rule \notin RulesOf(add)}
  BY DEF FlushAdd, Entering
<1>2. nat'.count <= MaxEntries
  <2>1. nat'.cache = n.cache \cup add
    BY <1>1 DEF Entering, Sound
  <2>2. nat'.count = Cardinality(nat'.cache)
    BY DEF Sound, SoundCache
  <2> QED
    BY <1>1, <2>1, <2>2
<1>3. TempOf(c) \in SUBSET temp /\ part \in SUBSET TempOf(c) /\ IsFiniteSet(temp)
  BY DEF TempOf, IInv, Typed
<1>4. /\ IsFiniteSet(TempOf(c)) /\ IsFiniteSet(temp \ TempOf(c))
      /\ Cardinality(temp \ TempOf(c)) = Cardinality(temp) - Cardinality(TempOf(c))
      /\ Cardinality(temp) \in Nat /\ Cardinality(TempOf(c)) \in Nat
  BY <1>3, PartFacts
<1> HIDE DEF part
<1>5. IsFiniteSet(part) /\ Cardinality(part) <= Cardinality(TempOf(c))
      /\ Cardinality(part) \in Nat
  BY <1>3, <1>4, FS_Subset, FS_CardinalityType
<1>6. IsFiniteSet(made) /\ Cardinality(made) <= Cardinality(part)
      /\ Cardinality(made) \in Nat
  <2> DEFINE f == [t \in part |-> Flushed(t, isDummy)]
  <2>1. f \in Surjection(part, made)
    BY DEF Surjection
  <2> HIDE DEF f, made
  <2>2. IsFiniteSet(made) /\ Cardinality(made) <= Cardinality(part)
    BY <1>5, <2>1, FS_Surjection
  <2> QED
    BY <2>2, FS_CardinalityType
<1> HIDE DEF made
<1>7. PICK left \in SUBSET made : temp' = (temp \ TempOf(c)) \cup left
  BY <1>1
<1>8. IsFiniteSet(left) /\ Cardinality(left) <= Cardinality(made)
      /\ Cardinality(left) \in Nat
  BY <1>6, FS_Subset, FS_CardinalityType
<1>9. /\ Cardinality(temp') \in Nat
      /\ Cardinality(temp') <= Cardinality(temp \ TempOf(c)) + Cardinality(left)
  <2>1. /\ IsFiniteSet(temp')
        /\ Cardinality(temp')
             = Cardinality(temp \ TempOf(c)) + Cardinality(left)
               - Cardinality((temp \ TempOf(c)) \cap left)
    BY <1>4, <1>7, <1>8, FS_Union
  <2>2. IsFiniteSet((temp \ TempOf(c)) \cap left)
    BY <1>8, FS_Subset
  <2>3. Cardinality((temp \ TempOf(c)) \cap left) \in Nat
    BY <2>2, FS_CardinalityType
  <2>4. Cardinality(temp') \in Nat
    BY <2>1, FS_CardinalityType
  <2> QED
    BY <1>4, <1>8, <2>1, <2>3, <2>4
<1> QED
  BY <1>2, <1>4, <1>5, <1>6, <1>8, <1>9, NatAppAssumption

\* A part of the temporary list is no longer.
LEMMA TempPart ==
  ASSUME IInv, NEW S \in SUBSET temp
  PROVE  Cardinality(temp) <= MaxTemp => Cardinality(S) <= MaxTemp
<1>1. IsFiniteSet(temp) /\ IsFiniteSet(S) /\ Cardinality(S) <= Cardinality(temp)
  BY FS_Subset DEF IInv, Typed
<1>2. Cardinality(temp) \in Nat /\ Cardinality(S) \in Nat
  BY <1>1, FS_CardinalityType
<1> QED
  BY <1>1, <1>2, NatAppAssumption

\* The limits hold after each step.
LEMMA NextLimits == IInv /\ IInv' /\ Limits /\ [Next]_vars => Limits'
<1> SUFFICES ASSUME IInv, IInv', Limits, [Next]_vars PROVE Limits'
  OBVIOUS
<1>s. /\ Sound(nat) /\ Sound(nat') /\ nat.count \in Int /\ nat'.count \in Int
      /\ MaxEntries \in Nat
  BY NatAppAssumption DEF IInv, Sound
<1>1. ASSUME NEW ip \in WanIps, WanUp(ip) \/ WanUpFails(ip) PROVE Limits'
  <2>1. Sound(NoTable(nat)) /\ NoTable(nat).count = nat.count
    BY <1>s, NoTableKeepsSound, RemovalCount
  <2>2. nat'.count <= nat.count
    <3>1. CASE nat' = NoTable(nat)
      BY <1>s, <2>1, <3>1
    <3>2. CASE nat' \in Readded(NoTable(nat), NoTable(nat).cache, ip)
      BY <2>1, <3>2, ReaddedCount
    <3> QED
      BY <1>1, <3>1, <3>2 DEF WanUp, WanUpFails
  <2>3. UNCHANGED <<alive, temp, natIfs, nonNat>> /\ prevIp' = LastIp
    BY <1>1 DEF WanUp, WanUpFails, lists
  <2>4. LastIp \in WanIps \cup {None}
    BY DEF LastIp, IInv, Typed, Limits
  <2> QED
    BY <1>s, <2>2, <2>3, <2>4 DEF Limits
<1>2. CASE WanDown
  <2>1. nat'.count = nat.count
    BY <1>2, <1>s, RemovalCount DEF WanDown
  <2>2. UNCHANGED <<alive, temp, natIfs, nonNat>> /\ prevIp' = pubIp
    BY <1>2 DEF WanDown, lists
  <2> QED
    BY <2>1, <2>2 DEF Limits, IInv, Typed
<1>3. ASSUME NEW k \in Conns, Open(k) PROVE Limits'
  <2>1. alive' = alive \cup {k} /\ UNCHANGED <<prevIp, natIfs, nonNat>>
    BY <1>3 DEF Open, wan, lists
  <2>2. nat'.count <= MaxEntries
    <3>1. CASE UNCHANGED nat
      BY <3>1 DEF Limits
    <3>2. CASE /\ ~ Ignored(k)
               /\ \/ nat' \in AddEntry(nat, Rule(k))
                  \/ Room(nat, Rule(k)) /\ nat' = Cached(nat, Rule(k))
      BY <1>s, <3>2, RoomCount, RuleFacts DEF Limits
    <3> QED
      BY <1>3, <3>1, <3>2 DEF Open
  <2>3. Cardinality(temp') <= MaxTemp
    <3>1. CASE UNCHANGED temp
      BY <3>1 DEF Limits
    <3>2. ASSUME NEW t, Cardinality(temp) < MaxTemp, temp' = temp \cup {t}
          PROVE  Cardinality(temp') <= MaxTemp
      <4>1. IsFiniteSet(temp) /\ Cardinality(temp) \in Nat
        BY FS_CardinalityType DEF IInv, Typed
      <4>2. Cardinality(temp') \in {Cardinality(temp), Cardinality(temp) + 1}
        BY <3>2, <4>1, FS_AddElement
      <4> QED
        BY <3>2, <4>1, <4>2, NatAppAssumption
    <3>3. ~ (Cardinality(temp) >= MaxTemp) => Cardinality(temp) < MaxTemp
      <4>1. Cardinality(temp) \in Nat
        BY FS_CardinalityType DEF IInv, Typed
      <4> QED
        BY <4>1, NatAppAssumption
    <3>4. \/ UNCHANGED temp
          \/ /\ ~ (Cardinality(temp) >= MaxTemp)
             /\ temp' = temp \cup {[rule |-> Rule(k), pub |-> wanIp]}
      BY <1>3, Zenon DEF Open, AddTemp
    <3> QED
      BY <3>1, <3>2, <3>3, <3>4
  <2> QED
    BY <2>1, <2>2, <2>3 DEF Limits
<1>4. ASSUME NEW k \in Conns, Close(k) PROVE Limits'
  <2>1. alive' = alive \ {k} /\ UNCHANGED <<prevIp, natIfs, nonNat>>
        /\ temp' \in SUBSET temp
    BY <1>4 DEF Close, WithoutTemp, wan, lists
  <2>2. UNCHANGED nat \/ nat' \in DeleteEntry(nat, Rule(k))
    BY <1>4 DEF Close
  <2>3. nat'.count <= nat.count
    BY <1>s, <2>2, RemovalCount
  <2> QED
    BY <1>s, <2>1, <2>3, TempPart DEF Limits
<1>5. ASSUME NEW c \in NatClients, AddNatClient(c) PROVE Limits'
  <2>1. /\ natIfs' = natIfs \cup {c} /\ UNCHANGED <<alive, prevIp, nonNat>>
        /\ \E n \in Readded(nat, ClientEntries(c), pubIp) : FlushAdd(n, c, FALSE)
    BY <1>5 DEF AddNatClient, wan
  <2>2. PICK n \in Readded(nat, ClientEntries(c), pubIp) : FlushAdd(n, c, FALSE)
    BY <2>1
  <2>3. Sound(n)
    <3>1. ClientEntries(c) \in SUBSET nat.cache
          /\ \A e \in ClientEntries(c) : e.hdl = None
      BY DEF ClientEntries
    <3> QED
      BY <1>s, <2>2, <3>1, ReaddedFacts
  <2>4. nat'.count <= MaxEntries /\ Cardinality(temp') <= MaxTemp
    BY <1>s, <2>2, <2>3, FlushLimits DEF Limits
  <2> QED
    BY <2>1, <2>4 DEF Limits
<1>6. ASSUME NEW c \in Clients \ NatClients, AddOtherClient(c) PROVE Limits'
  <2>1. /\ nonNat[c] < MaxCopies /\ nonNat' = [nonNat EXCEPT ![c] = @ + 1]
        /\ UNCHANGED <<alive, prevIp, natIfs>> /\ FlushAdd(nat, c, TRUE)
    BY <1>6 DEF AddOtherClient, wan
  <2>2. nat'.count <= MaxEntries /\ Cardinality(temp') <= MaxTemp
    BY <1>s, <2>1, FlushLimits DEF Limits
  <2>3. nonNat' \in [Clients \ NatClients -> 0 .. MaxCopies]
    BY <1>6, <2>1, NatAppAssumption DEF Limits
  <2> QED
    BY <2>1, <2>2, <2>3 DEF Limits
<1>7. ASSUME NEW c, nat' \in Uninstalled(nat, c), temp' \in SUBSET temp,
             UNCHANGED <<alive, prevIp>>, natIfs' \in SUBSET natIfs,
             nonNat' \in [Clients \ NatClients -> 0 .. MaxCopies]
      PROVE  Limits'
  <2>1. nat'.count = nat.count
    BY <1>s, <1>7, RemovalCount
  <2> QED
    BY <1>7, <2>1, TempPart DEF Limits
<1>8. ASSUME NEW c \in NatClients, DelNatClient(c) \/ PowerSave(c) PROVE Limits'
  <2>1. /\ nat' \in Uninstalled(nat, c) /\ temp' \in SUBSET temp
        /\ UNCHANGED <<alive, prevIp, nonNat>> /\ natIfs' \in SUBSET natIfs
    BY <1>8 DEF DelNatClient, PowerSave, wan
  <2> QED
    BY <1>7, <2>1 DEF Limits
<1>9. ASSUME NEW c \in Clients \ NatClients, DelOtherClient(c) PROVE Limits'
  <2>1. /\ nat' \in Uninstalled(nat, c) /\ temp' \in SUBSET temp
        /\ UNCHANGED <<alive, prevIp, natIfs>>
        /\ nonNat[c] > 0 /\ nonNat' = [nonNat EXCEPT ![c] = @ - 1]
    BY <1>9 DEF DelOtherClient, wan
  <2>2. nonNat' \in [Clients \ NatClients -> 0 .. MaxCopies]
    BY <1>9, <2>1, NatAppAssumption DEF Limits
  <2> QED
    BY <1>7, <2>1, <2>2
<1>10. ASSUME NEW c \in NatClients, Recover(c) PROVE Limits'
  <2>1. /\ nat' \in Readded(nat, ClientEntries(c), pubIp)
        /\ UNCHANGED <<alive, prevIp, natIfs, nonNat, temp>>
    BY <1>10 DEF Recover, wan
  <2>2. nat'.count <= nat.count
    BY <1>s, <2>1, ReaddedCount DEF ClientEntries
  <2> QED
    BY <1>s, <2>1, <2>2 DEF Limits
<1>11. CASE UNCHANGED vars
  BY <1>11 DEF vars, Limits
<1> QED
  BY <1>1, <1>2, <1>3, <1>4, <1>5, <1>6, <1>8, <1>9, <1>10, <1>11 DEF Next

\* The cache never holds more than max_entries connections, nor the temporary
\* list more than MAX_TEMP_ENTRIES, whatever adds and restores fail
\* (NatApp::AddEntry, CacheEntry, AddTempEntry, FlushTempEntries).
THEOREM ListsBounded == Spec => []TypeOK
<1>1. Init => Limits
  <2> SUFFICES ASSUME Init PROVE Limits
    OBVIOUS
  <2>1. nat.count = 0 /\ temp = {} /\ Cardinality({}) = 0
    BY FS_EmptySet DEF Init
  <2> QED
    BY <2>1, NatAppAssumption DEF Init, Limits
<1>2. IInv /\ Limits => TypeOK
  <2> SUFFICES ASSUME IInv, Limits PROVE TypeOK
    OBVIOUS
  <2>1. nat.cache \in SUBSET Entries /\ nat.hw \in SUBSET Entries
        /\ nat.lost \in SUBSET nat.hw
    BY DEF IInv, Sound, SoundTable
  <2>2. nat.count = Cardinality(nat.cache) /\ IsFiniteSet(nat.cache)
    BY DEF IInv, Sound, SoundCache
  <2>3. nat.count \in 0 .. MaxEntries /\ Cardinality(nat.cache) <= MaxEntries
    BY <2>2, FS_CardinalityType, NatAppAssumption DEF Limits
  <2> QED
    BY <2>1, <2>3 DEF IInv, Typed, Limits, TypeOK
<1>3. IInv /\ Limits /\ [Next]_vars => (IInv /\ Limits)'
  BY NextIInv, NextLimits
<1> QED
  BY <1>1, <1>2, <1>3, InitIInv, PTL DEF Spec

-----------------------------------------------------------------------------
(* NatTable                                                                  *)

-----------------------------------------------------------------------------
(* Chains: the entries that the links of a table lead to from a bucket       *)

Buckets == 1 .. Base - 1
Steps == 0 .. Base + Expn
HasLinks(t) == \A e \in TblEntries : t[e].next \in Links
Follow(t, e) == IF e = 0 THEN 0 ELSE t[e].next

\* p walks from entry b along the links of t, as far as m.
Walks(t, b, p, m) ==
  /\ p \in [0 .. m -> Links]
  /\ p[0] = b
  /\ \A n \in 1 .. m : p[n] = Follow(t, p[n - 1])

\* S has what the links lead to from its entries.
Closed(t, S) == \A e \in S \cap TblEntries : t[e].next # 0 => t[e].next \in S

LEMMA Bounds ==
  /\ Base \in Nat /\ Expn \in Nat /\ Base > 1 /\ Expn > 1
  /\ Buckets \subseteq TblEntries /\ ExpnEntries \subseteq TblEntries
  /\ Links = TblEntries \cup {0}
  /\ Buckets \cap ExpnEntries = {}
  /\ 0 \notin TblEntries /\ Base \notin Buckets /\ Base \notin ExpnEntries
  /\ TblEntries = Buckets \cup {Base} \cup ExpnEntries
  BY NatAssumption DEF Buckets, TblEntries, ExpnEntries, Links

LEMMA LeastOf ==
  ASSUME NEW T, T \subseteq Nat, T # {}
  PROVE  \E m \in T : \A k \in T : m <= k
  <1>1. PICK m \in T : \A k \in T : ~ (<<k, m>> \in OpToRel(<, Nat))
    BY NatLessThanWellFounded, WFMin
  <1>2. \A k \in T : ~ (k < m)
    BY <1>1 DEF OpToRel
  <1> QED BY <1>2

LEMMA WalkExists ==
  ASSUME NEW t, HasLinks(t), NEW b \in Links, NEW m \in Nat
  PROVE  \E p : Walks(t, b, p, m)
  <1> DEFINE T == {k \in Nat : ~ \E p : Walks(t, b, p, k)}
  <1>1. SUFFICES ASSUME T # {} PROVE FALSE
    OBVIOUS
  <1>2. PICK k \in T : \A j \in T : k <= j
    <2>1. T \subseteq Nat
      OBVIOUS
    <2> HIDE DEF T
    <2> QED BY <1>1, <2>1, LeastOf
  <1>3. Walks(t, b, [n \in 0 .. 0 |-> b], 0)
    BY DEF Walks
  <1>4. k # 0
    BY <1>2, <1>3
  <1>5. k - 1 \in Nat /\ k - 1 \notin T
    BY <1>2, <1>4
  <1>6. PICK p : Walks(t, b, p, k - 1)
    BY <1>5
  <1> DEFINE q == [n \in 0 .. k |-> IF n = k THEN Follow(t, p[k - 1]) ELSE p[n]]
  <1>7. p[k - 1] \in Links
    BY <1>5, <1>6 DEF Walks
  <1>8. Follow(t, p[k - 1]) \in Links
    BY <1>7, Bounds DEF Follow, HasLinks
  <1>9. q \in [0 .. k -> Links]
    BY <1>5, <1>6, <1>8 DEF Walks
  <1>10. q[0] = b
    BY <1>5, <1>6, <1>4 DEF Walks
  <1>11. ASSUME NEW n \in 1 .. k PROVE q[n] = Follow(t, q[n - 1])
    <2>1. n - 1 \in 0 .. k /\ n - 1 # k /\ q[n - 1] = p[n - 1]
      BY <1>2, <1>4
    <2>2. CASE n = k
      BY <2>1, <2>2
    <2>3. CASE n # k
      BY <2>1, <2>3, <1>5, <1>6 DEF Walks
    <2> QED BY <2>2, <2>3
  <1>12. Walks(t, b, q, k)
    BY <1>9, <1>10, <1>11 DEF Walks
  <1> QED BY <1>2, <1>12

LEMMA ChainIsWalk ==
  ASSUME NEW t, HasLinks(t), NEW b \in Links
  PROVE  \E p : Walks(t, b, p, Base + Expn) /\ Chain(t, b) = {p[n] : n \in Steps} \ {0}
  <1> DEFINE H(q, n) == IF n = 0 THEN b ELSE IF q[n - 1] = 0 THEN 0 ELSE t[q[n - 1]].next
  <1>1. PICK p : Walks(t, b, p, Base + Expn)
    BY WalkExists, Bounds
  <1>2. p = [n \in Steps |-> H(p, n)]
    <2>1. p = [n \in Steps |-> p[n]]
      BY <1>1 DEF Walks, Steps
    <2>2. \A n \in Steps : p[n] = H(p, n)
      BY <1>1, Bounds DEF Walks, Follow, Steps
    <2> QED BY <2>1, <2>2
  <1>3. PICK q : Chain(t, b) = {q[n] : n \in DOMAIN q} \ {0} /\ q = [n \in Steps |-> H(q, n)]
    BY <1>2 DEF Chain, Steps
  <1>4. DOMAIN q = Steps /\ \A n \in Steps : q[n] = H(q, n)
    BY <1>3
  <1>5. q[0] = b /\ \A n \in 1 .. Base + Expn : q[n] = Follow(t, q[n - 1])
    BY <1>4, Bounds DEF Follow, Steps
  <1>6. ASSUME NEW n \in Steps PROVE q[n] \in Links
    <2> DEFINE T == {k \in Steps : q[k] \notin Links}
    <2>1. SUFFICES ASSUME T # {} PROVE FALSE
      OBVIOUS
    <2>2. T \subseteq Nat
      BY DEF Steps
    <2>3. PICK k \in T : \A j \in T : k <= j
      <3> HIDE DEF T
      <3> QED BY <2>1, <2>2, LeastOf
    <2>4. k \in 1 .. Base + Expn
      BY <2>3, <1>5 DEF Steps
    <2>5. k - 1 \in Steps /\ q[k - 1] \in Links
      BY <2>3, <2>4, Bounds DEF Steps
    <2>6. Follow(t, q[k - 1]) \in Links
      BY <2>5, Bounds DEF Follow, HasLinks
    <2> QED BY <2>3, <2>4, <2>6, <1>5
  <1>7. q \in [0 .. Base + Expn -> Links]
    <2>1. q = [n \in Steps |-> q[n]]
      BY <1>3
    <2> QED BY <2>1, <1>6 DEF Steps
  <1>8. Walks(t, b, q, Base + Expn)
    BY <1>5, <1>7 DEF Walks
  <1> QED BY <1>3, <1>4, <1>8

\* The chain is within each closed set that has its bucket.
LEMMA ChainWithin ==
  ASSUME NEW t, HasLinks(t), NEW b \in TblEntries, NEW S, b \in S, Closed(t, S)
  PROVE  Chain(t, b) \subseteq S \cap TblEntries
  <1>1. PICK p : Walks(t, b, p, Base + Expn) /\ Chain(t, b) = {p[n] : n \in Steps} \ {0}
    BY ChainIsWalk, Bounds
  <1> DEFINE T == {k \in Steps : p[k] # 0 /\ p[k] \notin S}
  <1>2. T = {}
    <2>1. SUFFICES ASSUME T # {} PROVE FALSE
      OBVIOUS
    <2>2. T \subseteq Nat
      BY DEF Steps
    <2>3. PICK k \in T : \A j \in T : k <= j
      <3> HIDE DEF T
      <3> QED BY <2>1, <2>2, LeastOf
    <2>4. k \in 1 .. Base + Expn
      BY <2>3, <1>1 DEF Steps, Walks
    <2>5. k - 1 \in Steps /\ (p[k - 1] = 0 \/ p[k - 1] \in S)
      BY <2>3, <2>4, Bounds DEF Steps
    <2>6. p[k - 1] \in Links /\ p[k] = Follow(t, p[k - 1])
      BY <2>4, <2>5, <1>1 DEF Walks, Steps
    <2>7. p[k - 1] \in S \cap TblEntries
      BY <2>3, <2>5, <2>6, Bounds DEF Follow
    <2> QED BY <2>3, <2>6, <2>7, Bounds DEF Follow, Closed
  <1>3. \A n \in Steps : p[n] \in Links
    BY <1>1 DEF Walks, Steps
  <1> QED BY <1>1, <1>2, <1>3, Bounds

\* The chain is closed itself.
LEMMA ChainCloses ==
  ASSUME NEW t, HasLinks(t), NEW b \in TblEntries
  PROVE  b \in Chain(t, b) /\ Chain(t, b) \subseteq TblEntries /\ Closed(t, Chain(t, b))
  <1>1. PICK p : Walks(t, b, p, Base + Expn) /\ Chain(t, b) = {p[n] : n \in Steps} \ {0}
    BY ChainIsWalk, Bounds
  <1>2. \A n \in Steps : p[n] \in Links
    BY <1>1 DEF Walks, Steps
  <1>3. b \in Chain(t, b) /\ Chain(t, b) \subseteq TblEntries
    <2>1. 0 \in Steps /\ p[0] = b /\ b # 0
      BY <1>1, Bounds DEF Walks, Steps, TblEntries
    <2>2. p[0] \in {p[n] : n \in Steps} \ {0}
      BY <2>1
    <2>3. Chain(t, b) \subseteq TblEntries
      BY <1>1, <1>2, Bounds
    <2> QED BY <1>1, <2>1, <2>2, <2>3
  <1>4. ASSUME NEW n \in Steps, n < Base + Expn, p[n] # 0, t[p[n]].next # 0
        PROVE  t[p[n]].next \in Chain(t, b)
    <2>1. n + 1 \in 1 .. Base + Expn /\ n + 1 \in Steps /\ (n + 1) - 1 = n
      BY <1>4, Bounds DEF Steps
    <2>2. p[n + 1] = Follow(t, p[n])
      BY <2>1, <1>1 DEF Walks
    <2> QED BY <2>1, <2>2, <1>1, <1>4 DEF Follow
  <1>5. ASSUME p[Base + Expn] # 0
        PROVE  \E n \in Steps : n < Base + Expn /\ p[n] = p[Base + Expn]
    <2>1. ASSUME NEW n \in Steps PROVE p[n] # 0
      <3> DEFINE T == {k \in Nat : n + k \in Steps /\ p[n + k] # 0}
      <3>1. SUFFICES ASSUME p[n] = 0 PROVE FALSE
        OBVIOUS
      <3>2. Base + Expn - n \in T
        BY <1>5, Bounds DEF Steps
      <3>3. PICK k \in T : \A j \in T : k <= j
        <4>1. T \subseteq Nat /\ T # {}
          BY <3>2
        <4> HIDE DEF T
        <4> QED BY <4>1, LeastOf
      <3>4. k # 0
        BY <3>1, <3>3 DEF Steps
      <3>5. k - 1 \in Nat /\ k - 1 \notin T /\ n + (k - 1) \in Steps
        BY <3>3, <3>4, Bounds DEF Steps
      <3>6. p[n + (k - 1)] = 0
        BY <3>5
      <3>7. n + k \in 1 .. Base + Expn /\ (n + k) - 1 = n + (k - 1)
        BY <3>3, <3>4, Bounds DEF Steps
      <3>8. p[n + k] = Follow(t, p[n + (k - 1)])
        BY <3>7, <1>1 DEF Walks
      <3> QED BY <3>3, <3>6, <3>8 DEF Follow
    <2>2. p \in [Steps -> TblEntries]
      <3>1. p = [n \in Steps |-> p[n]]
        BY <1>1 DEF Walks, Steps
      <3> QED BY <3>1, <2>1, <1>2, Bounds
    <2>3. IsFiniteSet(Steps) /\ IsFiniteSet(TblEntries)
          /\ Cardinality(TblEntries) < Cardinality(Steps)
      <3>0. PICK n \in Nat, m \in Nat : n = Base + Expn /\ m = Base + Expn - 1 /\ m < n /\ 1 < m
        <4>1. Base + Expn \in Nat /\ Base + Expn - 1 \in Nat
              /\ Base + Expn - 1 < Base + Expn /\ 1 < Base + Expn - 1
          BY Bounds
        <4> QED BY <4>1
      <3>1. IsFiniteSet(0 .. n) /\ Cardinality(0 .. n) = n + 1
        BY <3>0, FS_Interval
      <3>2. IsFiniteSet(1 .. m) /\ Cardinality(1 .. m) = m
        BY <3>0, FS_Interval
      <3>3. Steps = 0 .. n /\ TblEntries = 1 .. m
        BY <3>0 DEF Steps, TblEntries
      <3>4. m < n + 1
        BY <3>0
      <3> QED BY <3>1, <3>2, <3>3, <3>4
    <2>4. PICK x, y \in Steps : x # y /\ p[x] = p[y]
      BY <2>2, <2>3, FS_PigeonHole
    <2>5. PICK i, j \in Steps : i < j /\ p[i] = p[j]
      BY <2>4 DEF Steps
    <2>6. ASSUME NEW k \in Nat, j + k \in Steps PROVE p[i + k] = p[j + k]
      <3> DEFINE T == {l \in Nat : j + l \in Steps /\ p[i + l] # p[j + l]}
      <3>1. SUFFICES ASSUME T # {} PROVE FALSE
        BY <2>6
      <3>2. PICK l \in T : \A m \in T : l <= m
        <4>1. T \subseteq Nat
          OBVIOUS
        <4> HIDE DEF T
        <4> QED BY <3>1, <4>1, LeastOf
      <3>3. l # 0
        BY <2>5, <3>2 DEF Steps
      <3>4. l - 1 \in Nat /\ l - 1 \notin T /\ j + (l - 1) \in Steps
        BY <3>2, <3>3, Bounds DEF Steps
      <3>5. p[i + (l - 1)] = p[j + (l - 1)]
        BY <3>4
      <3>6. i + l \in 1 .. Base + Expn /\ (i + l) - 1 = i + (l - 1)
            /\ j + l \in 1 .. Base + Expn /\ (j + l) - 1 = j + (l - 1)
        BY <3>2, <3>3, <2>5, Bounds DEF Steps
      <3>7. p[i + l] = Follow(t, p[i + (l - 1)]) /\ p[j + l] = Follow(t, p[j + (l - 1)])
        BY <3>6, <1>1 DEF Walks
      <3> QED BY <3>2, <3>5, <3>7
    <2>7. Base + Expn - j \in Nat /\ j + (Base + Expn - j) = Base + Expn
          /\ i + (Base + Expn - j) \in Steps /\ i + (Base + Expn - j) < Base + Expn
      BY <2>5, Bounds DEF Steps
    <2>8. Base + Expn \in Steps
      BY Bounds DEF Steps
    <2> QED BY <2>6, <2>7, <2>8
  <1>6. ASSUME NEW e \in Chain(t, b), t[e].next # 0 PROVE t[e].next \in Chain(t, b)
    <2>1. PICK n \in Steps : e = p[n] /\ p[n] # 0
      BY <1>1
    <2>2. \E m \in Steps : m < Base + Expn /\ p[m] = e
      <3>1. CASE n < Base + Expn
        BY <2>1, <3>1
      <3>2. CASE n = Base + Expn
        BY <2>1, <3>2, <1>5
      <3> QED BY <3>1, <3>2, Bounds DEF Steps
    <2> QED BY <2>1, <2>2, <1>4, <1>6
  <1> QED BY <1>3, <1>6 DEF Closed

\* The entries U of a table are linked: each is in the chain of its bucket,
\* key, has one predecessor at most, and its successor is in the expansion
\* table and of the same bucket.
Linked(t, U, key) ==
  /\ U \subseteq TblEntries \ {Base}
  /\ \A e \in U : /\ key[e] \in Buckets /\ e \in Chain(t, key[e])
                  /\ e \in Buckets => key[e] = e
                  /\ t[e].next # 0 => /\ t[e].next \in U \cap ExpnEntries
                                      /\ key[t[e].next] = key[e]
  /\ \A e, f \in U : t[e].next # 0 /\ t[e].next = t[f].next => e = f
  /\ \A b \in Buckets \ U : t[b].next = 0

\* The chain of a bucket in use has the entries with that key.
LEMMA ChainOfBucket ==
  ASSUME NEW t, HasLinks(t), NEW U, NEW key, Linked(t, U, key), NEW b \in Buckets
  PROVE  /\ b \in U => Chain(t, b) = {e \in U : key[e] = b}
         /\ b \notin U => Chain(t, b) = {b} /\ \A e \in U : key[e] # b
  <1>1. b \in TblEntries
    BY Bounds
  <1>2. CASE b \in U
    <2>1. Closed(t, {e \in U : key[e] = b}) /\ b \in {e \in U : key[e] = b}
      BY <1>2 DEF Closed, Linked
    <2>2. Chain(t, b) \subseteq {e \in U : key[e] = b}
      BY <1>1, <2>1, ChainWithin
    <2> QED BY <1>2, <2>2 DEF Linked
  <1>3. CASE b \notin U
    <2>1. Closed(t, {b}) /\ b \in {b}
      BY <1>3 DEF Closed, Linked
    <2>2. Chain(t, b) \subseteq {b}
      BY <1>1, <2>1, ChainWithin
    <2>3. b \in Chain(t, b)
      BY <1>1, ChainCloses
    <2> QED BY <1>3, <2>2, <2>3 DEF Linked
  <1> QED BY <1>2, <1>3

\* Only the links say what a chain is.
LEMMA ChainSame ==
  ASSUME NEW t, HasLinks(t), NEW u, \A e \in TblEntries : u[e].next = t[e].next,
         NEW b \in TblEntries
  PROVE  HasLinks(u) /\ Chain(u, b) = Chain(t, b)
  <1>1. HasLinks(u)
    BY DEF HasLinks
  <1>2. Closed(t, Chain(u, b)) /\ Closed(u, Chain(t, b))
        /\ b \in Chain(u, b) /\ b \in Chain(t, b)
        /\ Chain(u, b) \subseteq TblEntries /\ Chain(t, b) \subseteq TblEntries
    <2>1. Closed(u, Chain(u, b)) /\ Closed(t, Chain(t, b))
      BY <1>1, ChainCloses
    <2> QED BY <1>1, <2>1, ChainCloses DEF Closed
  <1>3. Chain(t, b) \subseteq Chain(u, b)
    BY <1>2, ChainWithin
  <1>4. Chain(u, b) \subseteq Chain(t, b)
    BY <1>1, <1>2, ChainWithin
  <1> QED BY <1>1, <1>3, <1>4

\* Chains end.
LEMMA ChainEnds ==
  ASSUME NEW t, HasLinks(t), NEW U, NEW key, Linked(t, U, key), NEW b \in Buckets
  PROVE  ~ Looping(t, b)
  <1> DEFINE C == Chain(t, b)
  <1>1. b \in TblEntries /\ b \in C /\ C \subseteq TblEntries
    BY Bounds, ChainCloses
  <1>2. SUFFICES ASSUME \A e \in C : t[e].next # 0 PROVE FALSE
    BY DEF Looping
  <1>3. b \in U /\ C = {e \in U : key[e] = b}
    <2>1. t[b].next # 0
      BY <1>1, <1>2
    <2>2. b \in U
      BY <2>1 DEF Linked
    <2> QED BY <2>2, ChainOfBucket
  <1>4. \A e \in C : t[e].next \in C \ {b}
    BY <1>2, <1>3, Bounds DEF Linked
  <1>5. IsFiniteSet(C) /\ IsFiniteSet(C \ {b}) /\ Cardinality(C \ {b}) < Cardinality(C)
    <2>1. IsFiniteSet(1 .. Base + Expn - 1)
      BY FS_Interval, Bounds
    <2>2. C \in SUBSET (1 .. Base + Expn - 1)
      BY <1>1 DEF TblEntries
    <2> HIDE DEF C
    <2>3. IsFiniteSet(C)
      BY <2>1, <2>2, FS_Subset
    <2>4. IsFiniteSet(C \ {b}) /\ Cardinality(C \ {b}) = Cardinality(C) - 1
      BY <2>3, <1>1, FS_RemoveElement
    <2> QED BY <2>3, <2>4, FS_CardinalityType
  <1> DEFINE f == [e \in C |-> t[e].next]
  <1>6. f \in [C -> C \ {b}]
    BY <1>4
  <1>7. PICK x, y \in C : x # y /\ f[x] = f[y]
    <2> HIDE DEF f, C
    <2> QED BY <1>5, <1>6, FS_PigeonHole
  <1> QED BY <1>2, <1>3, <1>7 DEF Linked

\* An entry of the expansion table has a predecessor other than itself.
LEMMA Predecessor ==
  ASSUME NEW t, HasLinks(t), NEW U, NEW key, Linked(t, U, key),
         NEW e \in U, e \in ExpnEntries
  PROVE  /\ \E p \in U : t[p].next = e /\ p # e
         /\ t[e].next # e
  <1> DEFINE b == key[e]
             C == Chain(t, b)
  <1>1. b \in Buckets /\ b \in TblEntries /\ e \in C /\ b # e
    BY Bounds DEF Linked
  <1>2. Closed(t, C) /\ b \in C
    BY <1>1, ChainCloses
  <1>3. C = {f \in U : key[f] = b}
    BY <1>1, ChainOfBucket
  <1>4. \E p \in U : t[p].next = e /\ p # e
    <2>1. SUFFICES ASSUME \A p \in U : t[p].next = e => p = e PROVE FALSE
      OBVIOUS
    <2>2. Closed(t, C \ {e}) /\ b \in C \ {e}
      BY <1>1, <1>2, <1>3, <2>1 DEF Closed
    <2>3. C \subseteq C \ {e}
      BY <1>1, <2>2, ChainWithin
    <2> QED BY <1>1, <2>3
  <1>5. PICK p \in U : t[p].next = e /\ p # e
    BY <1>4
  <1>6. e # 0
    BY Bounds
  <1>7. t[e].next # e
    BY <1>5, <1>6 DEF Linked
  <1> QED BY <1>4, <1>7

-----------------------------------------------------------------------------
\* What links and unlinks an entry

\* Only the links of the entries in use and of the buckets matter.
LEMMA LinkedSame ==
  ASSUME NEW t, HasLinks(t), NEW U, NEW key, Linked(t, U, key),
         NEW u, HasLinks(u), \A e \in U \cup Buckets : u[e].next = t[e].next,
         NEW kez, \A e \in U : kez[e] = key[e]
  PROVE  Linked(u, U, kez)
  <1>1. ASSUME NEW e \in U PROVE e \in Chain(u, key[e])
    <2> DEFINE b == key[e]
               C == Chain(u, b)
               S == C \cap (U \cup {b})
    <2>1. b \in Buckets /\ b \in TblEntries /\ e \in Chain(t, b)
      BY Bounds DEF Linked
    <2>2. Closed(u, C) /\ b \in C /\ C \subseteq TblEntries
      BY <2>1, ChainCloses
    <2>3. Closed(t, S) /\ b \in S
      BY <2>1, <2>2 DEF Closed, Linked
    <2>4. Chain(t, b) \subseteq S
      <3> HIDE DEF S
      <3> QED BY <2>1, <2>3, ChainWithin
    <2> QED BY <2>1, <2>4
  <1> QED BY <1>1 DEF Linked

\* A free bucket is taken.
LEMMA LinkedHead ==
  ASSUME NEW t, HasLinks(t), NEW U, NEW key, Linked(t, U, key),
         NEW b \in Buckets, b \notin U,
         NEW u, \A e \in TblEntries : u[e].next = t[e].next,
         NEW kez, \A e \in U : kez[e] = key[e], kez[b] = b
  PROVE  Linked(u, U \cup {b}, kez)
  <1>1. \A a \in Buckets : Chain(u, a) = Chain(t, a) /\ a \in Chain(t, a)
    BY ChainSame, ChainCloses, Bounds
  <1>2. \A e \in U \cup {b} : u[e].next = t[e].next
    BY Bounds DEF Linked
  <1>3. U \cup {b} \subseteq TblEntries \ {Base} /\ t[b].next = 0
    BY Bounds DEF Linked
  <1>4. \A e \in U \cup {b} :
          /\ kez[e] \in Buckets /\ e \in Chain(u, kez[e])
          /\ e \in Buckets => kez[e] = e
    BY <1>1 DEF Linked
  <1>5. \A e \in U \cup {b} :
          u[e].next # 0 => /\ u[e].next \in (U \cup {b}) \cap ExpnEntries
                           /\ kez[u[e].next] = kez[e]
    BY <1>2, <1>3 DEF Linked
  <1>6. \A e, f \in U \cup {b} : u[e].next # 0 /\ u[e].next = u[f].next => e = f
    BY <1>2, <1>3 DEF Linked
  <1>7. \A a \in Buckets \ (U \cup {b}) : u[a].next = 0
    BY Bounds DEF Linked
  <1> QED BY <1>3, <1>4, <1>5, <1>6, <1>7 DEF Linked

\* An entry of the expansion table is linked behind the last one.
LEMMA LinkedTail ==
  ASSUME NEW t, HasLinks(t), NEW U, NEW key, Linked(t, U, key),
         NEW p \in U, t[p].next = 0,
         NEW n \in ExpnEntries, n \notin U, t[n].next = 0,
         NEW u, u[p].next = n, \A e \in TblEntries \ {p} : u[e].next = t[e].next,
         NEW kez, \A e \in U : kez[e] = key[e], kez[n] = key[p]
  PROVE  Linked(u, U \cup {n}, kez)
  <1>1. HasLinks(u) /\ p \in TblEntries /\ n \in TblEntries
    BY Bounds DEF HasLinks, Linked
  <1>2. ASSUME NEW e \in U PROVE e \in Chain(u, key[e])
    <2> DEFINE b == key[e]
               C == Chain(u, b)
    <2>1. b \in TblEntries /\ e \in Chain(t, b)
      BY Bounds DEF Linked
    <2>2. Closed(u, C) /\ b \in C
      BY <1>1, <2>1, ChainCloses
    <2>3. Closed(t, C)
      BY <2>2 DEF Closed
    <2>4. Chain(t, b) \subseteq C
      BY <2>1, <2>2, <2>3, ChainWithin
    <2> QED BY <2>1, <2>4
  <1>3. n \in Chain(u, key[p])
    <2> DEFINE b == key[p]
    <2>1. b \in TblEntries
      BY Bounds DEF Linked
    <2>2. Closed(u, Chain(u, b)) /\ p \in Chain(u, b)
      BY <1>1, <1>2, <2>1, ChainCloses
    <2>3. n # 0
      BY Bounds
    <2> QED BY <1>1, <2>2, <2>3 DEF Closed
  <1>4. U \cup {n} \subseteq TblEntries \ {Base}
    BY Bounds DEF Linked, ExpnEntries
  <1>5. ASSUME NEW e \in U \cup {n}
        PROVE  /\ kez[e] \in Buckets /\ e \in Chain(u, kez[e])
               /\ e \in Buckets => kez[e] = e
               /\ u[e].next # 0 => /\ u[e].next \in (U \cup {n}) \cap ExpnEntries
                                   /\ kez[u[e].next] = kez[e]
    <2>1. CASE e = n
      BY <1>1, <1>3, <2>1, Bounds DEF Linked
    <2>2. CASE e = p
      BY <1>2, <2>2 DEF Linked
    <2>3. CASE e \in U \ {p}
      BY <1>2, <2>3 DEF Linked
    <2> QED BY <2>1, <2>2, <2>3
  <1>6. \A e, f \in U \cup {n} : u[e].next # 0 /\ u[e].next = u[f].next => e = f
    BY <1>1, Bounds DEF Linked
  <1>7. \A b \in Buckets \ (U \cup {n}) : u[b].next = 0
    BY Bounds DEF Linked
  <1> QED BY <1>4, <1>5, <1>6, <1>7 DEF Linked

\* An entry is taken out between its predecessor and its successor.
LEMMA LinkedUnlink ==
  ASSUME NEW t, HasLinks(t), NEW U, NEW key, Linked(t, U, key),
         NEW p \in U, NEW n \in U, t[p].next = n,
         NEW u, u[p].next = t[n].next, \A e \in TblEntries \ {p} : u[e].next = t[e].next,
         NEW kez, \A e \in U \ {n} : kez[e] = key[e]
  PROVE  Linked(u, U \ {n}, kez) /\ HasLinks(u)
  <1>1. p \in TblEntries /\ n \in TblEntries /\ n # 0 /\ n \in ExpnEntries
    BY Bounds DEF Linked
  <1>2. HasLinks(u)
    BY <1>1 DEF HasLinks
  <1>3. t[n].next # n /\ p # n
    BY <1>1, Predecessor
  <1>4. ASSUME NEW e \in U \ {n} PROVE e \in Chain(u, key[e])
    <2> DEFINE b == key[e]
               C == Chain(u, b)
    <2>1. b \in TblEntries /\ e \in Chain(t, b)
      BY Bounds DEF Linked
    <2>2. Closed(u, C) /\ b \in C
      BY <1>2, <2>1, ChainCloses
    <2>3. CASE p \in C
      <3>1. Closed(t, C \cup {n}) /\ b \in C \cup {n}
        BY <1>1, <2>2, <2>3 DEF Closed
      <3>2. Chain(t, b) \subseteq C \cup {n}
        BY <2>1, <3>1, ChainWithin
      <3> QED BY <2>1, <3>2
    <2>4. CASE p \notin C
      <3>1. Closed(t, C)
        BY <2>2, <2>4 DEF Closed
      <3>2. Chain(t, b) \subseteq C
        BY <2>1, <2>2, <3>1, ChainWithin
      <3> QED BY <2>1, <3>2
    <2> QED BY <2>3, <2>4
  <1>5. ASSUME NEW e \in U \ {n}
        PROVE  /\ kez[e] \in Buckets /\ e \in Chain(u, kez[e])
               /\ e \in Buckets => kez[e] = e
               /\ u[e].next # 0 => /\ u[e].next \in (U \ {n}) \cap ExpnEntries
                                   /\ kez[u[e].next] = kez[e]
    <2>1. CASE e = p
      BY <1>1, <1>3, <1>4, <2>1 DEF Linked
    <2>2. CASE e # p
      <3>1. e \in TblEntries \ {p}
        BY <2>2 DEF Linked
      <3> QED BY <1>1, <1>4, <2>2, <3>1 DEF Linked
    <2> QED BY <2>1, <2>2
  <1>6. ASSUME NEW e \in U \ {n}, NEW f \in U \ {n}, u[e].next # 0, u[e].next = u[f].next
        PROVE  e = f
    <2>1. e \in TblEntries /\ f \in TblEntries
      BY DEF Linked
    <2>2. CASE e = p /\ f # p
      BY <1>1, <1>6, <2>1, <2>2 DEF Linked
    <2>3. CASE f = p /\ e # p
      BY <1>1, <1>6, <2>1, <2>3 DEF Linked
    <2>4. CASE e # p /\ f # p
      BY <1>1, <1>6, <2>1, <2>4 DEF Linked
    <2> QED BY <2>2, <2>3, <2>4
  <1>7. \A b \in Buckets \ (U \ {n}) : u[b].next = 0
    BY <1>1, Bounds DEF Linked
  <1>8. U \ {n} \subseteq TblEntries \ {Base}
    BY DEF Linked
  <1> QED BY <1>2, <1>5, <1>6, <1>7, <1>8 DEF Linked

\* Heads without successor are taken out.
LoneHeads(t, D) == D \subseteq Buckets /\ \A b \in D : t[b].next = 0
Agree(S, f, g) == \A x \in S : f[x] = g[x]
LEMMA LinkedDrop ==
  ASSUME NEW t, HasLinks(t), NEW U, NEW key, Linked(t, U, key),
         NEW D, LoneHeads(t, D),
         NEW u, \A e \in TblEntries : u[e].next = t[e].next,
         NEW kez, Agree(U \ D, kez, key)
  PROVE  Linked(u, U \ D, kez)
  <1> USE DEF LoneHeads, Agree
  <1>1. \A a \in Buckets : Chain(u, a) = Chain(t, a)
    BY ChainSame, Bounds
  <1>2. \A e \in U \ D : u[e].next = t[e].next
    BY DEF Linked
  <1>3. ASSUME NEW e \in U \ D
        PROVE  /\ kez[e] \in Buckets /\ e \in Chain(u, kez[e])
               /\ e \in Buckets => kez[e] = e
               /\ u[e].next # 0 => /\ u[e].next \in (U \ D) \cap ExpnEntries
                                   /\ kez[u[e].next] = kez[e]
    BY <1>1, <1>2, Bounds DEF Linked
  <1>4. \A e, f \in U \ D : u[e].next # 0 /\ u[e].next = u[f].next => e = f
    BY <1>2 DEF Linked
  <1>5. \A b \in Buckets \ (U \ D) : u[b].next = 0
    BY Bounds DEF Linked
  <1>6. U \ D \subseteq TblEntries \ {Base}
    BY DEF Linked
  <1> QED BY <1>3, <1>4, <1>5, <1>6 DEF Linked

-----------------------------------------------------------------------------
(* The inductive invariant                                                   *)

\* The calls in progress
UsableEntries == TblEntries \ {Base}
Positions == {"only_one", "head", "middle", "last"}
AddStages == {"copy", "link", "icopy", "ilink", "enable"}
AddOps == [at : AddStages, rule : ClntRules, entry : UsableEntries, prev : Links,
           ientry : UsableEntries, iprev : Links]
Writes ==
  [t : {"tbl"}, e : TblEntries, field : {"enabled"}, value : {FALSE}]
    \cup [t : {"tbl"}, e : TblEntries, field : {"dead"}, value : {TRUE}]
    \cup [t : {"tbl"}, e : Links, field : {"next"}, value : Links]
    \cup [t : {"index"}, e : Links, field : {"tbl", "next"}, value : Links]
DmaOps == [at : {"dma"}, hdl : RuleHdls, entry : UsableEntries, ientry : TblEntries,
           pos : Positions, ipos : Positions, moved : Links, writes : Seq(Writes)]
DeadOps == [at : {"dead"}, hdl : RuleHdls]
Hung == [at |-> "hung"]
OpOK == op \in {Idle, Hung} \cup AddOps \cup DmaOps \cup DeadOps

\* Handles lead to entries in use, each to its own, and those that were not
\* returned or given back are those of the call in progress.
HandleOK ==
  /\ \A e \in TblEntries : tbl[e].enabled => tbl[e].indx # 0
  /\ \A h \in RuleHdls : ids[h] # 0 =>
       /\ \E e \in UsableEntries : ids[h] = RuleId(e)
       /\ h < Base + Expn
       /\ installed[h] = Nil => op.at \in {"dma", "dead"} /\ op.hdl = h
       /\ \A g \in RuleHdls : ids[g] = ids[h] => g = h
  /\ \A h \in RuleHdls : installed[h] # Nil =>
       /\ ids[h] # 0
       /\ \E e \in UsableEntries :
            ids[h] = RuleId(e) /\ Matches(e, installed[h])
  /\ op.at \in AddStages => ~ tbl[op.entry].enabled
  /\ op.at \in AddStages \ {"copy"} =>
       tbl[op.entry].rule = op.rule /\ ~ tbl[op.entry].dead /\ tbl[op.entry].indx # 0
  /\ op.at \in {"dma", "dead"} => installed[op.hdl] = Nil
  /\ op.at = "dma" =>
       /\ ids[op.hdl] = RuleId(op.entry)
       /\ \A n \in 1 .. Len(op.writes) :
            op.writes[n].field \in {"enabled", "dead"} => op.writes[n].e = op.entry

\* How far a deletion has come: the last write is that of the rule table.
Dma == op.at = "dma"
IndexDone == Dma /\ Len(op.writes) <= 1
RuleDone == Dma /\ op.writes = <<>>
Overwritten == Dma /\ op.ipos = "head" /\ Len(op.writes) <= 2

\* The entries that are linked, and their buckets
RuleUsed ==
  {e \in TblEntries :
     \/ tbl[e].enabled /\ ~ (RuleDone /\ op.pos \in {"last", "middle"} /\ e = op.entry)
     \/ op.at \in {"icopy", "ilink", "enable"} /\ e = op.entry}
IndexUsed ==
  {i \in TblEntries :
     /\ index[i].tbl # 0
     /\ op.at = "ilink" => i # op.ientry
     /\ IndexDone => /\ op.ipos \in {"last", "middle"} => i # op.ientry
                     /\ op.ipos = "head" => i # op.moved}
RuleKey ==
  [e \in TblEntries |-> IF tbl[e].rule = Nil THEN 0 ELSE DstHash[tbl[e].rule]]
IndexKey ==
  [i \in TblEntries |->
     IF index[i].tbl = 0 THEN 0
     ELSE IF tbl[index[i].tbl].rule = Nil THEN 0 ELSE SrcHash[tbl[index[i].tbl].rule]]
LinksOK == Linked(tbl, RuleUsed, RuleKey) /\ Linked(index, IndexUsed, IndexKey)

\* prev_index is the inverse of next_index but behind an entry just taken out.
PrevOK ==
  \A e \in RuleUsed :
    \/ tbl[e].next = 0 \/ tbl[tbl[e].next].prev = e
    \/ RuleDone /\ op.pos = "middle" /\ e = tbl[op.entry].prev
MetaOK ==
  \A i \in IndexUsed :
    \/ index[i].next = 0 \/ meta[index[i].next] = i
    \/ IndexDone /\ op.ipos = "middle" /\ i = meta[op.ientry]
    \/ IndexDone /\ op.ipos = "head" /\ i = op.ientry

\* Index entries lead to rules and rules know their index entries; a rule that
\* was moved still knows the old one, and nothing leads to the rule that goes.
Gone(e) == Dma /\ e = op.entry /\ (IndexDone \/ Overwritten)
LeadsOK ==
  \A i \in IndexUsed :
    LET e == index[i].tbl
    IN  /\ e \in RuleUsed /\ ~ tbl[e].dead /\ ~ Gone(e)
        /\ tbl[e].indx = IF Overwritten /\ i = op.ientry THEN op.moved ELSE i
LedOK ==
  \A e \in TblEntries : tbl[e].enabled /\ ~ tbl[e].dead /\ ~ Gone(e) =>
    LET i == IF Overwritten /\ IndexDone /\ tbl[e].indx = op.moved
             THEN op.ientry ELSE tbl[e].indx
    IN  i \in IndexUsed /\ index[i].tbl = e

\* A deleted head is kept for the entries behind it.
DeadOK ==
  \A e \in TblEntries : tbl[e].dead =>
    tbl[e].enabled /\ e \in Buckets /\ (RuleDone \/ op.at = "dead" \/ tbl[e].next # 0)

\* An entry in use has a handle, unless it is being deleted.
OwnedOK ==
  \A e \in TblEntries : tbl[e].enabled /\ ~ tbl[e].dead =>
    (Dma /\ e = op.entry) \/ \E h \in RuleHdls : installed[h] # Nil /\ ids[h] = RuleId(e)

\* What was chosen for a new rule and what of it is written
NewEntry(r, p, i) == [NoRule EXCEPT !.rule = r, !.prev = p, !.indx = i]
AddRuleOK ==
  /\ op.prev = 0 => op.entry = DstHash[op.rule]
  /\ op.prev # 0 => /\ op.entry \in ExpnEntries /\ op.prev \in RuleUsed
                    /\ op.prev # op.entry /\ RuleKey[op.prev] = DstHash[op.rule]
                    /\ op.at \in {"copy", "link"} => tbl[op.prev].next = 0
  /\ op.at = "link" => op.prev # 0
AddIndexOK ==
  /\ op.iprev = 0 => op.ientry = SrcHash[op.rule]
  /\ op.iprev # 0 => /\ op.ientry \in ExpnEntries /\ op.iprev \in IndexUsed
                     /\ op.iprev # op.ientry /\ IndexKey[op.iprev] = SrcHash[op.rule]
                     /\ op.at # "enable" => index[op.iprev].next = 0
                     /\ meta[op.ientry] = op.iprev
  /\ op.at = "ilink" => op.iprev # 0
AddWritten ==
  /\ op.at # "copy" => tbl[op.entry] = NewEntry(op.rule, op.prev, op.ientry)
  /\ index[op.ientry].tbl = IF op.at \in {"ilink", "enable"} THEN op.entry ELSE 0
  /\ op.at \in {"ilink", "enable"} => index[op.ientry].next = 0
AddOK == op.at \in AddStages => AddRuleOK /\ AddIndexOK /\ AddWritten

\* What is still to be written of a deletion
PendingRule ==
  CASE op.pos = "only_one" -> Write("tbl", op.entry, "enabled", FALSE)
    [] op.pos = "head" -> Write("tbl", op.entry, "dead", TRUE)
    [] OTHER -> Write("tbl", tbl[op.entry].prev, "next", tbl[op.entry].next)
PendingIndex ==
  CASE op.ipos = "only_one" -> Write("index", op.ientry, "tbl", 0)
    [] op.ipos = "head" -> Write("index", op.ientry, "next", index[op.moved].next)
    [] OTHER -> Write("index", meta[op.ientry], "next", op.moved)
PendingMove == Write("index", op.ientry, "tbl", index[op.moved].tbl)
Pending ==
  \/ op.ipos = "head" /\ op.writes = <<PendingMove, PendingIndex, PendingRule>>
  \/ op.writes = <<PendingIndex, PendingRule>>
  \/ op.writes = <<PendingRule>>
  \/ op.writes = <<>>

DmaPlaces ==
  /\ op.pos \in {"only_one", "head"} <=> op.entry \in Buckets
  /\ op.pos \in {"only_one", "last"} <=> tbl[op.entry].next = 0
  /\ op.ipos \in {"only_one", "head"} <=> op.ientry \in Buckets
  /\ op.ipos \in {"only_one", "last"} <=> op.moved = 0
DmaRule ==
  IF ~ RuleDone
    THEN /\ tbl[op.entry].enabled /\ ~ tbl[op.entry].dead
         /\ tbl[op.entry].indx = op.ientry
    ELSE /\ op.pos = "only_one" => ~ tbl[op.entry].enabled
         /\ op.pos = "head" => tbl[op.entry].dead /\ tbl[op.entry].enabled
         /\ op.pos \in {"last", "middle"} =>
              /\ tbl[op.entry].prev \in RuleUsed
              /\ tbl[tbl[op.entry].prev].next = tbl[op.entry].next
DmaIndex ==
  /\ ~ IndexDone => /\ index[op.ientry].next = op.moved /\ op.ientry \in IndexUsed
                    /\ op.ipos = "head" => op.moved \in IndexUsed
  /\ Overwritten => op.ientry \in IndexUsed /\ index[op.ientry].tbl = index[op.moved].tbl
  /\ IndexDone => /\ op.ipos = "only_one" =>
                       index[op.ientry].tbl = 0 /\ index[op.ientry].next = 0
                  /\ op.ipos \in {"last", "middle"} =>
                       /\ index[op.ientry].next = op.moved
                       /\ meta[op.ientry] \in IndexUsed
                       /\ index[meta[op.ientry]].next = op.moved
                  /\ op.ipos = "head" =>
                       /\ index[op.ientry].next = index[op.moved].next
                       /\ op.moved \in ExpnEntries
DmaOK == Dma => Pending /\ DmaPlaces /\ DmaRule /\ DmaIndex

TablesOK ==
  LinksOK /\ PrevOK /\ MetaOK /\ LeadsOK /\ LedOK /\ DeadOK /\ OwnedOK /\ AddOK /\ DmaOK
  /\ op # Hung
TableInv == TableTypeOK /\ OpOK /\ HandleOK /\ (failures = 0 => TablesOK)

-----------------------------------------------------------------------------
(* Types and handles, whether ioctl calls fail or not                        *)

LEMMA RuleIds ==
  ASSUME NEW e \in UsableEntries
  PROVE  /\ ParseId(RuleId(e)) = e /\ RuleId(e) # 0
         /\ RuleId(e) \in {id \in 0 .. 2 * (Base + Expn) :
                             id \div 2 < IF id % 2 = 1 THEN Expn ELSE Base}
         /\ \A f \in UsableEntries : RuleId(f) = RuleId(e) => f = e
  <1>1. CASE e >= Base
    <2>1. PICK k \in Nat : k = e - Base /\ k < Expn /\ RuleId(e) = 2 * k + 1
      BY <1>1, Bounds DEF UsableEntries, TblEntries, RuleId
    <2>2. (2 * k + 1) \div 2 = k /\ (2 * k + 1) % 2 = 1
      BY <2>1
    <2>3. \A f \in UsableEntries : RuleId(f) = RuleId(e) => f = e
      BY <2>1, Bounds DEF UsableEntries, TblEntries, RuleId
    <2>4. RuleId(e) % 2 = 1 /\ RuleId(e) \div 2 = k
      BY <2>1, <2>2
    <2>5. ParseId(RuleId(e)) = Base + k /\ Base + k = e
      BY <2>1, <2>4, <1>1, Bounds DEF ParseId, UsableEntries, TblEntries
    <2>6. RuleId(e) \in 0 .. 2 * (Base + Expn) /\ RuleId(e) # 0
      BY <2>1, Bounds
    <2> QED BY <2>1, <2>3, <2>4, <2>5, <2>6
  <1>2. CASE ~ (e >= Base)
    <2>1. e \in Nat /\ 0 < e /\ e < Base /\ RuleId(e) = 2 * e
      BY <1>2, Bounds DEF UsableEntries, TblEntries, RuleId
    <2>2. (2 * e) \div 2 = e /\ (2 * e) % 2 = 0
      BY <2>1
    <2>3. \A f \in UsableEntries : RuleId(f) = RuleId(e) => f = e
      BY <2>1, Bounds DEF UsableEntries, TblEntries, RuleId
    <2> QED BY <2>1, <2>2, <2>3, Bounds DEF ParseId
  <1> QED BY <1>1, <1>2

LEMMA OpShapes ==
  ASSUME OpOK
  PROVE  /\ op = Idle => op.at = "idle"
         /\ op.at = "idle" => op = Idle
         /\ op.at \in AddStages => op \in AddOps
         /\ op.at = "dma" => op \in DmaOps
         /\ op.at = "dead" => op \in DeadOps
         /\ op.at = "hung" <=> op = Hung
  BY DEF OpOK, Idle, Hung, AddOps, DmaOps, DeadOps, AddStages

LEMMA TablesTyped ==
  ASSUME TableTypeOK
  PROVE  /\ HasLinks(tbl) /\ HasLinks(index)
         /\ \A e \in TblEntries : /\ tbl[e] \in RuleEntry /\ index[e] \in IndexEntry
                                  /\ meta[e] \in Links
  BY DEF TableTypeOK, HasLinks, RuleEntry, IndexEntry

\* What Place chooses: the bucket when it is free, else a free entry of the
\* expansion table behind one that ends the chain of the bucket.
LEMMA PlaceChooses ==
  ASSUME NEW t, HasLinks(t), NEW b \in Buckets, NEW free, free \subseteq TblEntries,
         NEW p, p = Place(t, b, free), p.entry # 0
  PROVE  \/ p.entry = b /\ p.prev = 0 /\ b \in free
         \/ /\ b \notin free /\ p.entry \in free \cap ExpnEntries
            /\ p.prev \in Chain(t, b) /\ p.prev \in TblEntries /\ t[p.prev].next = 0
  <1>1. CASE b \in free
    BY <1>1 DEF Place
  <1>2. CASE b \notin free
    <2>1. ~ Looping(t, b)
      BY <1>2 DEF Place
    <2>2. p.entry = FirstFree(free \cap ExpnEntries) /\ p.prev = Last(t, b)
      BY <1>2, <2>1 DEF Place
    <2>3. free \cap ExpnEntries # {}
      BY <2>2 DEF FirstFree
    <2>4. \E e \in free \cap ExpnEntries : \A f \in free \cap ExpnEntries : e <= f
      <3>1. free \cap ExpnEntries \subseteq Nat
        BY Bounds DEF TblEntries
      <3> QED BY <2>3, <3>1, LeastOf
    <2>5. p.entry \in free \cap ExpnEntries
      BY <2>2, <2>3, <2>4 DEF FirstFree
    <2>6. p.prev \in Chain(t, b) /\ t[p.prev].next = 0
      BY <2>1, <2>2 DEF Last, Looping
    <2>7. p.prev \in TblEntries
      BY <2>6, Bounds, ChainCloses
    <2> QED BY <1>2, <2>5, <2>6, <2>7
  <1> QED BY <1>1, <1>2

LEMMA HashesAreBuckets ==
  \A r \in ClntRules : DstHash[r] \in Buckets /\ SrcHash[r] \in Buckets
  BY NatAssumption DEF Buckets

LEMMA FreeEntries ==
  FreeRules \subseteq TblEntries /\ FreeIndexes \subseteq TblEntries
  BY DEF FreeRules, FreeIndexes

-----------------------------------------------------------------------------
(* Stores into the tables                                                    *)

\* Table t becomes u by storing v in a field of entry p.
SetsNext(t, u, p, v) == u = [t EXCEPT ![p].next = v]
RuleTables == [TblEntries -> RuleEntry]
IndexTables == [TblEntries -> IndexEntry]

LEMMA PutNext ==
  ASSUME NEW t \in RuleTables, NEW p, NEW v \in Links,
         NEW u, SetsNext(t, u, p, v)
  PROVE  /\ u \in RuleTables
         /\ \A e \in TblEntries :
              /\ u[e].next = IF e = p THEN v ELSE t[e].next
              /\ u[e].rule = t[e].rule /\ u[e].enabled = t[e].enabled
              /\ u[e].dead = t[e].dead
              /\ u[e].prev = t[e].prev /\ u[e].indx = t[e].indx
  BY DEF RuleEntry, RuleTables, SetsNext

LEMMA PutIndexNext ==
  ASSUME NEW t \in IndexTables, NEW p, NEW v \in Links,
         NEW u, SetsNext(t, u, p, v)
  PROVE  /\ u \in IndexTables
         /\ \A e \in TblEntries : /\ u[e].tbl = t[e].tbl
                                  /\ u[e].next = IF e = p THEN v ELSE t[e].next
  BY DEF IndexEntry, IndexTables, SetsNext

LEMMA NewEntries ==
  /\ NoRule \in RuleEntry /\ NoIndex \in IndexEntry
  /\ ~ NoRule.enabled /\ ~ NoRule.dead /\ NoRule.next = 0
  /\ NoIndex.tbl = 0 /\ NoIndex.next = 0
  /\ \A r \in ClntRules, p, i \in Links :
       LET e == NewEntry(r, p, i)
       IN  /\ e \in RuleEntry /\ e.rule = r /\ e.prev = p /\ e.indx = i
           /\ e.next = 0 /\ ~ e.enabled /\ ~ e.dead
  /\ \A e \in Links : [tbl |-> e, next |-> 0] \in IndexEntry
  <1>1. 0 \in Links
    BY Bounds
  <1>2. NoRule \in RuleEntry /\ NoIndex \in IndexEntry
    BY <1>1 DEF NoRule, NoIndex, RuleEntry, IndexEntry
  <1>3. \A r \in ClntRules, p, i \in Links :
          LET e == NewEntry(r, p, i)
          IN  /\ e \in RuleEntry /\ e.rule = r /\ e.prev = p /\ e.indx = i
              /\ e.next = 0 /\ ~ e.enabled /\ ~ e.dead
    BY <1>1 DEF NoRule, RuleEntry, NewEntry
  <1>4. \A e \in Links : [tbl |-> e, next |-> 0] \in IndexEntry
    BY <1>1 DEF IndexEntry
  <1> QED BY <1>2, <1>3, <1>4 DEF NoRule, NoIndex

\* The commands of a deletion are three writes at most.
LEMMA Concatenated ==
  ASSUME NEW a, NEW b, NEW c
  PROVE  <<a>> \o <<b>> = <<a, b>> /\ <<a, b>> \o <<c>> = <<a, b, c>>
  <1> DEFINE S == {a, b, c}
             s == <<a>> \o <<b>>
             t == <<a, b>> \o <<c>>
  <1>1. <<a>> \in Seq(S) /\ <<b>> \in Seq(S) /\ <<a, b>> \in Seq(S) /\ <<c>> \in Seq(S)
        /\ <<a, b, c>> \in Seq(S)
    OBVIOUS
  <1>2. s \in Seq(S) /\ Len(s) = 2 /\ t \in Seq(S) /\ Len(t) = 3
    BY <1>1, ConcatProperties
  <1>3. s[1] = a /\ s[2] = b
    BY <1>1, ConcatProperties
  <1>4. t[1] = a /\ t[2] = b /\ t[3] = c
    BY <1>1, ConcatProperties
  <1> HIDE DEF s, t
  <1>5. s = <<a, b>>
    BY <1>1, <1>2, <1>3, SeqEqual
  <1>6. t = <<a, b, c>>
    BY <1>1, <1>2, <1>4, SeqEqual
  <1> QED BY <1>5, <1>6 DEF s, t

-----------------------------------------------------------------------------
(* TableTypeOK, OpOK and HandleOK hold after each step                       *)

BaseInv == TableTypeOK /\ OpOK /\ HandleOK

LEMMA AddStepOp ==
  ASSUME OpOK, op.at \in AddStages, NEW to \in AddStages, op' = [op EXCEPT !.at = to]
  PROVE  /\ OpOK' /\ op' \in AddOps /\ op'.at = to
         /\ op'.rule = op.rule /\ op'.entry = op.entry /\ op'.prev = op.prev
         /\ op'.ientry = op.ientry /\ op'.iprev = op.iprev
  <1>1. op \in AddOps
    BY OpShapes
  <1>2. op' \in AddOps
    BY <1>1 DEF AddOps
  <1> QED BY <1>1, <1>2 DEF OpOK, AddOps

LEMMA BaseInit == TableInit => BaseInv
  <1> SUFFICES ASSUME TableInit PROVE BaseInv
    OBVIOUS
  <1>1. tbl \in [TblEntries -> RuleEntry] /\ index \in [TblEntries -> IndexEntry]
    BY NewEntries DEF TableInit
  <1>2. meta \in [TblEntries -> Links] /\ ids \in [RuleHdls -> {id \in 0 .. 2 * (Base + Expn) :
                             id \div 2 < IF id % 2 = 1 THEN Expn ELSE Base}]
    BY Bounds DEF TableInit
  <1>3. op.at = "idle"
    BY DEF TableInit, Idle
  <1>4. TableTypeOK
    BY <1>1, <1>2, <1>3, Bounds, NatAssumption DEF TableTypeOK, TableInit
  <1>5. HandleOK
    BY <1>3, NewEntries DEF TableInit, HandleOK, AddStages
  <1> QED BY <1>4, <1>5 DEF BaseInv, OpOK, TableInit

\* Handles stay right while what they lead to stays in use.
LEMMA HandlesStay ==
  ASSUME HandleOK, ids' = ids, installed' = installed,
         NEW f,  \* an entry that no handle leads to
         op.at \in {"dma", "dead"} => op'.at \in {"dma", "dead"} /\ op'.hdl = op.hdl,
         op'.at \in {"dma", "dead"} => op.at \in {"dma", "dead"},
         op'.at = "dma" =>
           /\ op.at = "dma" /\ op'.entry = op.entry
           /\ \A n \in 1 .. Len(op'.writes) :
                op'.writes[n].field \in {"enabled", "dead"} => op'.writes[n].e = op.entry,
         op'.at \notin AddStages,
         \A h \in RuleHdls : installed[h] # Nil => ids[h] # RuleId(f),
         \A e \in TblEntries : tbl'[e].enabled => tbl'[e].indx # 0,
         \A e \in UsableEntries \ {f}, r \in ClntRules : Matches(e, r) => Matches(e, r)',
         installed \in [RuleHdls -> ClntRules \cup {Nil}]
  PROVE  HandleOK'
  <1>1. \A h \in RuleHdls : ids'[h] # 0 =>
       /\ \E e \in UsableEntries : ids'[h] = RuleId(e)
       /\ h < Base + Expn
       /\ installed'[h] = Nil => op'.at \in {"dma", "dead"} /\ op'.hdl = h
       /\ \A g \in RuleHdls : ids'[g] = ids'[h] => g = h
    BY DEF HandleOK
  <1>2. \A h \in RuleHdls : installed'[h] # Nil =>
       /\ ids'[h] # 0
       /\ \E e \in UsableEntries :
            ids'[h] = RuleId(e) /\ Matches(e, installed[h])'
    <2> TAKE h \in RuleHdls
    <2> HAVE installed'[h] # Nil
    <2>1. installed[h] \in ClntRules /\ ids[h] # 0
      BY DEF HandleOK
    <2>2. PICK e \in UsableEntries : ids[h] = RuleId(e) /\ Matches(e, installed[h])
      BY DEF HandleOK
    <2>3. e # f
      BY <2>2
    <2> QED BY <2>1, <2>2, <2>3
  <1>3. op'.at \in {"dma", "dead"} => installed'[op'.hdl] = Nil
    BY DEF HandleOK
  <1>4. op'.at = "dma" => ids'[op'.hdl] = RuleId(op'.entry)
    BY DEF HandleOK
  <1> QED BY <1>1, <1>2, <1>3, <1>4 DEF HandleOK, Matches
-----------------------------------------------------------------------------
LEMMA BaseAddGenerate ==
  ASSUME BaseInv, NEW r \in ClntRules, AddGenerate(r)
  PROVE  /\ BaseInv'
         /\ op = Idle /\ op' \in AddOps /\ op'.at = "copy" /\ op'.rule = r
         /\ LET p == Place(tbl, DstHash[r], FreeRules)
                i == Place(index, SrcHash[r], FreeIndexes)
            IN  /\ p.entry # 0 /\ i.entry # 0
                /\ op'.entry = p.entry /\ op'.prev = p.prev
                /\ op'.ientry = i.entry /\ op'.iprev = i.prev /\ i.entry # i.prev
                /\ meta' = IF i.entry >= Base THEN [meta EXCEPT ![i.entry] = i.prev] ELSE meta
         /\ UNCHANGED <<tbl, index, ids, installed, failures>>
  <1> DEFINE p == Place(tbl, DstHash[r], FreeRules)
             i == Place(index, SrcHash[r], FreeIndexes)
  <1> USE DEF BaseInv
  <1>1. /\ op = Idle /\ p.entry # 0 /\ i.entry # 0 /\ i.entry # i.prev
        /\ op' = [at |-> "copy", rule |-> r, entry |-> p.entry, prev |-> p.prev,
                  ientry |-> i.entry, iprev |-> i.prev]
        /\ meta' = IF i.entry >= Base THEN [meta EXCEPT ![i.entry] = i.prev] ELSE meta
        /\ UNCHANGED <<tbl, index, ids, installed, failures>>
    BY DEF AddGenerate
  <1>2. /\ p.entry \in FreeRules /\ p.entry \in UsableEntries /\ p.prev \in Links
    <2>1. \/ p.entry = DstHash[r] /\ p.prev = 0 /\ DstHash[r] \in FreeRules
          \/ p.entry \in FreeRules \cap ExpnEntries /\ p.prev \in TblEntries
      BY <1>1, PlaceChooses, TablesTyped, HashesAreBuckets, FreeEntries
    <2> QED BY <2>1, HashesAreBuckets, Bounds DEF UsableEntries
  <1>3. i.entry \in UsableEntries /\ i.prev \in Links
    <2>1. \/ i.entry = SrcHash[r] /\ i.prev = 0 /\ SrcHash[r] \in FreeIndexes
          \/ i.entry \in FreeIndexes \cap ExpnEntries /\ i.prev \in TblEntries
      BY <1>1, PlaceChooses, TablesTyped, HashesAreBuckets, FreeEntries
    <2> QED BY <2>1, HashesAreBuckets, Bounds DEF UsableEntries
  <1> HIDE DEF p, i
  <1>4. /\ op' \in AddOps /\ op'.at = "copy" /\ op'.rule = r /\ op'.entry = p.entry
        /\ op'.prev = p.prev /\ op'.ientry = i.entry /\ op'.iprev = i.prev
    BY <1>1, <1>2, <1>3 DEF AddOps, AddStages
  <1>5. TableTypeOK'
    <2>1. meta' \in [TblEntries -> Links]
      BY <1>1, <1>3 DEF TableTypeOK
    <2> QED BY <1>1, <1>4, <2>1 DEF TableTypeOK
  <1>6. HandleOK'
    <2>1. op.at = "idle" /\ installed \in [RuleHdls -> ClntRules \cup {Nil}]
      BY <1>1 DEF Idle, TableTypeOK
    <2>2. ~ tbl'[op'.entry].enabled
      BY <1>1, <1>2, <1>4 DEF FreeRules
    <2> QED BY <1>1, <1>4, <2>1, <2>2 DEF HandleOK, Matches, AddStages
  <1> QED BY <1>1, <1>4, <1>5, <1>6 DEF p, i, OpOK

LEMMA BaseAddStep ==
  ASSUME BaseInv, AddCopy \/ AddLink \/ AddIndexCopy \/ AddIndexLink
                  \/ AddLinkFails \/ AddIndexLinkFails
  PROVE  BaseInv'
  <1> USE DEF BaseInv
  <1>1. op.at \in AddStages
    BY DEF AddCopy, AddLink, AddIndexCopy, AddIndexLink, AddLinkFails, AddIndexLinkFails,
           AddStep, AddStages
  <1>2. PICK to \in AddStages : op' = [op EXCEPT !.at = to]
    <2>1. PICK from, to : AddStep(from, to) /\ to \in AddStages
      <3>1. CASE AddCopy
        BY <3>1 DEF AddCopy, AddStages
      <3>2. CASE AddLink
        BY <3>2 DEF AddLink, AddStages
      <3>3. CASE AddIndexCopy
        BY <3>3 DEF AddIndexCopy, AddStages
      <3>4. CASE AddIndexLink
        BY <3>4 DEF AddIndexLink, AddStages
      <3>5. CASE AddLinkFails
        BY <3>5 DEF AddLinkFails, AddStages
      <3>6. CASE AddIndexLinkFails
        BY <3>6 DEF AddIndexLinkFails, AddStages
      <3> QED BY <3>1, <3>2, <3>3, <3>4, <3>5, <3>6
    <2> QED BY <2>1 DEF AddStep
  <1>3. op \in AddOps
    BY <1>1, OpShapes
  <1>4. /\ OpOK' /\ op' \in AddOps /\ op'.at = to /\ op'.entry = op.entry
        /\ op'.rule = op.rule
    BY <1>1, <1>2, AddStepOp
  <1>5. UNCHANGED <<meta, ids, installed>>
    BY DEF AddCopy, AddLink, AddIndexCopy, AddIndexLink, AddLinkFails, AddIndexLinkFails,
           AddStep
  <1>6. /\ tbl' \in [TblEntries -> RuleEntry]
        /\ \A e \in TblEntries : tbl'[e].enabled => tbl'[e].indx # 0
        /\ ~ tbl'[op.entry].enabled
        /\ \A e \in UsableEntries, r \in ClntRules : Matches(e, r) => Matches(e, r)'
        /\ /\ tbl'[op.entry].rule = op.rule /\ ~ tbl'[op.entry].dead
           /\ tbl'[op.entry].indx # 0
    <2>1. CASE AddIndexCopy \/ AddIndexLink \/ AddLinkFails \/ AddIndexLinkFails
      <3>1. op.at \in AddStages \ {"copy"} /\ UNCHANGED tbl
        BY <2>1 DEF AddIndexCopy, AddIndexLink, AddLinkFails, AddIndexLinkFails, AddStep,
                    AddStages
      <3> QED BY <1>1, <3>1 DEF TableTypeOK, HandleOK, Matches
    <2>2. CASE AddCopy
      <3>1. NewEntry(op.rule, op.prev, op.ientry) \in RuleEntry
            /\ ~ NewEntry(op.rule, op.prev, op.ientry).enabled
        BY <1>3, NewEntries, Bounds DEF AddOps, UsableEntries
      <3>5. LET n == NewEntry(op.rule, op.prev, op.ientry)
            IN  n.rule = op.rule /\ ~ n.dead /\ n.indx # 0
        BY <1>3, NewEntries, Bounds DEF AddOps, UsableEntries, TblEntries
      <3>2. tbl' = [tbl EXCEPT ![op.entry] = NewEntry(op.rule, op.prev, op.ientry)]
        BY <2>2 DEF AddCopy, NewEntry
      <3>3. tbl' \in [TblEntries -> RuleEntry] /\ \A e \in TblEntries :
              tbl'[e] = IF e = op.entry THEN NewEntry(op.rule, op.prev, op.ientry) ELSE tbl[e]
        BY <3>1, <3>2 DEF TableTypeOK
      <3>4. op.entry \in TblEntries /\ ~ tbl[op.entry].enabled
        BY <1>1, <1>3 DEF AddOps, UsableEntries, HandleOK
      <3> QED BY <3>1, <3>3, <3>4, <3>5 DEF HandleOK, Matches, UsableEntries
    <2>3. CASE AddLink
      <3>1. tbl' = [tbl EXCEPT ![op.prev].next = op.entry] /\ op.entry \in TblEntries
            /\ op.entry \in Links
        BY <1>3, <2>3, Bounds DEF AddLink, AddOps, UsableEntries
      <3>2. tbl' \in [TblEntries -> RuleEntry] /\ \A e \in TblEntries :
              /\ tbl'[e].rule = tbl[e].rule /\ tbl'[e].enabled = tbl[e].enabled
              /\ tbl'[e].dead = tbl[e].dead /\ tbl'[e].indx = tbl[e].indx
        <4>1. tbl \in RuleTables
          BY DEF TableTypeOK, RuleTables
        <4>2. SetsNext(tbl, tbl', op.prev, op.entry) /\ op.entry \in Links
          BY <3>1 DEF SetsNext
        <4>3. tbl' \in RuleTables
          BY <4>1, <4>2, PutNext
        <4>4. \A e \in TblEntries :
              /\ tbl'[e].rule = tbl[e].rule /\ tbl'[e].enabled = tbl[e].enabled
              /\ tbl'[e].dead = tbl[e].dead /\ tbl'[e].indx = tbl[e].indx
          BY <4>1, <4>2, PutNext
        <4> QED BY <4>3, <4>4 DEF RuleTables
      <3>4. op.at = "link" /\ op.entry \in TblEntries
        BY <1>3, <2>3 DEF AddLink, AddStep, AddOps, UsableEntries
      <3> QED BY <1>1, <3>1, <3>2, <3>4 DEF HandleOK, Matches, UsableEntries, AddStages
    <2> QED BY <2>1, <2>2, <2>3
  <1>7. index' \in [TblEntries -> IndexEntry]
    <2>1. CASE UNCHANGED index
      BY <2>1 DEF TableTypeOK
    <2>2. CASE AddIndexCopy
      <3>1. [tbl |-> op.entry, next |-> 0] \in IndexEntry
        BY <1>3, NewEntries, Bounds DEF AddOps, UsableEntries
      <3> QED BY <2>2, <3>1 DEF AddIndexCopy, TableTypeOK
    <2>3. CASE AddIndexLink
      <3>1. index' = [index EXCEPT ![op.iprev].next = op.ientry] /\ op.ientry \in Links
        BY <1>3, <2>3, Bounds DEF AddIndexLink, AddOps, UsableEntries
      <3>2. index \in IndexTables
        BY DEF TableTypeOK, IndexTables
      <3>3. SetsNext(index, index', op.iprev, op.ientry) /\ op.ientry \in Links
        BY <3>1 DEF SetsNext
      <3>4. index' \in IndexTables
        BY <3>2, <3>3, PutIndexNext
      <3> QED BY <3>4 DEF IndexTables
    <2> QED BY <2>1, <2>2, <2>3 DEF AddCopy, AddLink, AddLinkFails, AddIndexLinkFails
  <1>8. failures' \in 0 .. MaxFailures
    BY NatAssumption DEF TableTypeOK, Fails, AddCopy, AddLink, AddIndexCopy, AddIndexLink,
           AddLinkFails, AddIndexLinkFails
  <1>9. TableTypeOK'
    BY <1>4, <1>5, <1>6, <1>7, <1>8 DEF TableTypeOK, AddStages
  <1>10. HandleOK'
    <2>1. /\ op.at \notin {"dma", "dead"} /\ op'.at \notin {"dma", "dead"}
          /\ tbl'[op'.entry].rule = op'.rule /\ ~ tbl'[op'.entry].dead
          /\ tbl'[op'.entry].indx # 0
          /\ ~ tbl'[op'.entry].enabled
          /\ installed \in [RuleHdls -> ClntRules \cup {Nil}]
      BY <1>1, <1>4, <1>6 DEF AddStages, TableTypeOK
    <2>2. \A h \in RuleHdls : installed[h] # Nil =>
            \E e \in UsableEntries : ids'[h] = RuleId(e) /\ Matches(e, installed[h])'
      BY <1>5, <1>6, <2>1 DEF HandleOK
    <2> QED BY <1>5, <1>6, <2>1, <2>2 DEF HandleOK, Matches
  <1> QED BY <1>4, <1>9, <1>10

LEMMA BaseAddEnable ==
  ASSUME BaseInv, AddEnable \/ AddEnableFails
  PROVE  /\ BaseInv'
         /\ AddEnable => FirstHandle \in FreeHdls
  <1> USE DEF BaseInv
  <1>1. op.at = "enable" /\ op \in AddOps /\ op' = Idle /\ op'.at = "idle"
    BY OpShapes DEF AddEnable, AddEnableFails, AddStages, Idle
  <1>2. installed \in [RuleHdls -> ClntRules \cup {Nil}] /\ op.entry \in UsableEntries
        /\ ~ tbl[op.entry].enabled /\ op.rule \in ClntRules
        /\ tbl \in [TblEntries -> RuleEntry]
    BY <1>1 DEF TableTypeOK, HandleOK, AddStages, AddOps
  <1>3. \A h \in RuleHdls : ids[h] # 0 => installed[h] # Nil
    BY <1>1 DEF HandleOK
  <1>4. CASE AddEnableFails
    <2>1. failures' \in 0 .. MaxFailures /\ UNCHANGED <<tbl, index, meta, ids, installed>>
      BY <1>4, NatAssumption DEF AddEnableFails, Fails, TableTypeOK
    <2>2. TableTypeOK'
      BY <1>1, <2>1 DEF TableTypeOK
    <2>3. HandleOK'
      BY <1>1, <1>3, <2>1 DEF HandleOK, Matches, AddStages
    <2>4. ~ AddEnable
      BY <1>2, <1>4 DEF AddEnable, AddEnableFails, Fails, TableTypeOK
    <2> QED BY <1>1, <2>2, <2>3, <2>4 DEF OpOK
  <1>5. CASE AddEnable
    <2>1. FirstHandle \in FreeHdls /\ FirstHandle < Base + Expn
          \* fewer entries are in use than there are handles
      <3> DEFINE K == 1 .. Base + Expn - 1
      <3>1. \E h \in K : ids[h] = 0
        <4>1. SUFFICES ASSUME \A h \in K : ids[h] # 0 PROVE FALSE
          OBVIOUS
        <4> DEFINE f == [h \in K |-> CHOOSE e \in UsableEntries : ids[h] = RuleId(e)]
        <4>2. \A h \in K : f[h] \in UsableEntries /\ ids[h] = RuleId(f[h])
          BY <4>1, Bounds DEF HandleOK, RuleHdls
        <4>3. f \in [K -> UsableEntries]
          BY <4>2
        <4>4. IsFiniteSet(K) /\ IsFiniteSet(UsableEntries)
              /\ Cardinality(UsableEntries) < Cardinality(K)
          <5>1. IsFiniteSet(K) /\ Cardinality(K) = Base + Expn - 1
            BY FS_Interval, Bounds
          <5>2. Base \in K
            BY Bounds
          <5>3. UsableEntries = K \ {Base}
            BY DEF UsableEntries, TblEntries
          <5>4. IsFiniteSet(UsableEntries) /\ Cardinality(UsableEntries) = Cardinality(K) - 1
            BY <5>1, <5>2, <5>3, FS_RemoveElement
          <5> QED BY <5>1, <5>4, Bounds
        <4>5. PICK x, y \in K : x # y /\ f[x] = f[y]
          <5> HIDE DEF f, K
          <5> QED BY <4>3, <4>4, FS_PigeonHole
        <4>6. ids[x] = ids[y] /\ ids[x] # 0 /\ x \in RuleHdls /\ y \in RuleHdls
          BY <4>1, <4>2, <4>5, Bounds DEF RuleHdls
        <4> QED BY <4>5, <4>6 DEF HandleOK
      <3>2. PICK h \in FreeHdls : h < Base + Expn
        BY <3>1, Bounds DEF FreeHdls, RuleHdls
      <3>3. \E m \in FreeHdls : \A k \in FreeHdls : m <= k
        <4>1. FreeHdls \subseteq Nat
          BY Bounds DEF FreeHdls, RuleHdls
        <4> QED BY <3>2, <4>1, LeastOf
      <3>4. FirstHandle \in FreeHdls /\ FirstHandle <= h
        BY <3>3 DEF FirstHandle
      <3> QED BY <3>2, <3>4, Bounds DEF FreeHdls, RuleHdls
    <2> DEFINE g == FirstHandle
    <2>2. g \in RuleHdls /\ ids[g] = 0
      BY <2>1 DEF FreeHdls
    <2>3. /\ tbl' = [tbl EXCEPT ![op.entry].enabled = TRUE]
          /\ ids' = [ids EXCEPT ![g] = RuleId(op.entry)]
          /\ installed' = [installed EXCEPT ![g] = op.rule]
          /\ UNCHANGED <<index, meta, failures>>
      BY <1>5 DEF AddEnable
    <2> HIDE DEF g
    <2>4. tbl' \in [TblEntries -> RuleEntry] /\ \A e \in TblEntries :
            /\ tbl'[e].enabled <=> (e = op.entry \/ tbl[e].enabled)
            /\ tbl'[e].rule = tbl[e].rule /\ tbl'[e].dead = tbl[e].dead
            /\ tbl'[e].indx = tbl[e].indx
      <3>1. tbl' \in [TblEntries -> RuleEntry]
        BY <1>2, <2>3 DEF RuleEntry
      <3>2. \A e \in TblEntries :
              /\ tbl'[e].enabled <=> (e = op.entry \/ tbl[e].enabled)
              /\ tbl'[e].rule = tbl[e].rule /\ tbl'[e].dead = tbl[e].dead
              /\ tbl'[e].indx = tbl[e].indx
        BY <1>2, <2>3 DEF RuleEntry
      <3> QED BY <3>1, <3>2
    <2>5. RuleId(op.entry) # 0 /\ RuleId(op.entry) \in {id \in 0 .. 2 * (Base + Expn) :
                             id \div 2 < IF id % 2 = 1 THEN Expn ELSE Base}
      BY <1>2, RuleIds
    <2>6. TableTypeOK'
      <3>1. ids' \in [RuleHdls -> {id \in 0 .. 2 * (Base + Expn) :
                             id \div 2 < IF id % 2 = 1 THEN Expn ELSE Base}]
        BY <2>3, <2>5 DEF TableTypeOK
      <3>2. installed' \in [RuleHdls -> ClntRules \cup {Nil}]
        BY <1>2, <2>3
      <3> QED BY <1>1, <2>3, <2>4, <3>1, <3>2 DEF TableTypeOK
    <2>7. ASSUME NEW h \in RuleHdls
          PROVE  /\ ids'[h] = IF h = g THEN RuleId(op.entry) ELSE ids[h]
                 /\ installed'[h] = IF h = g THEN op.rule ELSE installed[h]
      BY <2>3 DEF TableTypeOK
    <2>8. \A h \in RuleHdls : ids[h] # RuleId(op.entry)
      <3>1. SUFFICES ASSUME NEW h \in RuleHdls, ids[h] = RuleId(op.entry) PROVE FALSE
        OBVIOUS
      <3>2. PICK e \in UsableEntries : ids[h] = RuleId(e) /\ Matches(e, installed[h])
        BY <1>3, <2>5, <3>1 DEF HandleOK
      <3>3. e = op.entry
        BY <1>2, <3>1, <3>2, RuleIds
      <3> QED BY <1>2, <3>2, <3>3 DEF Matches
    <2>9. HandleOK'
      <3>1. /\ op'.at \notin AddStages \cup {"dma", "dead"} /\ op.at \notin {"dma", "dead"}
            /\ op.at \in AddStages \ {"copy"} /\ op.entry \in TblEntries
        BY <1>1, <1>2 DEF AddStages, UsableEntries
      <3>2. tbl[op.entry].rule = op.rule /\ ~ tbl[op.entry].dead /\ tbl[op.entry].indx # 0
        BY <3>1 DEF HandleOK
      <3>3. \A e \in TblEntries : tbl'[e].enabled => tbl'[e].indx # 0
        <4>1. \A e \in TblEntries : e # op.entry /\ tbl'[e].enabled => tbl[e].enabled
          BY <2>4
        <4>2. \A e \in TblEntries : tbl'[e].indx = tbl[e].indx
          BY <2>4
        <4>3. \A e \in TblEntries : tbl[e].enabled => tbl[e].indx # 0
          BY DEF HandleOK
        <4> QED BY <4>1, <4>2, <4>3, <3>2
      <3>4. \A h \in RuleHdls : ids'[h] # 0 =>
              /\ \E e \in UsableEntries : ids'[h] = RuleId(e)
              /\ h < Base + Expn
              /\ installed'[h] # Nil
              /\ \A k \in RuleHdls : ids'[k] = ids'[h] => k = h
        <4>1. SUFFICES ASSUME NEW h \in RuleHdls, ids'[h] # 0
                       PROVE  /\ \E e \in UsableEntries : ids'[h] = RuleId(e)
                              /\ h < Base + Expn
                              /\ installed'[h] # Nil
                              /\ \A k \in RuleHdls : ids'[k] = ids'[h] => k = h
          OBVIOUS
        <4>2. CASE h = g
          BY <1>2, <2>1, <2>7, <2>8, <4>2, NatAssumption DEF g
        <4>3. CASE h # g
          <5>1. ids'[h] = ids[h] /\ installed'[h] = installed[h] /\ ids[h] # 0
            BY <2>7, <4>1, <4>3
          <5>2. \A k \in RuleHdls : ids'[k] = ids'[h] => k = h
            BY <2>2, <2>7, <2>8, <5>1 DEF HandleOK
          <5> QED BY <1>3, <5>1, <5>2 DEF HandleOK
        <4> QED BY <4>2, <4>3
      <3>5. \A h \in RuleHdls : installed'[h] # Nil =>
              /\ ids'[h] # 0
              /\ \E e \in UsableEntries :
                   ids'[h] = RuleId(e) /\ Matches(e, installed[h])'
        <4>1. SUFFICES ASSUME NEW h \in RuleHdls, installed'[h] # Nil
                       PROVE  /\ ids'[h] # 0
                              /\ \E e \in UsableEntries :
                                   ids'[h] = RuleId(e) /\ Matches(e, installed[h])'
          OBVIOUS
        <4>2. CASE h = g
          <5>2. tbl'[op.entry].enabled
            BY <2>4, <3>1
          <5>3. ~ tbl'[op.entry].dead /\ tbl'[op.entry].rule = installed'[h]
            BY <2>4, <2>7, <3>1, <3>2, <4>2
          <5>5. PICK e \in UsableEntries : e = op.entry
            BY <1>2
          <5>1. Matches(e, installed[h])'
            BY <5>2, <5>3, <5>5 DEF Matches
          <5>4. ids'[h] = RuleId(op.entry) /\ ids'[h] # 0
            BY <2>5, <2>7, <4>2
          <5> QED BY <5>1, <5>4, <5>5
        <4>3. CASE h # g
          <5>1. ids'[h] = ids[h] /\ installed'[h] = installed[h]
            BY <2>7, <4>3
          <5>2. PICK e \in UsableEntries : ids[h] = RuleId(e) /\ Matches(e, installed[h])
            BY <4>1, <5>1 DEF HandleOK
          <5>3. Matches(e, installed[h])'
            BY <2>4, <5>1, <5>2 DEF Matches, UsableEntries
          <5> QED BY <4>1, <5>1, <5>2, <5>3 DEF HandleOK
        <4> QED BY <4>2, <4>3
      <3> QED BY <3>1, <3>3, <3>4, <3>5 DEF HandleOK
    <2> QED BY <1>1, <2>1, <2>6, <2>9 DEF OpOK
  <1> QED BY <1>4, <1>5

-----------------------------------------------------------------------------
\* The commands of a deletion, one by one
RuleCommand(e) ==
  CASE Position(tbl, e) = "only_one" -> Write("tbl", e, "enabled", FALSE)
    [] Position(tbl, e) = "head" -> Write("tbl", e, "dead", TRUE)
    [] OTHER -> Write("tbl", tbl[e].prev, "next", tbl[e].next)
MoveCommand(i) == Write("index", i, "tbl", index[index[i].next].tbl)
IndexCommand(i) ==
  CASE Position(index, i) = "only_one" -> Write("index", i, "tbl", 0)
    [] Position(index, i) = "head" -> Write("index", i, "next", index[index[i].next].next)
    [] OTHER -> Write("index", meta[i], "next", index[i].next)

LEMMA CommandsAre ==
  ASSUME NEW e, NEW i, i = tbl[e].indx
  PROVE  Commands(e) = IF Position(index, i) = "head"
                         THEN <<MoveCommand(i), IndexCommand(i), RuleCommand(e)>>
                         ELSE <<IndexCommand(i), RuleCommand(e)>>
  <1>1. PICK c : c = RuleCommand(e)
    OBVIOUS
  <1>2. RuleWrites(e) = <<c>>
    BY <1>1 DEF RuleWrites, RuleCommand
  <1>3. PICK a, b : a = MoveCommand(i) /\ b = IndexCommand(i)
    OBVIOUS
  <1>4. IndexWrites(i) = IF Position(index, i) = "head" THEN <<a, b>> ELSE <<b>>
    BY <1>3 DEF IndexWrites, MoveCommand, IndexCommand
  <1>5. Commands(e) = IndexWrites(i) \o <<c>>
    BY <1>2 DEF Commands
  <1>6. <<b>> \o <<c>> = <<b, c>> /\ <<a, b>> \o <<c>> = <<a, b, c>>
    BY Concatenated
  <1> QED BY <1>1, <1>3, <1>4, <1>5, <1>6

LEMMA PositionsAre ==
  ASSUME NEW t, HasLinks(t), NEW e \in TblEntries
  PROVE  /\ Position(t, e) \in Positions
         /\ Position(t, e) \in {"only_one", "head"} <=> e < Base
         /\ Position(t, e) \in {"only_one", "last"} <=> t[e].next = 0
  BY DEF Position, Positions

LEMMA CommandsTyped ==
  ASSUME TableTypeOK, NEW e \in TblEntries, NEW i \in TblEntries
  PROVE  /\ RuleCommand(e) \in Writes /\ IndexCommand(i) \in Writes
         /\ Position(index, i) = "head" => MoveCommand(i) \in Writes
         /\ RuleCommand(e).field \in {"enabled", "dead"} => RuleCommand(e).e = e
         /\ IndexCommand(i).field \in {"tbl", "next"} /\ MoveCommand(i).field = "tbl"
  <1>1. /\ tbl[e].prev \in Links /\ tbl[e].next \in Links /\ i \in Links /\ 0 \in Links
        /\ index[i].next \in Links /\ meta[i] \in Links
    BY Bounds, TablesTyped DEF RuleEntry, IndexEntry
  <1>2. Position(index, i) = "head" => index[i].next \in TblEntries
    BY <1>1, Bounds DEF Position
  <1>3. Position(index, i) = "head" =>
          index[index[i].next].tbl \in Links /\ index[index[i].next].next \in Links
    BY <1>2, TablesTyped DEF IndexEntry
  <1>4. /\ RuleCommand(e) \in Writes
        /\ RuleCommand(e).field \in {"enabled", "dead"} => RuleCommand(e).e = e
    <2>1. CASE Position(tbl, e) = "only_one"
      <3>1. RuleCommand(e) = Write("tbl", e, "enabled", FALSE)
        BY <2>1 DEF RuleCommand
      <3> QED BY <3>1 DEF Write, Writes
    <2>2. CASE Position(tbl, e) = "head"
      <3>1. RuleCommand(e) = Write("tbl", e, "dead", TRUE)
        BY <2>2 DEF RuleCommand
      <3> QED BY <3>1 DEF Write, Writes
    <2>3. CASE Position(tbl, e) \notin {"only_one", "head"}
      <3>1. RuleCommand(e) = Write("tbl", tbl[e].prev, "next", tbl[e].next)
        BY <2>3 DEF RuleCommand
      <3> QED BY <1>1, <3>1 DEF Write, Writes
    <2> QED BY <2>1, <2>2, <2>3
  <1>5. IndexCommand(i) \in Writes /\ IndexCommand(i).field \in {"tbl", "next"}
    <2>1. CASE Position(index, i) = "only_one"
      <3>1. IndexCommand(i) = Write("index", i, "tbl", 0)
        BY <2>1 DEF IndexCommand
      <3> QED BY <1>1, <3>1 DEF Write, Writes
    <2>2. CASE Position(index, i) = "head"
      <3>1. IndexCommand(i) = Write("index", i, "next", index[index[i].next].next)
        BY <2>2 DEF IndexCommand
      <3> QED BY <1>1, <1>3, <2>2, <3>1 DEF Write, Writes
    <2>3. CASE Position(index, i) \notin {"only_one", "head"}
      <3>1. IndexCommand(i) = Write("index", meta[i], "next", index[i].next)
        BY <2>3 DEF IndexCommand
      <3> QED BY <1>1, <3>1 DEF Write, Writes
    <2> QED BY <2>1, <2>2, <2>3
  <1>6. MoveCommand(i).field = "tbl" /\ (Position(index, i) = "head" => MoveCommand(i) \in Writes)
    BY <1>1, <1>3 DEF MoveCommand, Write, Writes
  <1> QED BY <1>4, <1>5, <1>6

\* What a deletion has when it begins
Begins(h, e, i) ==
  /\ op = Idle /\ installed[h] # Nil /\ ids[h] = RuleId(e)
  /\ h \in RuleHdls /\ e \in UsableEntries /\ i \in TblEntries /\ i = tbl[e].indx
  /\ tbl[e].enabled /\ ~ tbl[e].dead /\ tbl[e].rule = installed[h]
  /\ op'.at = "dma" /\ op'.hdl = h /\ op'.entry = e /\ op'.ientry = i
  /\ op'.pos = Position(tbl, e) /\ op'.ipos = Position(index, i)
  /\ op'.moved = index[i].next /\ op'.writes = Commands(e)
  /\ installed' = [installed EXCEPT ![h] = Nil]
  /\ UNCHANGED <<tbl, index, meta, ids, failures>>

LEMMA BaseDeleteBegin ==
  ASSUME BaseInv, NEW h \in RuleHdls, DeleteBegin(h)
  PROVE  /\ BaseInv' /\ op' \in DmaOps
         /\ \E e \in UsableEntries, i \in TblEntries : Begins(h, e, i)
  <1> USE DEF BaseInv
  <1>1. PICK e \in UsableEntries : ids[h] = RuleId(e) /\ Matches(e, installed[h])
    BY DEF DeleteBegin, HandleOK
  <1>2. ParseId(ids[h]) = e
    BY <1>1, RuleIds
  <1>3. PICK i \in TblEntries : i = tbl[e].indx
    <2>1. tbl[e].indx # 0 /\ tbl[e].indx \in Links
      BY <1>1, TablesTyped DEF HandleOK, Matches, UsableEntries, RuleEntry
    <2> QED BY <2>1, Bounds
  <1>4. op' = [at |-> "dma", hdl |-> h, entry |-> e, ientry |-> i,
               pos |-> Position(tbl, e), ipos |-> Position(index, i),
               moved |-> index[i].next, writes |-> Commands(e)]
    BY <1>2, <1>3 DEF DeleteBegin
  <1>5. Begins(h, e, i)
    BY <1>1, <1>2, <1>3, <1>4 DEF Begins, DeleteBegin, Matches
  <1>6. Commands(e) \in Seq(Writes) /\ \A n \in 1 .. Len(Commands(e)) :
          Commands(e)[n].field \in {"enabled", "dead"} => Commands(e)[n].e = e
    <2>1. PICK a, b, c : a = MoveCommand(i) /\ b = IndexCommand(i) /\ c = RuleCommand(e)
      OBVIOUS
    <2>2. /\ b \in Writes /\ c \in Writes /\ a.field = "tbl" /\ b.field \in {"tbl", "next"}
          /\ Position(index, i) = "head" => a \in Writes
          /\ c.field \in {"enabled", "dead"} => c.e = e
      BY <2>1, CommandsTyped DEF UsableEntries
    <2>3. Commands(e) = IF Position(index, i) = "head" THEN <<a, b, c>> ELSE <<b, c>>
      BY <1>3, <2>1, CommandsAre
    <2>4. CASE Position(index, i) = "head"
      BY <2>2, <2>3, <2>4
    <2>5. CASE Position(index, i) # "head"
      BY <2>2, <2>3, <2>5
    <2> QED BY <2>4, <2>5
  <1>7. Position(tbl, e) \in Positions /\ Position(index, i) \in Positions
        /\ index[i].next \in Links
    BY PositionsAre, TablesTyped DEF UsableEntries, HasLinks
  <1>8. PICK s, m, p, q : s = Commands(e) /\ m = index[i].next
                          /\ p = Position(tbl, e) /\ q = Position(index, i)
    OBVIOUS
  <1>9. op' \in DmaOps
    <2>1. op' = [at |-> "dma", hdl |-> h, entry |-> e, ientry |-> i,
               pos |-> p, ipos |-> q, moved |-> m, writes |-> s]
      BY <1>4, <1>8
    <2>2. s \in Seq(Writes) /\ m \in Links /\ p \in Positions /\ q \in Positions
      BY <1>6, <1>7, <1>8
    <2> QED BY <2>1, <2>2 DEF DmaOps
  <1>10. installed' \in [RuleHdls -> ClntRules \cup {Nil}]
         /\ installed'[h] = Nil /\ \A g \in RuleHdls \ {h} : installed'[g] = installed[g]
    BY <1>5 DEF TableTypeOK, Begins
  <1>11. TableTypeOK'
    BY <1>5, <1>10 DEF TableTypeOK, Begins
  <1>12. HandleOK'
    <2>1. \A g \in RuleHdls : ids[g] # 0 => installed[g] # Nil
      BY <1>5 DEF Begins, HandleOK, Idle
    <2>2. \A g \in RuleHdls : ids'[g] # 0 =>
            /\ \E f \in UsableEntries : ids'[g] = RuleId(f)
            /\ g < Base + Expn
            /\ installed'[g] = Nil => op'.at = "dma" /\ op'.hdl = g
            /\ \A k \in RuleHdls : ids'[k] = ids'[g] => k = g
      BY <1>5, <1>10, <2>1 DEF HandleOK, Begins
    <2>3. \A g \in RuleHdls : installed'[g] # Nil =>
            ids'[g] # 0 /\ \E f \in UsableEntries : ids'[g] = RuleId(f) /\ Matches(f, installed[g])'
      BY <1>5, <1>10 DEF HandleOK, Begins, Matches
    <2>4. \A n \in 1 .. Len(op'.writes) :
            op'.writes[n].field \in {"enabled", "dead"} => op'.writes[n].e = op'.entry
      BY <1>5, <1>6 DEF Begins
    <2> QED BY <1>5, <1>10, <2>2, <2>3, <2>4 DEF HandleOK, Begins, AddStages
  <1> QED BY <1>5, <1>9, <1>11, <1>12 DEF OpOK

-----------------------------------------------------------------------------
\* One command is carried out.
Carries(w) ==
  /\ w.t = "tbl" => /\ index' = index
                    /\ \/ w.field = "enabled" /\ w.value = FALSE
                          /\ tbl' = [tbl EXCEPT ![w.e].enabled = FALSE]
                       \/ w.field = "dead" /\ w.value = TRUE
                          /\ tbl' = [tbl EXCEPT ![w.e].dead = TRUE]
                       \/ w.field = "next" /\ w.value \in Links
                          /\ tbl' = [tbl EXCEPT ![w.e].next = w.value]
  /\ w.t = "index" => /\ tbl' = tbl /\ w.value \in Links
                      /\ \/ w.field = "tbl" /\ index' = [index EXCEPT ![w.e].tbl = w.value]
                         \/ w.field = "next" /\ index' = [index EXCEPT ![w.e].next = w.value]

LEMMA DmaCarries ==
  ASSUME OpOK, DeleteDma
  PROVE  /\ op \in DmaOps /\ op.writes \in Seq(Writes) /\ op.writes # <<>>
         /\ Head(op.writes) \in Writes /\ Carries(Head(op.writes))
         /\ Head(op.writes).t \in {"tbl", "index"}
         /\ op' = [op EXCEPT !.writes = Tail(op.writes)]
         /\ op' \in DmaOps /\ UNCHANGED <<meta, ids, installed, failures>>
  <1>1. op \in DmaOps /\ op.writes \in Seq(Writes) /\ op.writes # <<>>
    BY OpShapes DEF DeleteDma, DmaOps
  <1>2. PICK w : w = Head(op.writes)
    OBVIOUS
  <1>3. w \in Writes
    BY <1>1, <1>2
  <1>4. /\ w.t = "tbl" => tbl' = [tbl EXCEPT ![w.e][w.field] = w.value] /\ index' = index
        /\ w.t # "tbl" => index' = [index EXCEPT ![w.e][w.field] = w.value] /\ tbl' = tbl
    BY <1>2 DEF DeleteDma
  <1>5. Carries(w)
    <2>1. CASE w \in [t : {"tbl"}, e : TblEntries, field : {"enabled"}, value : {FALSE}]
      <3>1. w.t = "tbl" /\ w.field = "enabled" /\ w.value = FALSE
        BY <2>1
      <3>2. tbl' = [tbl EXCEPT ![w.e].enabled = FALSE] /\ index' = index
        BY <1>4, <3>1
      <3> QED BY <3>1, <3>2 DEF Carries
    <2>2. CASE w \in [t : {"tbl"}, e : TblEntries, field : {"dead"}, value : {TRUE}]
      <3>1. w.t = "tbl" /\ w.field = "dead" /\ w.value = TRUE
        BY <2>2
      <3>2. tbl' = [tbl EXCEPT ![w.e].dead = TRUE] /\ index' = index
        BY <1>4, <3>1
      <3> QED BY <3>1, <3>2 DEF Carries
    <2>3. CASE w \in [t : {"tbl"}, e : Links, field : {"next"}, value : Links]
      <3>1. w.t = "tbl" /\ w.field = "next" /\ w.value \in Links
        BY <2>3
      <3>2. tbl' = [tbl EXCEPT ![w.e].next = w.value] /\ index' = index
        BY <1>4, <3>1
      <3> QED BY <3>1, <3>2 DEF Carries
    <2>4. CASE w \in [t : {"index"}, e : Links, field : {"tbl", "next"}, value : Links]
      <3>1. w.t = "index" /\ w.field \in {"tbl", "next"} /\ w.value \in Links
        BY <2>4
      <3>2. tbl' = tbl
        BY <1>4, <3>1
      <3>3. CASE w.field = "tbl"
        <4>1. index' = [index EXCEPT ![w.e].tbl = w.value]
          BY <1>4, <3>1, <3>3
        <4> QED BY <3>1, <3>2, <3>3, <4>1 DEF Carries
      <3>4. CASE w.field = "next"
        <4>1. index' = [index EXCEPT ![w.e].next = w.value]
          BY <1>4, <3>1, <3>4
        <4> QED BY <3>1, <3>2, <3>4, <4>1 DEF Carries
      <3> QED BY <3>1, <3>3, <3>4
    <2> QED BY <1>3, <2>1, <2>2, <2>3, <2>4 DEF Writes
  <1>6. Tail(op.writes) \in Seq(Writes) /\ w.t \in {"tbl", "index"}
    <2>1. Tail(op.writes) \in Seq(Writes)
      BY <1>1
    <2>2. w.t \in {"tbl", "index"}
      BY <1>3 DEF Writes
    <2> QED BY <2>1, <2>2
  <1>7. op' = [op EXCEPT !.writes = Tail(op.writes)]
        /\ UNCHANGED <<meta, ids, installed, failures>>
    BY DEF DeleteDma
  <1>8. op' \in DmaOps
    <2>1. PICK S, s : S = Seq(Writes) /\ s \in S /\ s = Tail(op.writes)
      BY <1>6
    <2>2. op' = [op EXCEPT !.writes = s]
      BY <1>7, <2>1
    <2>3. DmaOps = [at : {"dma"}, hdl : RuleHdls, entry : UsableEntries, ientry : TblEntries,
                    pos : Positions, ipos : Positions, moved : Links, writes : S]
      BY <2>1 DEF DmaOps
    <2>4. PICK D : D = DmaOps /\ op \in D
      BY <1>1
    <2>5. D = [at : {"dma"}, hdl : RuleHdls, entry : UsableEntries, ientry : TblEntries,
               pos : Positions, ipos : Positions, moved : Links, writes : S] /\ s \in S
      BY <2>1, <2>3, <2>4
    <2>6. op' \in D
      BY <2>2, <2>4, <2>5
    <2> QED BY <2>4, <2>6
  <1> QED BY <1>1, <1>2, <1>3, <1>5, <1>6, <1>7, <1>8

LEMMA BaseDeleteDma ==
  ASSUME BaseInv, DeleteDma
  PROVE  BaseInv'
  <1> USE DEF BaseInv
  <1>1. /\ op \in DmaOps /\ op.writes \in Seq(Writes) /\ op.writes # <<>>
        /\ op' = [op EXCEPT !.writes = Tail(op.writes)]
        /\ op' \in DmaOps /\ UNCHANGED <<meta, ids, installed, failures>>
    BY DmaCarries
  <1>2. PICK w \in Writes : w = Head(op.writes) /\ Carries(w) /\ w.t \in {"tbl", "index"}
    BY DmaCarries
  <1>3. op.at = "dma" /\ op'.at = "dma" /\ op'.hdl = op.hdl /\ op'.entry = op.entry
        /\ op.hdl \in RuleHdls /\ op.entry \in UsableEntries /\ op'.writes = Tail(op.writes)
    BY <1>1 DEF DmaOps
  <1>4. w.field \in {"enabled", "dead"} => w.e = op.entry
    <2>1. op.writes[1] = w /\ 1 \in 1 .. Len(op.writes)
      BY <1>1, <1>2
    <2> QED BY <1>3, <2>1 DEF HandleOK
  <1>5. \A n \in 1 .. Len(op'.writes) :
          op'.writes[n].field \in {"enabled", "dead"} => op'.writes[n].e = op.entry
    <2>0. PICK s \in Seq(Writes) : s = op.writes /\ s # <<>>
      BY <1>1
    <2>1. PICK u \in Seq(Writes) : u = op'.writes /\ u = Tail(s)
      <3>1. Tail(s) \in Seq(Writes) /\ op'.writes = Tail(s)
        BY <1>3, <2>0
      <3> QED BY <3>1
    <2>2. \A n \in 1 .. Len(u) : u[n] = s[n + 1] /\ n + 1 \in 1 .. Len(s)
      BY <2>0, <2>1
    <2>3. \A n \in 1 .. Len(s) : s[n].field \in {"enabled", "dead"} => s[n].e = op.entry
      BY <1>3, <2>0 DEF HandleOK
    <2>4. \A n \in 1 .. Len(u) : u[n].field \in {"enabled", "dead"} => u[n].e = op.entry
      BY <2>2, <2>3
    <2> QED BY <2>1, <2>4
  <1>6. tbl \in [TblEntries -> RuleEntry] /\ index \in [TblEntries -> IndexEntry]
    BY DEF TableTypeOK
  <1>7. /\ tbl' \in [TblEntries -> RuleEntry]
        /\ \A e \in TblEntries : tbl'[e].enabled => tbl[e].enabled
        /\ \A e \in TblEntries : tbl'[e].indx = tbl[e].indx /\ tbl'[e].rule = tbl[e].rule
        /\ \A e \in TblEntries : e # op.entry =>
             (tbl'[e].enabled <=> tbl[e].enabled) /\ (tbl'[e].dead <=> tbl[e].dead)
    <2>1. CASE w.t = "index"
      <3>1. tbl' = tbl
        BY <1>2, <2>1 DEF Carries
      <3> QED BY <1>6, <3>1
    <2>2. CASE w.t = "tbl" /\ tbl' = [tbl EXCEPT ![w.e].enabled = FALSE]
               /\ w.field = "enabled"
      <3>1. tbl' \in [TblEntries -> RuleEntry]
        BY <1>6, <2>2 DEF RuleEntry
      <3>2. \A e \in TblEntries : /\ tbl'[e].enabled => tbl[e].enabled
                                  /\ tbl'[e].indx = tbl[e].indx /\ tbl'[e].rule = tbl[e].rule
                                  /\ tbl'[e].dead <=> tbl[e].dead
                                  /\ e # w.e => (tbl'[e].enabled <=> tbl[e].enabled)
        BY <1>6, <2>2 DEF RuleEntry
      <3> QED BY <1>4, <2>2, <3>1, <3>2
    <2>3. CASE w.t = "tbl" /\ tbl' = [tbl EXCEPT ![w.e].dead = TRUE] /\ w.field = "dead"
      <3>1. tbl' \in [TblEntries -> RuleEntry]
        BY <1>6, <2>3 DEF RuleEntry
      <3>2. \A e \in TblEntries : /\ tbl'[e].enabled <=> tbl[e].enabled
                                  /\ tbl'[e].indx = tbl[e].indx /\ tbl'[e].rule = tbl[e].rule
                                  /\ e # w.e => (tbl'[e].dead <=> tbl[e].dead)
        BY <1>6, <2>3 DEF RuleEntry
      <3> QED BY <1>4, <2>3, <3>1, <3>2
    <2>4. CASE w.t = "tbl" /\ tbl' = [tbl EXCEPT ![w.e].next = w.value] /\ w.value \in Links
      <3>1. tbl' \in [TblEntries -> RuleEntry]
        BY <1>6, <2>4 DEF RuleEntry
      <3>2. \A e \in TblEntries : /\ tbl'[e].enabled <=> tbl[e].enabled
                                  /\ tbl'[e].indx = tbl[e].indx /\ tbl'[e].rule = tbl[e].rule
                                  /\ tbl'[e].dead <=> tbl[e].dead
        BY <1>6, <2>4 DEF RuleEntry
      <3> QED BY <3>1, <3>2
    <2> QED BY <1>2, <2>1, <2>2, <2>3, <2>4 DEF Carries
  <1>8. index' \in [TblEntries -> IndexEntry]
    <2>1. CASE index' = index
      BY <1>6, <2>1
    <2>2. CASE index' = [index EXCEPT ![w.e].tbl = w.value] /\ w.value \in Links
      BY <1>6, <2>2 DEF IndexEntry
    <2>3. CASE index' = [index EXCEPT ![w.e].next = w.value] /\ w.value \in Links
      BY <1>6, <2>3 DEF IndexEntry
    <2> QED BY <1>2, <2>1, <2>2, <2>3 DEF Carries
  <1>9. TableTypeOK'
    BY <1>1, <1>3, <1>7, <1>8 DEF TableTypeOK
  <1>10. HandleOK'
    <2>1. \A e \in TblEntries : tbl'[e].enabled => tbl'[e].indx # 0
      BY <1>7 DEF HandleOK
    <2>2. \A h \in RuleHdls : installed[h] # Nil => ids[h] # RuleId(op.entry)
      BY <1>3 DEF HandleOK
    <2>3. \A e \in UsableEntries \ {op.entry}, r \in ClntRules : Matches(e, r) => Matches(e, r)'
      BY <1>7 DEF Matches, UsableEntries
    <2>4. op'.at \notin AddStages /\ installed \in [RuleHdls -> ClntRules \cup {Nil}]
      BY <1>3 DEF AddStages, TableTypeOK
    <2> QED BY <1>1, <1>3, <1>5, <2>1, <2>2, <2>3, <2>4, HandlesStay
  <1> QED BY <1>1, <1>9, <1>10 DEF OpOK

\* What DeleteClean does to the rules' table
CleanedRule(t, u) ==
  /\ u \in [TblEntries -> RuleEntry]
  /\ \A e \in TblEntries : e = op.entry /\ op.pos # "head" => u[e] = NoRule
  /\ \A e \in TblEntries : e # op.entry \/ op.pos = "head" =>
       /\ u[e].rule = t[e].rule /\ u[e].next = t[e].next /\ u[e].indx = t[e].indx
       /\ u[e].enabled <=> t[e].enabled
       /\ u[e].dead <=> t[e].dead
       /\ u[e].prev = IF op.pos = "middle" /\ e = t[op.entry].next
                        THEN t[op.entry].prev ELSE t[e].prev

LEMMA CleanRuleIs ==
  ASSUME tbl \in [TblEntries -> RuleEntry], op.entry \in TblEntries
  PROVE  CleanedRule(tbl, CleanRule(tbl))
  <1>1. PICK e \in TblEntries : e = op.entry
    OBVIOUS
  <1>2. PICK n, p : n = tbl[e].next /\ p = tbl[e].prev /\ p \in Links
    BY DEF RuleEntry
  <1>3. PICK u : u = IF op.pos = "middle" THEN [tbl EXCEPT ![n].prev = p] ELSE tbl
    OBVIOUS
  <1>4. CleanRule(tbl) = IF op.pos = "head" THEN u ELSE [u EXCEPT ![e] = NoRule]
    BY <1>1, <1>2, <1>3 DEF CleanRule
  <1>5. u \in [TblEntries -> RuleEntry]
    BY <1>2, <1>3 DEF RuleEntry
  <1>6. \A f \in TblEntries :
          /\ u[f].rule = tbl[f].rule /\ u[f].next = tbl[f].next /\ u[f].indx = tbl[f].indx
          /\ u[f].enabled <=> tbl[f].enabled
          /\ u[f].dead <=> tbl[f].dead
          /\ u[f].prev = IF op.pos = "middle" /\ f = n THEN p ELSE tbl[f].prev
    <2>1. CASE op.pos = "middle"
      <3>1. u = [tbl EXCEPT ![n].prev = p]
        BY <1>3, <2>1
      <3> QED BY <1>2, <2>1, <3>1 DEF RuleEntry
    <2>2. CASE op.pos # "middle"
      BY <1>3, <2>2
    <2> QED BY <2>1, <2>2
  <1>7. CASE op.pos = "head"
    <2>1. CleanRule(tbl) = u
      BY <1>4, <1>7
    <2> QED BY <1>1, <1>2, <1>5, <1>6, <1>7, <2>1 DEF CleanedRule
  <1>8. CASE op.pos # "head"
    <2>1. PICK v : v = [u EXCEPT ![e] = NoRule]
      OBVIOUS
    <2>2. CleanRule(tbl) = v
      BY <1>4, <1>8, <2>1
    <2>3. NoRule \in RuleEntry
      BY NewEntries
    <2>4. v \in [TblEntries -> RuleEntry] /\ v[e] = NoRule
          /\ \A f \in TblEntries : f # e => v[f] = u[f]
      BY <1>5, <2>1, <2>3
    <2> QED BY <1>1, <1>2, <1>6, <1>8, <2>2, <2>4 DEF CleanedRule
  <1> QED BY <1>7, <1>8

LEMMA DeleteCleans ==
  ASSUME TableTypeOK, OpOK, DeleteClean
  PROVE  /\ op \in DmaOps /\ op.writes = <<>> /\ op'.at = "dead" /\ op' \in DeadOps
         /\ op'.hdl = op.hdl /\ op.entry \in TblEntries
         /\ UNCHANGED <<ids, installed, failures>>
         /\ IF op.ipos = "head" THEN CleanIndexHead ELSE CleanIndexEntry
         /\ tbl' \in [TblEntries -> RuleEntry] /\ index' \in [TblEntries -> IndexEntry]
         /\ meta' \in [TblEntries -> Links]
         /\ \E u : /\ CleanedRule(tbl, u)
                   /\ op.ipos # "head" => tbl' = u
                   /\ op.ipos = "head" =>
                        tbl' = [u EXCEPT ![index[op.ientry].tbl].indx = op.ientry]
  <1>1. op \in DmaOps /\ op.writes = <<>> /\ op' = [at |-> "dead", hdl |-> op.hdl]
        /\ UNCHANGED <<ids, installed, failures>>
        /\ IF op.ipos = "head" THEN CleanIndexHead ELSE CleanIndexEntry
    BY OpShapes DEF DeleteClean
  <1>2. op.hdl \in RuleHdls /\ op.entry \in TblEntries /\ op.ientry \in TblEntries
    BY <1>1 DEF DmaOps, UsableEntries
  <1>3. op'.at = "dead" /\ op' \in DeadOps /\ op'.hdl = op.hdl
    BY <1>1, <1>2 DEF DeadOps
  <1>4. tbl \in [TblEntries -> RuleEntry] /\ index \in [TblEntries -> IndexEntry]
        /\ meta \in [TblEntries -> Links]
    BY DEF TableTypeOK
  <1>5. PICK u : u = CleanRule(tbl)
    OBVIOUS
  <1>6. CleanedRule(tbl, u)
    BY <1>2, <1>4, <1>5, CleanRuleIs
  <1>7. u \in [TblEntries -> RuleEntry]
    BY <1>6 DEF CleanedRule
  <1>8. index[op.ientry] \in IndexEntry /\ meta[op.ientry] \in Links /\ op.ientry \in Links
    BY <1>2, <1>4, Bounds
  <1>9. /\ op.ipos # "head" => tbl' = u
        /\ op.ipos = "head" => tbl' = [u EXCEPT ![index[op.ientry].tbl].indx = op.ientry]
    BY <1>1, <1>5 DEF CleanIndexHead, CleanIndexEntry
  <1>10. tbl' \in [TblEntries -> RuleEntry]
    <2>1. CASE op.ipos = "head"
      <3>1. tbl' = [u EXCEPT ![index[op.ientry].tbl].indx = op.ientry]
        BY <1>9, <2>1
      <3> QED BY <1>7, <1>8, <3>1 DEF RuleEntry
    <2> QED BY <1>7, <1>9, <2>1
  <1>11. index' \in [TblEntries -> IndexEntry]
    <2>1. NoIndex \in IndexEntry
      BY NewEntries
    <2>2. \E n : index' = [index EXCEPT ![n] = NoIndex]
      BY <1>1 DEF CleanIndexHead, CleanIndexEntry
    <2> QED BY <1>4, <2>1, <2>2
  <1>12. meta' \in [TblEntries -> Links]
    <2>1. CASE op.ipos = "head"
      BY <1>1, <1>4, <1>8, <2>1 DEF CleanIndexHead, MetaAfterHead
    <2>2. CASE op.ipos # "head"
      <3>1. 0 \in Links
        BY Bounds
      <3> QED BY <1>1, <1>4, <1>8, <2>2, <3>1 DEF CleanIndexEntry
    <2> QED BY <2>1, <2>2
  <1> QED BY <1>1, <1>2, <1>3, <1>6, <1>9, <1>10, <1>11, <1>12

LEMMA BaseDeleteClean ==
  ASSUME BaseInv, DeleteClean
  PROVE  BaseInv'
  <1> USE DEF BaseInv
  <1>1. /\ op \in DmaOps /\ op'.at = "dead" /\ op' \in DeadOps
         /\ op'.hdl = op.hdl /\ op.entry \in TblEntries
         /\ UNCHANGED <<ids, installed, failures>>
         /\ tbl' \in [TblEntries -> RuleEntry] /\ index' \in [TblEntries -> IndexEntry]
         /\ meta' \in [TblEntries -> Links]
    BY DeleteCleans
  <1>2. PICK u : /\ CleanedRule(tbl, u)
                 /\ op.ipos # "head" => tbl' = u
                 /\ op.ipos = "head" =>
                      tbl' = [u EXCEPT ![index[op.ientry].tbl].indx = op.ientry]
    BY DeleteCleans
  <1>3. op.at = "dma" /\ op.hdl \in RuleHdls /\ op.entry \in UsableEntries
        /\ op.ientry \in TblEntries
    BY <1>1 DEF DmaOps
  <1>4. u \in [TblEntries -> RuleEntry]
    BY <1>2 DEF CleanedRule
  <1>5. \A e \in TblEntries :
          /\ u[e].enabled => u[e].indx # 0
          /\ e # op.entry => /\ u[e].enabled <=> tbl[e].enabled
                             /\ u[e].dead <=> tbl[e].dead
                             /\ u[e].rule = tbl[e].rule
    <2> TAKE e \in TblEntries
    <2>1. tbl[e].enabled => tbl[e].indx # 0
      BY DEF HandleOK
    <2>2. CASE e = op.entry /\ op.pos # "head"
      <3>1. u[e] = NoRule
        BY <1>2, <2>2 DEF CleanedRule
      <3> QED BY <2>2, <3>1, NewEntries
    <2>3. CASE e # op.entry \/ op.pos = "head"
      BY <1>2, <2>1, <2>3 DEF CleanedRule
    <2> QED BY <2>2, <2>3
  <1>6. \A e \in TblEntries :
          /\ tbl'[e].enabled => tbl'[e].indx # 0
          /\ e # op.entry => /\ tbl'[e].enabled <=> tbl[e].enabled
                             /\ tbl'[e].dead <=> tbl[e].dead
                             /\ tbl'[e].rule = tbl[e].rule
    <2>1. CASE op.ipos # "head"
      BY <1>2, <1>5, <2>1
    <2>2. CASE op.ipos = "head"
      <3>1. PICK i, n : i \in TblEntries /\ i = op.ientry /\ n = index[op.ientry].tbl
        BY <1>3
      <3>2. tbl' = [u EXCEPT ![n].indx = i] /\ i # 0
        BY <1>2, <2>2, <3>1, Bounds
      <3>3. \A e \in TblEntries :
              /\ tbl'[e].enabled <=> u[e].enabled
              /\ tbl'[e].dead <=> u[e].dead
              /\ tbl'[e].rule = u[e].rule
              /\ tbl'[e].indx = IF e = n THEN i ELSE u[e].indx
        BY <1>4, <3>2 DEF RuleEntry
      <3> QED BY <1>5, <3>2, <3>3
    <2> QED BY <2>1, <2>2
  <1>7. TableTypeOK'
    BY <1>1 DEF TableTypeOK
  <1>8. HandleOK'
    <2>1. \A h \in RuleHdls : installed[h] # Nil => ids[h] # RuleId(op.entry)
      BY <1>3 DEF HandleOK
    <2>2. \A e \in UsableEntries \ {op.entry}, r \in ClntRules : Matches(e, r) => Matches(e, r)'
      BY <1>6 DEF Matches, UsableEntries
    <2>3. op'.at \notin AddStages /\ installed \in [RuleHdls -> ClntRules \cup {Nil}]
      BY <1>1 DEF AddStages, TableTypeOK
    <2> QED BY <1>1, <1>3, <1>6, <2>1, <2>2, <2>3, HandlesStay
  <1> QED BY <1>1, <1>7, <1>8 DEF OpOK

LEMMA BaseDeleteDone ==
  ASSUME BaseInv, DeleteDone
  PROVE  BaseInv'
  <1> USE DEF BaseInv
  <1>1. op \in DeadOps /\ op.at = "dead" /\ op.hdl \in RuleHdls /\ op' = Idle /\ op'.at = "idle"
        /\ tbl' = WithoutDeadHeads(tbl) /\ ids' = [ids EXCEPT ![op.hdl] = 0]
        /\ UNCHANGED <<index, meta, installed, failures>>
    BY OpShapes DEF DeleteDone, DeadOps, Idle
  <1>2. tbl \in [TblEntries -> RuleEntry] /\ NoRule \in RuleEntry /\ ~ NoRule.enabled
    BY NewEntries DEF TableTypeOK
  <1>3. \A e \in TblEntries :
          tbl'[e] = IF e < Base /\ tbl[e].dead /\ tbl[e].next = 0 THEN NoRule ELSE tbl[e]
    BY <1>1 DEF WithoutDeadHeads
  <1>4. tbl' \in [TblEntries -> RuleEntry]
    BY <1>1, <1>2 DEF WithoutDeadHeads
  <1>5. \A e \in TblEntries :
          /\ tbl'[e].enabled => tbl'[e].indx # 0
          /\ tbl[e].dead \/ tbl'[e] = tbl[e]
    BY <1>2, <1>3 DEF HandleOK
  <1>6. ids' \in [RuleHdls -> {id \in 0 .. 2 * (Base + Expn) :
                             id \div 2 < IF id % 2 = 1 THEN Expn ELSE Base}]
        /\ \A h \in RuleHdls : ids'[h] = IF h = op.hdl THEN 0 ELSE ids[h]
    <2>1. 0 \in {id \in 0 .. 2 * (Base + Expn) :
                             id \div 2 < IF id % 2 = 1 THEN Expn ELSE Base}
      <3>1. 0 \div 2 = 0 /\ 0 % 2 = 0
        OBVIOUS
      <3> QED BY <3>1, Bounds, NatAssumption
    <2> QED BY <1>1, <2>1 DEF TableTypeOK
  <1>7. TableTypeOK'
    BY <1>1, <1>4, <1>6 DEF TableTypeOK
  <1>8. HandleOK'
    <2>1. installed[op.hdl] = Nil /\ op'.at \notin AddStages \cup {"dma", "dead"}
      BY <1>1 DEF HandleOK, AddStages
    <2>2. \A h \in RuleHdls : ids'[h] # 0 =>
            /\ \E e \in UsableEntries : ids'[h] = RuleId(e)
            /\ h < Base + Expn
            /\ installed'[h] # Nil
            /\ \A k \in RuleHdls : ids'[k] = ids'[h] => k = h
      BY <1>1, <1>6 DEF HandleOK
    <2>3. \A h \in RuleHdls : installed'[h] # Nil =>
            ids'[h] # 0 /\ \E e \in UsableEntries : ids'[h] = RuleId(e) /\ Matches(e, installed[h])'
      <3> TAKE h \in RuleHdls
      <3> HAVE installed'[h] # Nil
      <3>1. h # op.hdl /\ installed'[h] = installed[h] /\ ids'[h] = ids[h]
        BY <1>1, <1>6, <2>1
      <3>2. PICK e \in UsableEntries : ids[h] = RuleId(e) /\ Matches(e, installed[h])
        BY <3>1 DEF HandleOK
      <3>3. tbl'[e] = tbl[e]
        BY <1>5, <3>2 DEF Matches, UsableEntries
      <3>4. Matches(e, installed[h])'
        BY <3>1, <3>2, <3>3 DEF Matches
      <3> QED BY <3>1, <3>2, <3>4 DEF HandleOK
    <2> QED BY <1>5, <2>1, <2>2, <2>3 DEF HandleOK
  <1> QED BY <1>1, <1>7, <1>8 DEF OpOK

LEMMA BaseAddHangs ==
  ASSUME BaseInv, NEW r \in ClntRules, AddHangs(r)
  PROVE  BaseInv' /\ op' = Hung
  <1> USE DEF BaseInv
  <1>1. op = Idle /\ op.at = "idle" /\ op' = Hung /\ op'.at = "hung"
        /\ UNCHANGED <<tbl, index, meta, ids, installed, failures>>
    BY DEF AddHangs, Idle, Hung
  <1>2. TableTypeOK'
    BY <1>1 DEF TableTypeOK
  <1>3. HandleOK'
    <2>1. \A h \in RuleHdls : installed[h] # Nil =>
            \E e \in UsableEntries : ids'[h] = RuleId(e) /\ Matches(e, installed[h])'
      BY <1>1 DEF HandleOK, Matches
    <2>2. op'.at \notin AddStages \cup {"dma", "dead"} /\ op.at \notin {"dma", "dead"}
      BY <1>1 DEF AddStages
    <2> QED BY <1>1, <2>1, <2>2 DEF HandleOK
  <1> QED BY <1>1, <1>2, <1>3 DEF OpOK

LEMMA BaseStep ==
  ASSUME BaseInv, [TableNext]_tableVars
  PROVE  BaseInv'
  <1>1. ASSUME NEW r \in ClntRules, AddGenerate(r) PROVE BaseInv'
    BY <1>1, BaseAddGenerate
  <1>2. ASSUME NEW r \in ClntRules, AddHangs(r) PROVE BaseInv'
    BY <1>2, BaseAddHangs
  <1>3. ASSUME AddCopy \/ AddLink \/ AddIndexCopy \/ AddIndexLink
               \/ AddLinkFails \/ AddIndexLinkFails
        PROVE  BaseInv'
    BY <1>3, BaseAddStep
  <1>4. ASSUME AddEnable \/ AddEnableFails PROVE BaseInv'
    BY <1>4, BaseAddEnable
  <1>5. ASSUME NEW h \in RuleHdls, DeleteBegin(h) PROVE BaseInv'
    BY <1>5, BaseDeleteBegin
  <1>6. CASE DeleteDma
    BY <1>6, BaseDeleteDma
  <1>7. CASE DeleteClean
    BY <1>7, BaseDeleteClean
  <1>8. CASE DeleteDone
    BY <1>8, BaseDeleteDone
  <1>9. CASE UNCHANGED tableVars
    BY <1>9 DEF tableVars, BaseInv, TableTypeOK, OpOK, HandleOK, Matches
  <1> QED BY <1>1, <1>2, <1>3, <1>4, <1>5, <1>6, <1>7, <1>8, <1>9 DEF TableNext

\* The tables, the handles and the call in progress keep their types, failed ioctl
\* calls or not.
THEOREM TableTyped == TableSpec => []TableTypeOK
  <1>1. TableInit => BaseInv
    BY BaseInit
  <1>2. BaseInv /\ [TableNext]_tableVars => BaseInv'
    BY BaseStep
  <1>3. BaseInv => TableTypeOK
    BY DEF BaseInv
  <1> QED BY <1>1, <1>2, <1>3, PTL DEF TableSpec

\* Every handle that ipa_nati_add_ipv4_rule returned is one that
\* ipa_nati_parse_ipv4_rule_hdl takes, failed ioctl calls or not.
THEOREM HandleAccepted == TableSpec => []HandlesAccepted
  <1>1. TableInit => BaseInv
    BY BaseInit
  <1>2. BaseInv /\ [TableNext]_tableVars => BaseInv'
    BY BaseStep
  <1>3. BaseInv => HandlesAccepted
    BY DEF BaseInv, HandleOK, HandlesAccepted
  <1> QED BY <1>1, <1>2, <1>3, PTL DEF TableSpec

-----------------------------------------------------------------------------
(* TablesOK holds after each step while no ioctl call fails                  *)

TypedView ==
         /\ HasLinks(tbl) /\ HasLinks(index)
         /\ tbl \in [TblEntries -> RuleEntry] /\ index \in [TblEntries -> IndexEntry]
         /\ \A e \in TblEntries : /\ tbl[e] \in RuleEntry /\ index[e] \in IndexEntry
                                  /\ tbl[e].next \in Links /\ index[e].next \in Links
                                  /\ index[e].tbl \in Links /\ meta[e] \in Links
                                  /\ tbl[e].rule \in ClntRules \cup {Nil}
LEMMA TypedTables == BaseInv => TypedView
  <1> SUFFICES ASSUME BaseInv PROVE TypedView
    OBVIOUS
  <1>1. tbl \in [TblEntries -> RuleEntry] /\ index \in [TblEntries -> IndexEntry]
    BY DEF BaseInv, TableTypeOK
  <1>2. HasLinks(tbl) /\ HasLinks(index)
        /\ \A e \in TblEntries : /\ tbl[e] \in RuleEntry /\ index[e] \in IndexEntry
                                 /\ meta[e] \in Links
    BY TablesTyped DEF BaseInv
  <1> QED BY <1>1, <1>2 DEF TypedView, RuleEntry, IndexEntry

LEMMA TypedNext == BaseInv' => TypedView'
  BY TypedTables, PTL

\* While no deletion has written, what is used is what is enabled, or linked but
\* not yet enabled.
StillView ==
  /\ RuleUsed = {e \in TblEntries :
                   tbl[e].enabled \/ (op.at \in {"icopy", "ilink", "enable"} /\ e = op.entry)}
  /\ IndexUsed = {i \in TblEntries :
                    index[i].tbl # 0 /\ (op.at = "ilink" => i # op.ientry)}
  /\ PrevOK <=> \A e \in RuleUsed : tbl[e].next = 0 \/ tbl[tbl[e].next].prev = e
  /\ MetaOK <=> \A i \in IndexUsed : index[i].next = 0 \/ meta[index[i].next] = i
  /\ LeadsOK <=> \A i \in IndexUsed :
       /\ index[i].tbl \in RuleUsed /\ ~ tbl[index[i].tbl].dead
       /\ tbl[index[i].tbl].indx = i
  /\ LedOK <=> \A e \in TblEntries : tbl[e].enabled /\ ~ tbl[e].dead =>
       tbl[e].indx \in IndexUsed /\ index[tbl[e].indx].tbl = e
  /\ DeadOK <=> \A e \in TblEntries : tbl[e].dead =>
       tbl[e].enabled /\ e \in Buckets /\ (op.at = "dead" \/ tbl[e].next # 0)
Still == ~ IndexDone /\ ~ RuleDone /\ ~ Overwritten
LEMMA WhenStill == Still => StillView
  <1> SUFFICES ASSUME Still PROVE StillView
    OBVIOUS
  <1>1. ~ IndexDone /\ ~ RuleDone /\ ~ Overwritten
    BY DEF Still
  <1>2. \A e : ~ Gone(e)
    BY <1>1 DEF Gone
  <1>3. PrevOK <=> \A e \in RuleUsed : tbl[e].next = 0 \/ tbl[tbl[e].next].prev = e
    BY <1>1 DEF PrevOK
  <1>4. MetaOK <=> \A i \in IndexUsed : index[i].next = 0 \/ meta[index[i].next] = i
    BY <1>1 DEF MetaOK
  <1>5. LeadsOK <=> \A i \in IndexUsed :
              /\ index[i].tbl \in RuleUsed /\ ~ tbl[index[i].tbl].dead
              /\ tbl[index[i].tbl].indx = i
    BY <1>1, <1>2 DEF LeadsOK
  <1>6. LedOK <=> \A e \in TblEntries : tbl[e].enabled /\ ~ tbl[e].dead =>
              tbl[e].indx \in IndexUsed /\ index[tbl[e].indx].tbl = e
    BY <1>1, <1>2 DEF LedOK
  <1>7. DeadOK <=> \A e \in TblEntries : tbl[e].dead =>
              tbl[e].enabled /\ e \in Buckets /\ (op.at = "dead" \/ tbl[e].next # 0)
    BY <1>1 DEF DeadOK
  <1>9. RuleUsed = {e \in TblEntries :
                          tbl[e].enabled \/ (op.at \in {"icopy", "ilink", "enable"} /\ e = op.entry)}
    BY <1>1 DEF RuleUsed
  <1>10. IndexUsed = {i \in TblEntries :
                           index[i].tbl # 0 /\ (op.at = "ilink" => i # op.ientry)}
    BY <1>1 DEF IndexUsed
  <1> QED BY <1>3, <1>4, <1>5, <1>6, <1>7, <1>9, <1>10 DEF StillView

LEMMA WhenStillNext == Still' => StillView'
  BY WhenStill, PTL

CalmView ==
  /\ StillView
  /\ OwnedOK <=> \A e \in TblEntries : tbl[e].enabled /\ ~ tbl[e].dead =>
       \E h \in RuleHdls : installed[h] # Nil /\ ids[h] = RuleId(e)
  /\ DmaOK
Calm == op.at # "dma"
LEMMA WhenCalm == Calm => CalmView
  <1> SUFFICES ASSUME Calm PROVE CalmView
    OBVIOUS
  <1>1. ~ Dma /\ Still
    BY DEF Calm, Dma, IndexDone, RuleDone, Overwritten, Still
  <1>2. OwnedOK <=> \A e \in TblEntries : tbl[e].enabled /\ ~ tbl[e].dead =>
              \E h \in RuleHdls : installed[h] # Nil /\ ids[h] = RuleId(e)
    BY <1>1 DEF OwnedOK
  <1> QED BY <1>1, <1>2, WhenStill DEF CalmView, DmaOK

LEMMA WhenCalmNext == Calm' => CalmView'
  BY WhenCalm, PTL

LEMMA TablesInit == TableInit => TablesOK
  <1> SUFFICES ASSUME TableInit PROVE TablesOK
    OBVIOUS
  <1>1. op = Idle /\ op.at = "idle" /\ op # Hung
    BY DEF TableInit, Idle, Hung
  <1>2. \A e \in TblEntries : /\ ~ tbl[e].enabled /\ ~ tbl[e].dead /\ tbl[e].next = 0
                              /\ index[e].tbl = 0 /\ index[e].next = 0
    BY NewEntries DEF TableInit
  <1>3. RuleUsed = {} /\ IndexUsed = {}
    BY <1>1, <1>2 DEF RuleUsed, IndexUsed
  <1>4. LinksOK
    BY <1>2, <1>3, Bounds DEF LinksOK, Linked
  <1>5. PrevOK /\ MetaOK /\ LeadsOK
    BY <1>3 DEF PrevOK, MetaOK, LeadsOK
  <1>6. LedOK /\ DeadOK /\ OwnedOK
    BY <1>2 DEF LedOK, DeadOK, OwnedOK
  <1>7. AddOK /\ DmaOK
    BY <1>1 DEF AddOK, DmaOK, Dma, AddStages
  <1> QED BY <1>1, <1>4, <1>5, <1>6, <1>7 DEF TablesOK

LEMMA TablesAddGenerate ==
  ASSUME BaseInv, TablesOK, NEW r \in ClntRules, AddGenerate(r)
  PROVE  TablesOK'
  <1>1. /\ BaseInv' /\ op = Idle /\ op' \in AddOps /\ op'.at = "copy" /\ op'.rule = r
        /\ UNCHANGED <<tbl, index, ids, installed, failures>>
    BY BaseAddGenerate
  <1>2. op.at = "idle"
    BY <1>1 DEF Idle
  <1>c. CalmView
    BY <1>2, WhenCalm DEF Calm
  <1>3. PICK p : p = Place(tbl, DstHash[r], FreeRules)
    OBVIOUS
  <1>4. PICK i : i = Place(index, SrcHash[r], FreeIndexes)
    OBVIOUS
  <1>5. /\ p.entry # 0 /\ i.entry # 0
        /\ op'.entry = p.entry /\ op'.prev = p.prev
        /\ op'.ientry = i.entry /\ op'.iprev = i.prev /\ i.entry # i.prev
        /\ meta' = IF i.entry >= Base THEN [meta EXCEPT ![i.entry] = i.prev] ELSE meta
    BY <1>3, <1>4, BaseAddGenerate
  <1>6. RuleUsed' = RuleUsed /\ IndexUsed' = IndexUsed
    BY <1>1, <1>2 DEF RuleUsed, IndexUsed, RuleDone, IndexDone, Dma
  <1>7. RuleKey' = RuleKey /\ IndexKey' = IndexKey
    BY <1>1 DEF RuleKey, IndexKey
  <1>8. /\ HasLinks(tbl) /\ Linked(tbl, RuleUsed, RuleKey)
        /\ HasLinks(index) /\ Linked(index, IndexUsed, IndexKey)
    BY TypedTables DEF TablesOK, LinksOK, TypedView
  <1>9. DstHash[r] \in Buckets /\ SrcHash[r] \in Buckets
    BY HashesAreBuckets
  <1>10. \A e \in TblEntries : (e \in RuleUsed <=> e \notin FreeRules)
                               /\ (e \in IndexUsed <=> e \notin FreeIndexes)
    BY <1>2, <1>c DEF CalmView, StillView, FreeRules, FreeIndexes
  <1>11. \/ p.entry = DstHash[r] /\ p.prev = 0
         \/ /\ p.entry \in ExpnEntries /\ p.prev \in RuleUsed /\ p.prev # 0
            /\ p.prev # p.entry /\ RuleKey[p.prev] = DstHash[r] /\ tbl[p.prev].next = 0
    <2>1. \/ p.entry = DstHash[r] /\ p.prev = 0
          \/ /\ DstHash[r] \notin FreeRules /\ p.entry \in FreeRules \cap ExpnEntries
             /\ p.prev \in Chain(tbl, DstHash[r]) /\ tbl[p.prev].next = 0
      BY <1>3, <1>5, <1>8, <1>9, FreeEntries, PlaceChooses
    <2>2. DstHash[r] \notin FreeRules =>
            Chain(tbl, DstHash[r]) = {e \in RuleUsed : RuleKey[e] = DstHash[r]}
      BY <1>8, <1>9, <1>10, ChainOfBucket, Bounds
    <2>3. 0 \notin RuleUsed
      BY <1>8, Bounds DEF Linked
    <2> QED BY <2>1, <2>2, <2>3, <1>10, Bounds
  <1>12. \/ i.entry = SrcHash[r] /\ i.prev = 0
         \/ /\ i.entry \in ExpnEntries /\ i.prev \in IndexUsed /\ i.prev # 0
            /\ IndexKey[i.prev] = SrcHash[r] /\ index[i.prev].next = 0
    <2>1. \/ i.entry = SrcHash[r] /\ i.prev = 0
          \/ /\ SrcHash[r] \notin FreeIndexes /\ i.entry \in FreeIndexes \cap ExpnEntries
             /\ i.prev \in Chain(index, SrcHash[r]) /\ index[i.prev].next = 0
      BY <1>4, <1>5, <1>8, <1>9, FreeEntries, PlaceChooses
    <2>2. SrcHash[r] \notin FreeIndexes =>
            Chain(index, SrcHash[r]) = {e \in IndexUsed : IndexKey[e] = SrcHash[r]}
      BY <1>8, <1>9, <1>10, ChainOfBucket, Bounds
    <2>3. 0 \notin IndexUsed
      BY <1>8, Bounds DEF Linked
    <2> QED BY <2>1, <2>2, <2>3
  <1>13. i.entry \in FreeIndexes /\ i.entry \in TblEntries
    BY <1>4, <1>5, <1>8, <1>9, FreeEntries, PlaceChooses
  <1>14. /\ \A j \in TblEntries : j # i.entry => meta'[j] = meta[j]
         /\ i.prev # 0 => meta'[i.entry] = i.prev
    <2>1. meta \in [TblEntries -> Links]
      BY DEF BaseInv, TableTypeOK
    <2>2. i.prev # 0 => i.entry >= Base
      BY <1>9, <1>12, Bounds DEF ExpnEntries
    <2> QED BY <1>5, <1>13, <2>1, <2>2
  <1>15. LinksOK'
    BY <1>1, <1>6, <1>7, <1>8 DEF LinksOK
  <1>16. MetaOK'
    <2>1. ASSUME NEW j \in IndexUsed
          PROVE  index[j].next = 0 \/ meta'[index[j].next] = j
      <3>1. index[j].next = 0 \/ meta[index[j].next] = j
        BY <1>2, <1>c DEF CalmView, StillView, TablesOK
      <3>2. index[j].next # 0 => index[j].next \in IndexUsed /\ index[j].next \in TblEntries
        BY <1>8 DEF Linked
      <3>3. index[j].next # 0 => index[j].next # i.entry
        BY <1>10, <1>13, <3>2
      <3> QED BY <1>14, <3>1, <3>2, <3>3
    <2> QED BY <1>1, <1>6, <2>1 DEF MetaOK
  <1>17. PrevOK' /\ LeadsOK' /\ LedOK' /\ DeadOK' /\ OwnedOK' /\ DmaOK'
    BY <1>1, <1>2, <1>6 DEF TablesOK, PrevOK, LeadsOK, LedOK, DeadOK, OwnedOK, DmaOK,
       RuleDone, IndexDone, Overwritten, Gone, Dma
  <1>18. AddOK'
    <2>1. AddRuleOK'
      BY <1>1, <1>5, <1>6, <1>7, <1>9, <1>11, Bounds DEF AddRuleOK
    <2>2. AddIndexOK'
      BY <1>1, <1>5, <1>6, <1>7, <1>9, <1>12, <1>14, Bounds DEF AddIndexOK
    <2>3. AddWritten'
      BY <1>1, <1>5, <1>13 DEF AddWritten, FreeIndexes
    <2> QED BY <2>1, <2>2, <2>3 DEF AddOK
  <1>19. op' # Hung
    BY <1>1 DEF Hung
  <1> QED BY <1>15, <1>16, <1>17, <1>18, <1>19 DEF TablesOK

LEMMA NeverHangs ==
  ASSUME BaseInv, TablesOK, NEW r \in ClntRules
  PROVE  ~ AddHangs(r)
  <1>1. /\ HasLinks(tbl) /\ Linked(tbl, RuleUsed, RuleKey)
        /\ HasLinks(index) /\ Linked(index, IndexUsed, IndexKey)
    BY TypedTables DEF TablesOK, LinksOK, TypedView
  <1>2. DstHash[r] \in Buckets /\ SrcHash[r] \in Buckets
    BY HashesAreBuckets
  <1>3. ~ Looping(tbl, DstHash[r]) /\ ~ Looping(index, SrcHash[r])
    BY <1>1, <1>2, ChainEnds
  <1> QED BY <1>3 DEF AddHangs, Endless

-----------------------------------------------------------------------------
\* What holds of the tables between and during additions
LEMMA AddView ==
  ASSUME BaseInv, TablesOK, op.at \in AddStages
  PROVE  /\ op \in AddOps /\ op.entry \in TblEntries /\ op.ientry \in TblEntries
         /\ op.entry \in UsableEntries /\ op.ientry \in UsableEntries
         /\ op.rule \in ClntRules /\ op.prev \in Links /\ op.iprev \in Links
         /\ AddRuleOK /\ AddIndexOK /\ AddWritten
         /\ ~ tbl[op.entry].enabled /\ op.at # "dma"
  <1>1. op \in AddOps
    BY OpShapes DEF BaseInv
  <1>2. ~ tbl[op.entry].enabled
    BY DEF BaseInv, HandleOK
  <1>3. op.at # "dma"
    BY DEF AddStages
  <1> QED BY <1>1, <1>2, <1>3 DEF TablesOK, AddOK, AddOps, UsableEntries

LEMMA LinksView ==
  ASSUME BaseInv, TablesOK
  PROVE  /\ HasLinks(tbl) /\ Linked(tbl, RuleUsed, RuleKey)
         /\ HasLinks(index) /\ Linked(index, IndexUsed, IndexKey)
         /\ RuleUsed \subseteq TblEntries /\ IndexUsed \subseteq TblEntries
         /\ \A e \in RuleUsed : tbl[e].next # 0 => tbl[e].next \in RuleUsed \cap ExpnEntries
         /\ \A i \in IndexUsed : index[i].next # 0 => index[i].next \in IndexUsed \cap ExpnEntries
         /\ \A i \in IndexUsed : index[i].tbl \in RuleUsed /\ index[i].tbl \in TblEntries
  <1>1. /\ HasLinks(tbl) /\ Linked(tbl, RuleUsed, RuleKey)
         /\ HasLinks(index) /\ Linked(index, IndexUsed, IndexKey)
    BY TypedTables DEF TablesOK, LinksOK, TypedView
  <1>2. RuleUsed \subseteq TblEntries /\ IndexUsed \subseteq TblEntries
    BY DEF RuleUsed, IndexUsed
  <1>3. \A i \in IndexUsed : index[i].tbl \in RuleUsed
    BY DEF TablesOK, LeadsOK
  <1> QED BY <1>1, <1>2, <1>3 DEF Linked

LEMMA TablesAddCopy ==
  ASSUME BaseInv, TablesOK, AddCopy
  PROVE  TablesOK'
  <1>1. /\ op.at = "copy" /\ op.at \in AddStages
        /\ UNCHANGED <<index, meta, ids, installed>>
    BY DEF AddCopy, AddStep, AddStages
  <1>2. /\ op'.at = IF op.prev = 0 THEN "icopy" ELSE "link"
        /\ op' \in AddOps /\ op'.rule = op.rule /\ op'.entry = op.entry /\ op'.prev = op.prev
        /\ op'.ientry = op.ientry /\ op'.iprev = op.iprev
    <2>1. PICK to \in AddStages : to = IF op.prev = 0 THEN "icopy" ELSE "link"
      BY DEF AddStages
    <2>2. op' = [op EXCEPT !.at = to]
      BY <2>1 DEF AddCopy, AddStep
    <2> QED BY <1>1, <2>1, <2>2, AddStepOp DEF BaseInv
  <1>3. /\ op.entry \in TblEntries /\ op.rule \in ClntRules
        /\ AddRuleOK /\ AddIndexOK /\ AddWritten
        /\ ~ tbl[op.entry].enabled /\ op.entry \in UsableEntries
        /\ op.prev \in Links /\ op.ientry \in Links
    BY <1>1, AddView, Bounds
  <1>4. BaseInv'
    BY BaseAddStep
  <1>t. TypedView /\ TypedView'
    BY <1>4, TypedTables, TypedNext
  <1>c. CalmView /\ CalmView'
    <2>1. Calm /\ Calm'
      BY <1>1, <1>2 DEF Calm
    <2> QED BY <2>1, WhenCalm, WhenCalmNext
  <1>5. PICK n \in RuleEntry : /\ n = NewEntry(op.rule, op.prev, op.ientry)
                   /\ n.rule = op.rule /\ n.prev = op.prev /\ n.indx = op.ientry
                   /\ n.next = 0 /\ ~ n.enabled /\ ~ n.dead
    BY <1>3, NewEntries
  <1>6. tbl'[op.entry] = n /\ \A e \in TblEntries : e # op.entry => tbl'[e] = tbl[e]
    <2>1. tbl' = [tbl EXCEPT ![op.entry] = n]
      BY <1>5 DEF AddCopy, NewEntry
    <2> QED BY <1>3, <2>1, <1>t DEF TypedView
  <1>7. op.entry \notin RuleUsed /\ op'.at # "dma" /\ op.at # "dma"
    BY <1>1, <1>2, <1>3, <1>c DEF CalmView, StillView
  <1>8. IndexUsed' = IndexUsed
    <2>1. op'.at # "ilink"
      BY <1>2
    <2>2. IndexUsed = {i \in TblEntries : index[i].tbl # 0}
      BY <1>1, <1>c DEF CalmView, StillView
    <2>3. IndexUsed' = {i \in TblEntries : index[i].tbl # 0}
      BY <1>1, <1>7, <2>1, <1>c DEF CalmView, StillView
    <2> QED BY <2>2, <2>3
  <1>9. RuleUsed' = IF op.prev = 0 THEN RuleUsed \cup {op.entry} ELSE RuleUsed
    <2>1. RuleUsed = {e \in TblEntries : tbl[e].enabled}
      BY <1>1, <1>c DEF CalmView, StillView
    <2>2. RuleUsed' = {e \in TblEntries : tbl'[e].enabled \/ (op'.at = "icopy" /\ e = op.entry)}
      BY <1>2, <1>7, <1>c DEF CalmView, StillView
    <2> QED BY <1>2, <1>3, <1>5, <1>6, <2>1, <2>2
  <1>10. /\ \A e \in RuleUsed : RuleKey'[e] = RuleKey[e]
         /\ RuleKey'[op.entry] = DstHash[op.rule]
         /\ \A i \in IndexUsed : IndexKey'[i] = IndexKey[i]
    <2>1. \A e \in RuleUsed : e \in TblEntries /\ e # op.entry /\ tbl'[e] = tbl[e]
      BY <1>6, <1>7, LinksView
    <2>2. \A i \in IndexUsed : i \in TblEntries /\ index[i].tbl \in RuleUsed
      BY LinksView
    <2>3. op.rule # Nil
      BY <1>3, NatAssumption
    <2>4. \A e \in RuleUsed : RuleKey'[e] = RuleKey[e]
      BY <2>1 DEF RuleKey
    <2>5. RuleKey'[op.entry] = DstHash[op.rule]
      BY <1>3, <1>5, <1>6, <2>3 DEF RuleKey
    <2>6. \A i \in IndexUsed : IndexKey'[i] = IndexKey[i]
      BY <1>1, <2>1, <2>2 DEF IndexKey
    <2> QED BY <2>4, <2>5, <2>6
  <1>11. Linked(index', IndexUsed', IndexKey')
    <2>1. HasLinks(index) /\ Linked(index, IndexUsed, IndexKey) /\ HasLinks(index')
      BY <1>1, LinksView
    <2>2. Linked(index, IndexUsed, IndexKey')
      BY <1>10, <2>1, LinkedSame
    <2> QED BY <1>1, <1>8, <2>2
  <1>12. HasLinks(tbl) /\ Linked(tbl, RuleUsed, RuleKey) /\ HasLinks(tbl')
    BY <1>4, LinksView, <1>t DEF TypedView
  <1>13. Linked(tbl', RuleUsed', RuleKey')
    <2>1. CASE op.prev = 0
      <3>1. op.entry \in Buckets /\ RuleKey'[op.entry] = op.entry
        BY <1>3, <1>10, <2>1, HashesAreBuckets DEF AddRuleOK
      <3>2. \A e \in TblEntries : tbl'[e].next = tbl[e].next
        BY <1>5, <1>6, <1>7, <1>12, <3>1 DEF Linked
      <3>3. Linked(tbl', RuleUsed \cup {op.entry}, RuleKey')
        BY <1>7, <1>10, <1>12, <3>1, <3>2, LinkedHead
      <3> QED BY <1>9, <2>1, <3>3
    <2>2. CASE op.prev # 0
      <3>1. op.entry \in ExpnEntries
        BY <1>3, <2>2 DEF AddRuleOK
      <3>2. \A e \in RuleUsed \cup Buckets : tbl'[e].next = tbl[e].next
        BY <1>6, <1>7, <3>1, LinksView, Bounds
      <3>3. Linked(tbl', RuleUsed, RuleKey')
        BY <1>10, <1>12, <3>2, LinkedSame
      <3> QED BY <1>9, <2>2, <3>3
    <2> QED BY <2>1, <2>2
  <1>14. \A e \in TblEntries : tbl'[e].enabled => tbl[e].enabled /\ e # op.entry /\ tbl'[e] = tbl[e]
    BY <1>5, <1>6
  <1>15. \A e \in RuleUsed : e # op.entry /\ tbl'[e] = tbl[e]
    BY <1>6, <1>7, LinksView
  <1>16. PrevOK'
    <2>1. ASSUME NEW e \in RuleUsed' PROVE tbl'[e].next = 0 \/ tbl'[tbl'[e].next].prev = e
      <3>1. CASE e = op.entry
        BY <1>5, <1>6, <3>1
      <3>2. CASE e # op.entry
        <4>1. e \in RuleUsed /\ tbl'[e] = tbl[e]
          BY <1>9, <1>15, <3>2
        <4>2. tbl[e].next = 0 \/ tbl[tbl[e].next].prev = e
          BY <1>7, <4>1, <1>c DEF TablesOK, CalmView, StillView
        <4>3. tbl[e].next = 0 \/ tbl'[tbl[e].next] = tbl[tbl[e].next]
          BY <1>15, <4>1, LinksView
        <4> QED BY <4>1, <4>2, <4>3
      <3> QED BY <3>1, <3>2
    <2> QED BY <1>7, <2>1, <1>c DEF CalmView, StillView
  <1>17. MetaOK'
    BY <1>1, <1>7, <1>8, <1>c DEF TablesOK, CalmView, StillView
  <1>18. LeadsOK'
    <2>1. ASSUME NEW i \in IndexUsed
          PROVE  /\ index[i].tbl \in RuleUsed' /\ ~ tbl'[index[i].tbl].dead
                 /\ tbl'[index[i].tbl].indx = i
      <3>1. index[i].tbl \in RuleUsed /\ ~ tbl[index[i].tbl].dead /\ tbl[index[i].tbl].indx = i
        BY <1>7, <1>c DEF TablesOK, CalmView, StillView
      <3> QED BY <1>9, <1>15, <3>1
    <2> QED BY <1>1, <1>7, <1>8, <2>1, <1>c DEF CalmView, StillView
  <1>19. LedOK' /\ OwnedOK'
    <2>1. LedOK'
      <3>1. ASSUME NEW e \in TblEntries, tbl'[e].enabled, ~ tbl'[e].dead
            PROVE  tbl'[e].indx \in IndexUsed' /\ index'[tbl'[e].indx].tbl = e
        BY <1>1, <1>7, <1>8, <1>14, <3>1, <1>c DEF TablesOK, CalmView, StillView
      <3> QED BY <1>7, <3>1, <1>c DEF CalmView, StillView
    <2>2. OwnedOK'
      <3>1. ASSUME NEW e \in TblEntries, tbl'[e].enabled, ~ tbl'[e].dead
            PROVE  \E h \in RuleHdls : installed'[h] # Nil /\ ids'[h] = RuleId(e)
        BY <1>1, <1>7, <1>14, <3>1, <1>c DEF TablesOK, CalmView, StillView
      <3> QED BY <1>7, <3>1, <1>c DEF CalmView, StillView
    <2> QED BY <2>1, <2>2
  <1>20. DeadOK'
    <2>1. ASSUME NEW e \in TblEntries, tbl'[e].dead
          PROVE  tbl'[e].enabled /\ e \in Buckets /\ (op'.at = "dead" \/ tbl'[e].next # 0)
      <3>1. e # op.entry /\ tbl'[e] = tbl[e]
        BY <1>5, <1>6, <2>1
      <3>2. tbl[e].enabled /\ e \in Buckets /\ (op.at = "dead" \/ tbl[e].next # 0)
        BY <1>7, <2>1, <3>1, <1>c DEF TablesOK, CalmView, StillView
      <3> QED BY <1>1, <3>1, <3>2
    <2> QED BY <1>7, <2>1, <1>c DEF CalmView, StillView
  <1>21. AddOK' /\ DmaOK'
    <2>1. AddRuleOK'
      <3>1. CASE op.prev = 0
        BY <1>2, <1>3, <3>1 DEF AddRuleOK
      <3>2. CASE op.prev # 0
        <4>1. /\ op.entry \in ExpnEntries /\ op.prev \in RuleUsed
              /\ op.prev # op.entry /\ RuleKey[op.prev] = DstHash[op.rule] /\ tbl[op.prev].next = 0
          BY <1>1, <1>3, <3>2 DEF AddRuleOK
        <4>2. op.prev \in RuleUsed' /\ RuleKey'[op.prev] = DstHash[op.rule] /\ tbl'[op.prev].next = 0
          BY <1>9, <1>10, <1>15, <4>1
        <4> QED BY <1>2, <3>2, <4>1, <4>2 DEF AddRuleOK
      <3> QED BY <3>1, <3>2
    <2>2. AddIndexOK'
      BY <1>1, <1>2, <1>3, <1>8, <1>10 DEF AddIndexOK
    <2>3. AddWritten'
      BY <1>1, <1>2, <1>3, <1>5, <1>6 DEF AddWritten
    <2> QED BY <1>7, <2>1, <2>2, <2>3, <1>c DEF AddOK, CalmView, StillView
  <1>22. op' # Hung
    BY <1>2 DEF Hung
  <1> QED BY <1>11, <1>13, <1>16, <1>17, <1>18, <1>19, <1>20, <1>21, <1>22 DEF TablesOK, LinksOK

-----------------------------------------------------------------------------
LEMMA AddSteps ==
  ASSUME BaseInv, NEW from \in AddStages, NEW to \in AddStages, AddStep(from, to)
  PROVE  /\ op.at = from /\ op'.at = to /\ op.at \in AddStages
         /\ op' \in AddOps /\ op'.rule = op.rule /\ op'.entry = op.entry /\ op'.prev = op.prev
         /\ op'.ientry = op.ientry /\ op'.iprev = op.iprev
         /\ Calm /\ Calm' /\ op' # Hung /\ op # Hung
         /\ UNCHANGED <<meta, ids, installed>>
  <1>1. op.at = from /\ op' = [op EXCEPT !.at = to] /\ UNCHANGED <<meta, ids, installed>>
    BY DEF AddStep
  <1>2. /\ op' \in AddOps /\ op'.at = to
        /\ op'.rule = op.rule /\ op'.entry = op.entry /\ op'.prev = op.prev
        /\ op'.ientry = op.ientry /\ op'.iprev = op.iprev
    BY <1>1, AddStepOp DEF BaseInv
  <1>3. Calm /\ Calm' /\ op' # Hung /\ op # Hung
    BY <1>1, <1>2 DEF Calm, AddStages, Hung
  <1> QED BY <1>1, <1>2, <1>3

LEMMA TablesAddLink ==
  ASSUME BaseInv, TablesOK, AddLink
  PROVE  TablesOK'
  <1>1. AddStep("link", "icopy") /\ "link" \in AddStages /\ "icopy" \in AddStages
    BY DEF AddLink, AddStages
  <1>2. /\ op.at = "link" /\ op'.at = "icopy" /\ op.at \in AddStages
        /\ op' \in AddOps /\ op'.rule = op.rule /\ op'.entry = op.entry /\ op'.prev = op.prev
        /\ op'.ientry = op.ientry /\ op'.iprev = op.iprev
        /\ Calm /\ Calm' /\ op' # Hung /\ op # Hung
        /\ UNCHANGED <<index, meta, ids, installed>>
    BY <1>1, AddSteps DEF AddLink
  <1>3. /\ op.entry \in TblEntries /\ op.rule \in ClntRules /\ AddRuleOK /\ AddIndexOK
        /\ AddWritten /\ ~ tbl[op.entry].enabled
        /\ op.prev \in Links /\ op.ientry \in Links
    BY <1>2, AddView, Bounds
  <1>4. BaseInv'
    BY BaseAddStep
  <1>t. TypedView /\ TypedView'
    BY <1>4, TypedTables, TypedNext
  <1>c. CalmView /\ CalmView'
    BY <1>2, WhenCalm, WhenCalmNext
  <1>5. PICK p, e : p = op.prev /\ e = op.entry
    OBVIOUS
  <1>6. /\ p # 0 /\ e \in ExpnEntries /\ p \in RuleUsed /\ p # e /\ p \in TblEntries
        /\ RuleKey[p] = DstHash[op.rule] /\ tbl[p].next = 0 /\ e \in TblEntries
    BY <1>2, <1>3, <1>5, LinksView DEF AddRuleOK
  <1>7. tbl[e].rule = op.rule /\ tbl[e].prev = p /\ tbl[e].next = 0 /\ ~ tbl[e].dead
    <2>1. tbl[e] = NewEntry(op.rule, p, op.ientry)
      BY <1>2, <1>3, <1>5 DEF AddWritten
    <2> QED BY <1>3, <1>5, <2>1, NewEntries
  <1>8. tbl'[p].next = e /\ (\A f \in TblEntries : f # p => tbl'[f].next = tbl[f].next)
    <2>1. tbl' = [tbl EXCEPT ![p].next = e]
      BY <1>5 DEF AddLink
    <2> QED BY <1>6, <2>1, <1>t DEF TypedView, RuleEntry
  <1>9. \A f \in TblEntries :
          /\ tbl'[f].rule = tbl[f].rule /\ tbl'[f].prev = tbl[f].prev
          /\ tbl'[f].indx = tbl[f].indx
          /\ tbl'[f].enabled <=> tbl[f].enabled
          /\ tbl'[f].dead <=> tbl[f].dead
    <2>1. tbl' = [tbl EXCEPT ![p].next = e]
      BY <1>5 DEF AddLink
    <2> QED BY <1>6, <2>1, <1>t DEF TypedView, RuleEntry
  <1>10. e \notin RuleUsed /\ RuleUsed' = RuleUsed \cup {e}
    <2>1. RuleUsed = {f \in TblEntries : tbl[f].enabled}
      BY <1>2, <1>c DEF CalmView, StillView
    <2>2. RuleUsed' = {f \in TblEntries : tbl'[f].enabled \/ f = e}
      BY <1>2, <1>5, <1>c DEF CalmView, StillView
    <2> QED BY <1>3, <1>5, <1>6, <1>9, <2>1, <2>2
  <1>11. IndexUsed' = IndexUsed
    BY <1>2, <1>c DEF CalmView, StillView
  <1>12. RuleKey' = RuleKey /\ IndexKey' = IndexKey
    <2>1. RuleKey' = RuleKey
      BY <1>9 DEF RuleKey
    <2>2. \A i \in TblEntries : IndexKey'[i] = IndexKey[i]
      <3> TAKE i \in TblEntries
      <3>1. index[i].tbl \in Links
        BY <1>t DEF TypedView
      <3>2. index[i].tbl = 0 \/ tbl'[index[i].tbl].rule = tbl[index[i].tbl].rule
        BY <1>9, <3>1, Bounds
      <3> QED BY <1>2, <3>2 DEF IndexKey
    <2>3. IndexKey' = IndexKey
      <3>1. IndexKey = [i \in TblEntries |-> IndexKey[i]]
            /\ IndexKey' = [i \in TblEntries |-> IndexKey'[i]]
        BY DEF IndexKey
      <3> QED BY <2>2, <3>1
    <2> QED BY <2>1, <2>3
  <1>13. Linked(index', IndexUsed', IndexKey')
    BY <1>2, <1>11, <1>12, LinksView
  <1>14. Linked(tbl', RuleUsed', RuleKey')
    <2>1. HasLinks(tbl) /\ Linked(tbl, RuleUsed, RuleKey)
      BY LinksView
    <2>2. RuleKey'[e] = RuleKey[p]
      <3>1. op.rule # Nil
        BY <1>3, NatAssumption
      <3>2. RuleKey[e] = DstHash[op.rule]
        BY <1>6, <1>7, <3>1 DEF RuleKey
      <3> QED BY <1>6, <1>12, <3>2
    <2>3. \A f \in TblEntries \ {p} : tbl'[f].next = tbl[f].next
      BY <1>8
    <2>4. \A f \in RuleUsed : RuleKey'[f] = RuleKey[f]
      BY <1>12
    <2>5. Linked(tbl', RuleUsed \cup {e}, RuleKey')
      BY <1>6, <1>7, <1>8, <1>10, <2>1, <2>2, <2>3, <2>4, LinkedTail
    <2> QED BY <1>10, <2>5
  <1>15. PrevOK'
    <2>1. ASSUME NEW f \in RuleUsed' PROVE tbl'[f].next = 0 \/ tbl'[tbl'[f].next].prev = f
      <3>1. CASE f = e
        BY <1>6, <1>7, <1>8, <3>1
      <3>2. CASE f = p
        BY <1>6, <1>7, <1>8, <1>9, <3>2
      <3>3. CASE f # e /\ f # p
        <4>1. f \in RuleUsed /\ f \in TblEntries /\ tbl'[f].next = tbl[f].next
          BY <1>8, <1>10, <3>3, LinksView
        <4>2. tbl[f].next = 0 \/ tbl[tbl[f].next].prev = f
          BY <1>c, <4>1 DEF TablesOK, CalmView, StillView
        <4>3. tbl[f].next = 0 \/ tbl'[tbl[f].next].prev = tbl[tbl[f].next].prev
          BY <1>9, <4>1, LinksView
        <4> QED BY <4>1, <4>2, <4>3
      <3> QED BY <3>1, <3>2, <3>3
    <2> QED BY <1>c, <2>1 DEF CalmView, StillView
  <1>16. MetaOK'
    BY <1>2, <1>11, <1>c DEF TablesOK, CalmView, StillView
  <1>17. LeadsOK'
    <2>1. ASSUME NEW i \in IndexUsed
          PROVE  /\ index[i].tbl \in RuleUsed' /\ ~ tbl'[index[i].tbl].dead
                 /\ tbl'[index[i].tbl].indx = i
      <3>1. index[i].tbl \in RuleUsed /\ ~ tbl[index[i].tbl].dead /\ tbl[index[i].tbl].indx = i
        BY <1>c DEF TablesOK, CalmView, StillView
      <3>2. index[i].tbl \in TblEntries
        BY LinksView
      <3> QED BY <1>9, <1>10, <3>1, <3>2
    <2> QED BY <1>2, <1>11, <1>c, <2>1 DEF CalmView, StillView
  <1>18. LedOK'
    <2>1. ASSUME NEW f \in TblEntries, tbl'[f].enabled, ~ tbl'[f].dead
          PROVE  tbl'[f].indx \in IndexUsed' /\ index'[tbl'[f].indx].tbl = f
      <3>1. tbl[f].enabled /\ ~ tbl[f].dead /\ tbl'[f].indx = tbl[f].indx
        BY <1>9, <2>1
      <3>2. tbl[f].indx \in IndexUsed /\ index[tbl[f].indx].tbl = f
        BY <1>c, <3>1 DEF TablesOK, CalmView, StillView
      <3> QED BY <1>2, <1>11, <3>1, <3>2
    <2> QED BY <1>c, <2>1 DEF CalmView, StillView
  <1>19. OwnedOK'
    <2>1. ASSUME NEW f \in TblEntries, tbl'[f].enabled, ~ tbl'[f].dead
          PROVE  \E h \in RuleHdls : installed'[h] # Nil /\ ids'[h] = RuleId(f)
      <3>1. tbl[f].enabled /\ ~ tbl[f].dead
        BY <1>9, <2>1
      <3> QED BY <1>2, <1>c, <3>1 DEF TablesOK, CalmView, StillView
    <2> QED BY <1>c, <2>1 DEF CalmView, StillView
  <1>20. DeadOK'
    <2>1. ASSUME NEW f \in TblEntries, tbl'[f].dead
          PROVE  tbl'[f].enabled /\ f \in Buckets /\ (op'.at = "dead" \/ tbl'[f].next # 0)
      <3>1. tbl[f].dead
        BY <1>9, <2>1
      <3>2. tbl[f].enabled /\ f \in Buckets /\ tbl[f].next # 0
        BY <1>2, <1>c, <3>1 DEF TablesOK, CalmView, StillView
      <3>3. tbl'[f].next # 0
        BY <1>6, <1>8, <3>2, Bounds
      <3> QED BY <1>9, <3>2, <3>3
    <2> QED BY <1>c, <2>1 DEF CalmView, StillView
  <1>21. AddOK' /\ DmaOK'
    <2>1. AddRuleOK'
      <3>1. op.prev # 0 /\ op.entry \in ExpnEntries /\ op.prev \in RuleUsed'
            /\ op.prev # op.entry /\ RuleKey'[op.prev] = DstHash[op.rule]
        BY <1>5, <1>6, <1>10, <1>12
      <3> QED BY <1>2, <3>1 DEF AddRuleOK
    <2>2. AddIndexOK'
      BY <1>2, <1>3, <1>11, <1>12 DEF AddIndexOK
    <2>3. AddWritten'
      <3>1. tbl'[e] = tbl[e]
        <4>1. tbl' = [tbl EXCEPT ![p].next = e]
          BY <1>5 DEF AddLink
        <4> QED BY <1>6, <4>1, <1>t DEF TypedView
      <3> QED BY <1>2, <1>3, <1>5, <3>1 DEF AddWritten
    <2> QED BY <1>c, <2>1, <2>2, <2>3 DEF AddOK, CalmView, StillView
  <1> QED BY <1>2, <1>13, <1>14, <1>15, <1>16, <1>17, <1>18, <1>19, <1>20, <1>21
          DEF TablesOK, LinksOK

-----------------------------------------------------------------------------
\* While the table of the rules stays as it is
LEMMA RulesStay ==
  ASSUME TablesOK, CalmView, CalmView', UNCHANGED <<tbl, ids, installed>>, RuleUsed' = RuleUsed,
         op'.at # "dead" => op.at # "dead"
  PROVE  PrevOK' /\ DeadOK' /\ OwnedOK' /\ RuleKey' = RuleKey
  <1>1. PrevOK'
    <2>1. \A e \in RuleUsed' : tbl'[e].next = 0 \/ tbl'[tbl'[e].next].prev = e
      BY DEF TablesOK, CalmView, StillView
    <2> QED BY <2>1 DEF CalmView, StillView
  <1>2. DeadOK'
    <2>1. \A e \in TblEntries : tbl'[e].dead =>
             tbl'[e].enabled /\ e \in Buckets /\ (op'.at = "dead" \/ tbl'[e].next # 0)
      BY DEF TablesOK, CalmView, StillView
    <2> QED BY <2>1 DEF CalmView, StillView
  <1>3. OwnedOK'
    <2>1. \A e \in TblEntries : tbl'[e].enabled /\ ~ tbl'[e].dead =>
              \E h \in RuleHdls : installed'[h] # Nil /\ ids'[h] = RuleId(e)
      BY DEF TablesOK, CalmView, StillView
    <2> QED BY <2>1 DEF CalmView, StillView
  <1>4. RuleKey' = RuleKey
    BY DEF RuleKey
  <1> QED BY <1>1, <1>2, <1>3, <1>4

\* An index entry of the expansion table or a free bucket is written.
LEMMA TablesAddIndexCopy ==
  ASSUME BaseInv, TablesOK, AddIndexCopy
  PROVE  TablesOK'
  <1>1. PICK to \in AddStages : to = IF op.iprev = 0 THEN "enable" ELSE "ilink"
    BY DEF AddStages
  <1>2. /\ op.at = "icopy" /\ op'.at = to /\ op.at \in AddStages
        /\ op' \in AddOps /\ op'.rule = op.rule /\ op'.entry = op.entry /\ op'.prev = op.prev
        /\ op'.ientry = op.ientry /\ op'.iprev = op.iprev
        /\ Calm /\ Calm' /\ op' # Hung /\ op # Hung
        /\ UNCHANGED <<tbl, meta, ids, installed>>
    <2>1. AddStep("icopy", to) /\ "icopy" \in AddStages
      BY <1>1 DEF AddIndexCopy, AddStages
    <2> QED BY <2>1, AddSteps DEF AddIndexCopy
  <1>3. /\ op.entry \in TblEntries /\ op.rule \in ClntRules /\ AddRuleOK /\ AddIndexOK
        /\ AddWritten /\ ~ tbl[op.entry].enabled /\ op.ientry \in TblEntries
        /\ op.prev \in Links /\ op.ientry \in Links
    BY <1>2, AddView, Bounds
  <1>4. BaseInv'
    BY BaseAddStep
  <1>t. TypedView /\ TypedView'
    BY <1>4, TypedTables, TypedNext
  <1>c. CalmView /\ CalmView'
    BY <1>2, WhenCalm, WhenCalmNext
  <1>5. PICK i, e : i = op.ientry /\ e = op.entry
    OBVIOUS
  <1>6. /\ tbl[e].rule = op.rule /\ tbl[e].indx = i /\ ~ tbl[e].dead /\ index[i].tbl = 0
        /\ i \in TblEntries /\ e \in TblEntries /\ op.rule # Nil /\ e # 0
    <2>1. tbl[e] = NewEntry(op.rule, op.prev, i) /\ index[i].tbl = 0
      BY <1>2, <1>3, <1>5 DEF AddWritten
    <2> QED BY <1>3, <1>5, <2>1, NewEntries, NatAssumption, Bounds
  <1>7. /\ index'[i].tbl = e /\ index'[i].next = 0
        /\ \A j \in TblEntries : j # i => index'[j] = index[j]
    <2>1. index' = [index EXCEPT ![i] = [tbl |-> e, next |-> 0]]
      BY <1>5 DEF AddIndexCopy
    <2> QED BY <1>6, <2>1, <1>t DEF TypedView
  <1>8. RuleUsed' = RuleUsed /\ e \in RuleUsed
    <2>1. RuleUsed = {f \in TblEntries : tbl[f].enabled \/ f = e}
      BY <1>2, <1>5, <1>c DEF CalmView, StillView
    <2>2. RuleUsed' = {f \in TblEntries : tbl[f].enabled \/ f = e}
      BY <1>1, <1>2, <1>5, <1>c DEF CalmView, StillView
    <2> QED BY <1>6, <2>1, <2>2
  <1>9. i \notin IndexUsed
        /\ IndexUsed' = IF op.iprev = 0 THEN IndexUsed \cup {i} ELSE IndexUsed
    <2>1. IndexUsed = {j \in TblEntries : index[j].tbl # 0}
      BY <1>2, <1>c DEF CalmView, StillView
    <2>2. IndexUsed' = {j \in TblEntries : index'[j].tbl # 0 /\ (op.iprev # 0 => j # i)}
      BY <1>1, <1>2, <1>5, <1>c DEF CalmView, StillView
    <2> QED BY <1>6, <1>7, <2>1, <2>2
  <1>10. PrevOK' /\ DeadOK' /\ OwnedOK' /\ RuleKey' = RuleKey
    BY <1>1, <1>2, <1>8, <1>c, RulesStay
  <1>11. (\A j \in IndexUsed : IndexKey'[j] = IndexKey[j] /\ index'[j] = index[j])
         /\ IndexKey'[i] = SrcHash[op.rule]
    <2>1. \A j \in IndexUsed : j \in TblEntries /\ index'[j] = index[j]
      BY <1>7, <1>9, LinksView
    <2>2. \A j \in IndexUsed : IndexKey'[j] = IndexKey[j]
      BY <1>2, <2>1 DEF IndexKey
    <2>3. IndexKey'[i] = SrcHash[op.rule]
      BY <1>2, <1>6, <1>7 DEF IndexKey
    <2> QED BY <2>1, <2>2, <2>3
  <1>12. Linked(tbl', RuleUsed', RuleKey')
    BY <1>2, <1>8, <1>10, LinksView
  <1>13. HasLinks(index) /\ Linked(index, IndexUsed, IndexKey) /\ HasLinks(index')
    BY LinksView, <1>t DEF TypedView
  <1>14. Linked(index', IndexUsed', IndexKey')
    <2>1. CASE op.iprev = 0
      <3>1. i \in Buckets /\ IndexKey'[i] = i
        BY <1>3, <1>5, <1>11, <2>1, HashesAreBuckets DEF AddIndexOK
      <3>2. \A j \in TblEntries : index'[j].next = index[j].next
        BY <1>7, <1>9, <1>13, <3>1 DEF Linked
      <3>3. \A j \in IndexUsed : IndexKey'[j] = IndexKey[j]
        BY <1>11
      <3>4. Linked(index', IndexUsed \cup {i}, IndexKey')
        BY <1>9, <1>13, <3>1, <3>2, <3>3, LinkedHead
      <3> QED BY <1>9, <2>1, <3>4
    <2>2. CASE op.iprev # 0
      <3>1. i \in ExpnEntries
        BY <1>3, <1>5, <2>2 DEF AddIndexOK
      <3>2. \A j \in IndexUsed \cup Buckets : index'[j].next = index[j].next
        BY <1>7, <1>9, <3>1, LinksView, Bounds
      <3>3. \A j \in IndexUsed : IndexKey'[j] = IndexKey[j]
        BY <1>11
      <3>4. Linked(index', IndexUsed, IndexKey')
        BY <1>13, <3>2, <3>3, LinkedSame
      <3> QED BY <1>9, <2>2, <3>4
    <2> QED BY <2>1, <2>2
  <1>15. MetaOK'
    <2>1. ASSUME NEW j \in IndexUsed' PROVE index'[j].next = 0 \/ meta'[index'[j].next] = j
      <3>1. CASE j = i
        BY <1>7, <3>1
      <3>2. CASE j # i
        <4>1. j \in IndexUsed /\ index'[j] = index[j]
          BY <1>9, <1>11, <3>2
        <4>2. index[j].next = 0 \/ meta[index[j].next] = j
          BY <1>c, <4>1 DEF TablesOK, CalmView, StillView
        <4> QED BY <1>2, <4>1, <4>2
      <3> QED BY <3>1, <3>2
    <2> QED BY <1>c, <2>1 DEF CalmView, StillView
  <1>16. LeadsOK'
    <2>1. ASSUME NEW j \in IndexUsed'
          PROVE  /\ index'[j].tbl \in RuleUsed' /\ ~ tbl'[index'[j].tbl].dead
                 /\ tbl'[index'[j].tbl].indx = j
      <3>1. CASE j = i
        BY <1>2, <1>6, <1>7, <1>8, <3>1
      <3>2. CASE j # i
        <4>1. j \in IndexUsed /\ index'[j] = index[j]
          BY <1>9, <1>11, <3>2
        <4>2. index[j].tbl \in RuleUsed /\ ~ tbl[index[j].tbl].dead /\ tbl[index[j].tbl].indx = j
          BY <1>c, <4>1 DEF TablesOK, CalmView, StillView
        <4> QED BY <1>2, <1>8, <4>1, <4>2
      <3> QED BY <3>1, <3>2
    <2> QED BY <1>c, <2>1 DEF CalmView, StillView
  <1>17. LedOK'
    <2>1. ASSUME NEW f \in TblEntries, tbl'[f].enabled, ~ tbl'[f].dead
          PROVE  tbl'[f].indx \in IndexUsed' /\ index'[tbl'[f].indx].tbl = f
      <3>1. tbl[f].indx \in IndexUsed /\ index[tbl[f].indx].tbl = f
        BY <1>2, <1>c, <2>1 DEF TablesOK, CalmView, StillView
      <3> QED BY <1>2, <1>9, <1>11, <3>1
    <2> QED BY <1>c, <2>1 DEF CalmView, StillView
  <1>18. AddOK' /\ DmaOK'
    <2>1. AddRuleOK'
      BY <1>1, <1>2, <1>3, <1>8, <1>10 DEF AddRuleOK
    <2>2. AddIndexOK'
      <3>1. CASE op.iprev = 0
        BY <1>1, <1>2, <1>3, <3>1 DEF AddIndexOK
      <3>2. CASE op.iprev # 0
        <4>1. /\ op.ientry \in ExpnEntries /\ op.iprev \in IndexUsed
              /\ op.iprev # op.ientry /\ IndexKey[op.iprev] = SrcHash[op.rule]
              /\ index[op.iprev].next = 0 /\ meta[op.ientry] = op.iprev
          BY <1>2, <1>3, <3>2 DEF AddIndexOK
        <4>2. op.iprev \in IndexUsed' /\ IndexKey'[op.iprev] = SrcHash[op.rule]
              /\ index'[op.iprev].next = 0
          BY <1>9, <1>11, <3>2, <4>1
        <4> QED BY <1>2, <3>2, <4>1, <4>2 DEF AddIndexOK
      <3> QED BY <3>1, <3>2
    <2>3. AddWritten'
      <3>1. op.at # "copy" /\ to \in {"ilink", "enable"}
        BY <1>1, <1>2
      <3> QED BY <1>2, <1>3, <1>5, <1>7, <3>1 DEF AddWritten
    <2> QED BY <1>c, <2>1, <2>2, <2>3 DEF AddOK, CalmView, StillView
  <1> QED BY <1>2, <1>10, <1>12, <1>14, <1>15, <1>16, <1>17, <1>18 DEF TablesOK, LinksOK

LEMMA TablesAddIndexLink ==
  ASSUME BaseInv, TablesOK, AddIndexLink
  PROVE  TablesOK'
  <1>1. /\ op.at = "ilink" /\ op'.at = "enable" /\ op.at \in AddStages
        /\ op' \in AddOps /\ op'.rule = op.rule /\ op'.entry = op.entry /\ op'.prev = op.prev
        /\ op'.ientry = op.ientry /\ op'.iprev = op.iprev
        /\ Calm /\ Calm' /\ op' # Hung /\ op # Hung
        /\ UNCHANGED <<tbl, meta, ids, installed>>
    <2>1. AddStep("ilink", "enable") /\ "ilink" \in AddStages /\ "enable" \in AddStages
      BY DEF AddIndexLink, AddStages
    <2> QED BY <2>1, AddSteps DEF AddIndexLink
  <1>3. /\ op.entry \in TblEntries /\ op.rule \in ClntRules /\ AddRuleOK /\ AddIndexOK
        /\ AddWritten /\ ~ tbl[op.entry].enabled /\ op.ientry \in TblEntries
        /\ op.prev \in Links /\ op.ientry \in Links
    BY <1>1, AddView, Bounds
  <1>4. BaseInv'
    BY BaseAddStep
  <1>t. TypedView /\ TypedView'
    BY <1>4, TypedTables, TypedNext
  <1>c. CalmView /\ CalmView'
    BY <1>1, WhenCalm, WhenCalmNext
  <1>5. PICK i, e, p : i = op.ientry /\ e = op.entry /\ p = op.iprev
    OBVIOUS
  <1>6. /\ tbl[e].rule = op.rule /\ tbl[e].indx = i /\ ~ tbl[e].dead
        /\ index[i].tbl = e /\ index[i].next = 0
        /\ i \in TblEntries /\ e \in TblEntries /\ op.rule # Nil /\ e # 0
    <2>1. tbl[e] = NewEntry(op.rule, op.prev, i) /\ index[i].tbl = e /\ index[i].next = 0
      BY <1>1, <1>3, <1>5 DEF AddWritten
    <2> QED BY <1>3, <1>5, <2>1, NewEntries, NatAssumption, Bounds
  <1>7. /\ p # 0 /\ i \in ExpnEntries /\ p \in IndexUsed /\ p \in TblEntries /\ p # i
        /\ IndexKey[p] = SrcHash[op.rule] /\ index[p].next = 0 /\ meta[i] = p
    BY <1>1, <1>3, <1>5, LinksView DEF AddIndexOK
  <1>8. /\ index'[p].next = i
        /\ \A j \in TblEntries : index'[j].tbl = index[j].tbl
        /\ \A j \in TblEntries : j # p => index'[j].next = index[j].next
    <2>1. index' = [index EXCEPT ![p].next = i]
      BY <1>5 DEF AddIndexLink
    <2> QED BY <1>7, <2>1, <1>t DEF TypedView, IndexEntry
  <1>9. RuleUsed' = RuleUsed /\ e \in RuleUsed
    <2>1. RuleUsed = {f \in TblEntries : tbl[f].enabled \/ f = e}
      BY <1>1, <1>5, <1>c DEF CalmView, StillView
    <2>2. RuleUsed' = {f \in TblEntries : tbl[f].enabled \/ f = e}
      BY <1>1, <1>5, <1>c DEF CalmView, StillView
    <2> QED BY <1>6, <2>1, <2>2
  <1>10. i \notin IndexUsed /\ IndexUsed' = IndexUsed \cup {i}
    <2>1. IndexUsed = {j \in TblEntries : index[j].tbl # 0 /\ j # i}
      BY <1>1, <1>5, <1>c DEF CalmView, StillView
    <2>2. IndexUsed' = {j \in TblEntries : index'[j].tbl # 0}
      BY <1>1, <1>c DEF CalmView, StillView
    <2> QED BY <1>6, <1>8, <2>1, <2>2
  <1>11. PrevOK' /\ DeadOK' /\ OwnedOK' /\ RuleKey' = RuleKey
    BY <1>1, <1>9, <1>c, RulesStay
  <1>12. (\A j \in IndexUsed : IndexKey'[j] = IndexKey[j]) /\ IndexKey'[i] = IndexKey[p]
    <2>1. \A j \in TblEntries : IndexKey'[j] = IndexKey[j]
      BY <1>1, <1>8 DEF IndexKey
    <2>2. IndexKey[i] = SrcHash[op.rule]
      BY <1>6 DEF IndexKey
    <2> QED BY <1>6, <1>7, <2>1, <2>2, LinksView
  <1>13. Linked(tbl', RuleUsed', RuleKey')
    BY <1>1, <1>9, <1>11, LinksView
  <1>14. Linked(index', IndexUsed', IndexKey')
    <2>1. HasLinks(index) /\ Linked(index, IndexUsed, IndexKey)
      BY LinksView
    <2>2. \A j \in TblEntries \ {p} : index'[j].next = index[j].next
      BY <1>8
    <2>3. Linked(index', IndexUsed \cup {i}, IndexKey')
      BY <1>6, <1>7, <1>8, <1>10, <1>12, <2>1, <2>2, LinkedTail
    <2> QED BY <1>10, <2>3
  <1>15. MetaOK'
    <2>1. ASSUME NEW j \in IndexUsed' PROVE index'[j].next = 0 \/ meta'[index'[j].next] = j
      <3>1. CASE j = i
        BY <1>6, <1>7, <1>8, <3>1
      <3>2. CASE j = p
        BY <1>1, <1>7, <1>8, <3>2
      <3>3. CASE j # i /\ j # p
        <4>1. j \in IndexUsed /\ index'[j].next = index[j].next
          BY <1>8, <1>10, <3>3, LinksView
        <4>2. index[j].next = 0 \/ meta[index[j].next] = j
          BY <1>c, <4>1 DEF TablesOK, CalmView, StillView
        <4> QED BY <1>1, <4>1, <4>2
      <3> QED BY <3>1, <3>2, <3>3
    <2> QED BY <1>c, <2>1 DEF CalmView, StillView
  <1>16. LeadsOK'
    <2>1. ASSUME NEW j \in IndexUsed'
          PROVE  /\ index'[j].tbl \in RuleUsed' /\ ~ tbl'[index'[j].tbl].dead
                 /\ tbl'[index'[j].tbl].indx = j
      <3>1. CASE j = i
        BY <1>1, <1>6, <1>8, <1>9, <3>1
      <3>2. CASE j # i
        <4>1. j \in IndexUsed /\ index'[j].tbl = index[j].tbl
          BY <1>8, <1>10, <3>2, LinksView
        <4>2. index[j].tbl \in RuleUsed /\ ~ tbl[index[j].tbl].dead /\ tbl[index[j].tbl].indx = j
          BY <1>c, <4>1 DEF TablesOK, CalmView, StillView
        <4> QED BY <1>1, <1>9, <4>1, <4>2
      <3> QED BY <3>1, <3>2
    <2> QED BY <1>c, <2>1 DEF CalmView, StillView
  <1>17. LedOK'
    <2>1. ASSUME NEW f \in TblEntries, tbl'[f].enabled, ~ tbl'[f].dead
          PROVE  tbl'[f].indx \in IndexUsed' /\ index'[tbl'[f].indx].tbl = f
      <3>1. tbl[f].indx \in IndexUsed /\ index[tbl[f].indx].tbl = f
        BY <1>1, <1>c, <2>1 DEF TablesOK, CalmView, StillView
      <3>2. index'[tbl[f].indx].tbl = index[tbl[f].indx].tbl
        BY <1>8, <3>1, LinksView
      <3> QED BY <1>1, <1>10, <3>1, <3>2
    <2> QED BY <1>c, <2>1 DEF CalmView, StillView
  <1>18. AddOK' /\ DmaOK'
    <2>1. AddRuleOK'
      BY <1>1, <1>3, <1>9, <1>11 DEF AddRuleOK
    <2>2. AddIndexOK'
      <3>1. IndexKey'[p] = SrcHash[op.rule]
        BY <1>7, <1>12
      <3> QED BY <1>1, <1>5, <1>7, <1>10, <3>1 DEF AddIndexOK
    <2>3. AddWritten'
      BY <1>1, <1>3, <1>5, <1>6, <1>7, <1>8 DEF AddWritten
    <2> QED BY <1>c, <2>1, <2>2, <2>3 DEF AddOK, CalmView, StillView
  <1> QED BY <1>1, <1>11, <1>13, <1>14, <1>15, <1>16, <1>17, <1>18 DEF TablesOK, LinksOK

-----------------------------------------------------------------------------
LEMMA TablesAddEnable ==
  ASSUME BaseInv, TablesOK, AddEnable
  PROVE  TablesOK'
  <1>1. /\ op.at = "enable" /\ op.at \in AddStages /\ op' = Idle /\ op'.at = "idle"
        /\ op' # Hung /\ Calm /\ Calm' /\ UNCHANGED <<index, meta, failures>>
    BY DEF AddEnable, AddStages, Idle, Hung, Calm
  <1>2. BaseInv' /\ FirstHandle \in FreeHdls
    BY BaseAddEnable
  <1>3. /\ op.entry \in TblEntries /\ op.rule \in ClntRules /\ AddRuleOK /\ AddIndexOK
        /\ AddWritten /\ ~ tbl[op.entry].enabled /\ op.ientry \in TblEntries
        /\ op.prev \in Links /\ op.ientry \in Links /\ op.entry \in UsableEntries
    BY <1>1, AddView, Bounds
  <1>t. TypedView /\ TypedView'
    BY <1>2, TypedTables, TypedNext
  <1>c. CalmView /\ CalmView'
    BY <1>1, WhenCalm, WhenCalmNext
  <1>5. PICK i, e, g : i = op.ientry /\ e = op.entry /\ g = FirstHandle
    OBVIOUS
  <1>6. /\ tbl[e].rule = op.rule /\ tbl[e].indx = i /\ ~ tbl[e].dead
        /\ index[i].tbl = e /\ index[i].next = 0
        /\ i \in TblEntries /\ e \in TblEntries /\ op.rule # Nil /\ e # 0
    <2>1. tbl[e] = NewEntry(op.rule, op.prev, i) /\ index[i].tbl = e /\ index[i].next = 0
      BY <1>1, <1>3, <1>5 DEF AddWritten
    <2> QED BY <1>3, <1>5, <2>1, NewEntries, NatAssumption, Bounds
  <1>7. \A f \in TblEntries :
          /\ tbl'[f].rule = tbl[f].rule /\ tbl'[f].prev = tbl[f].prev
          /\ tbl'[f].indx = tbl[f].indx /\ tbl'[f].next = tbl[f].next
          /\ tbl'[f].enabled <=> (f = e \/ tbl[f].enabled)
          /\ tbl'[f].dead <=> tbl[f].dead
    <2>1. tbl' = [tbl EXCEPT ![e].enabled = TRUE]
      BY <1>5 DEF AddEnable
    <2> QED BY <1>6, <2>1, <1>t DEF TypedView, RuleEntry
  <1>8. RuleUsed' = RuleUsed /\ e \in RuleUsed
    <2>1. RuleUsed = {f \in TblEntries : tbl[f].enabled \/ f = e}
      BY <1>1, <1>5, <1>c DEF CalmView, StillView
    <2>2. RuleUsed' = {f \in TblEntries : tbl'[f].enabled}
      BY <1>1, <1>c DEF CalmView, StillView
    <2> QED BY <1>6, <1>7, <2>1, <2>2
  <1>9. IndexUsed' = IndexUsed /\ i \in IndexUsed
    <2>1. IndexUsed = {j \in TblEntries : index[j].tbl # 0}
      BY <1>1, <1>c DEF CalmView, StillView
    <2>2. IndexUsed' = {j \in TblEntries : index[j].tbl # 0}
      BY <1>1, <1>c DEF CalmView, StillView
    <2> QED BY <1>6, <2>1, <2>2
  <1>10. (\A f \in RuleUsed : RuleKey'[f] = RuleKey[f])
         /\ (\A j \in IndexUsed : IndexKey'[j] = IndexKey[j])
    <2>1. \A f \in RuleUsed : RuleKey'[f] = RuleKey[f]
      BY <1>7, LinksView DEF RuleKey
    <2>2. ASSUME NEW j \in IndexUsed PROVE IndexKey'[j] = IndexKey[j]
      <3>1. j \in TblEntries /\ index[j].tbl \in TblEntries
        BY LinksView
      <3>2. tbl'[index[j].tbl].rule = tbl[index[j].tbl].rule
        BY <1>7, <3>1
      <3> QED BY <1>1, <3>1, <3>2 DEF IndexKey
    <2> QED BY <2>1, <2>2
  <1>11. LinksOK'
    <2>1. /\ HasLinks(tbl) /\ Linked(tbl, RuleUsed, RuleKey) /\ HasLinks(tbl')
          /\ HasLinks(index) /\ Linked(index, IndexUsed, IndexKey)
      BY LinksView, <1>t DEF TypedView
    <2>2. \A f \in RuleUsed \cup Buckets : tbl'[f].next = tbl[f].next
      BY <1>7, LinksView, Bounds
    <2>3. Linked(tbl', RuleUsed, RuleKey')
      BY <1>10, <2>1, <2>2, LinkedSame
    <2>4. Linked(index, IndexUsed, IndexKey')
      BY <1>10, <2>1, LinkedSame
    <2> QED BY <1>1, <1>8, <1>9, <2>3, <2>4 DEF LinksOK
  <1>12. PrevOK'
    <2>1. ASSUME NEW f \in RuleUsed PROVE tbl'[f].next = 0 \/ tbl'[tbl'[f].next].prev = f
      <3>1. f \in TblEntries /\ tbl'[f].next = tbl[f].next
        BY <1>7, LinksView
      <3>2. tbl[f].next = 0 \/ tbl[tbl[f].next].prev = f
        BY <1>c DEF TablesOK, CalmView, StillView
      <3>3. tbl[f].next = 0 \/ tbl'[tbl[f].next].prev = tbl[tbl[f].next].prev
        BY <1>7, LinksView
      <3> QED BY <3>1, <3>2, <3>3
    <2> QED BY <1>8, <1>c, <2>1 DEF CalmView, StillView
  <1>13. MetaOK'
    BY <1>1, <1>9, <1>c DEF TablesOK, CalmView, StillView
  <1>14. LeadsOK'
    <2>1. ASSUME NEW j \in IndexUsed
          PROVE  /\ index[j].tbl \in RuleUsed' /\ ~ tbl'[index[j].tbl].dead
                 /\ tbl'[index[j].tbl].indx = j
      <3>1. index[j].tbl \in RuleUsed /\ ~ tbl[index[j].tbl].dead /\ tbl[index[j].tbl].indx = j
        BY <1>c DEF TablesOK, CalmView, StillView
      <3> QED BY <1>7, <1>8, <3>1, LinksView
    <2> QED BY <1>1, <1>9, <1>c, <2>1 DEF CalmView, StillView
  <1>15. LedOK'
    <2>1. ASSUME NEW f \in TblEntries, tbl'[f].enabled, ~ tbl'[f].dead
          PROVE  tbl'[f].indx \in IndexUsed /\ index[tbl'[f].indx].tbl = f
      <3>1. CASE f = e
        BY <1>6, <1>7, <1>9, <3>1
      <3>2. CASE f # e
        <4>1. tbl[f].enabled /\ ~ tbl[f].dead /\ tbl'[f].indx = tbl[f].indx
          BY <1>7, <2>1, <3>2
        <4> QED BY <1>c, <4>1 DEF TablesOK, CalmView, StillView
      <3> QED BY <3>1, <3>2
    <2> QED BY <1>1, <1>9, <1>c, <2>1 DEF CalmView, StillView
  <1>16. DeadOK'
    <2>1. ASSUME NEW f \in TblEntries, tbl'[f].dead
          PROVE  tbl'[f].enabled /\ f \in Buckets /\ tbl'[f].next # 0
      <3>1. tbl[f].dead
        BY <1>7, <2>1
      <3>2. tbl[f].enabled /\ f \in Buckets /\ tbl[f].next # 0
        BY <1>1, <1>c, <3>1 DEF TablesOK, CalmView, StillView
      <3> QED BY <1>7, <3>2
    <2> QED BY <1>c, <2>1 DEF CalmView, StillView
  <1>17. OwnedOK'
    <2>1. /\ ids \in [RuleHdls -> {id \in 0 .. 2 * (Base + Expn) :
                             id \div 2 < IF id % 2 = 1 THEN Expn ELSE Base}]
          /\ installed \in [RuleHdls -> ClntRules \cup {Nil}]
      BY DEF BaseInv, TableTypeOK
    <2>2. g \in RuleHdls /\ ids[g] = 0
      BY <1>2, <1>5 DEF FreeHdls
    <2>3. ids' = [ids EXCEPT ![g] = RuleId(e)] /\ installed' = [installed EXCEPT ![g] = op.rule]
      BY <1>5 DEF AddEnable
    <2>4. ids'[g] = RuleId(e) /\ installed'[g] = op.rule
          /\ \A h \in RuleHdls : h # g => ids'[h] = ids[h] /\ installed'[h] = installed[h]
      BY <2>1, <2>2, <2>3
    <2>5. ASSUME NEW f \in TblEntries, tbl'[f].enabled, ~ tbl'[f].dead
          PROVE  \E h \in RuleHdls : installed'[h] # Nil /\ ids'[h] = RuleId(f)
      <3>1. CASE f = e
        BY <1>6, <2>2, <2>4, <3>1
      <3>2. CASE f # e
        <4>1. tbl[f].enabled /\ ~ tbl[f].dead
          BY <1>7, <2>5, <3>2
        <4>2. PICK h \in RuleHdls : installed[h] # Nil /\ ids[h] = RuleId(f)
          BY <1>c, <4>1 DEF TablesOK, CalmView, StillView
        <4>3. ids[h] # 0
          BY <4>2 DEF BaseInv, HandleOK
        <4> QED BY <2>2, <2>4, <4>2, <4>3
      <3> QED BY <3>1, <3>2
    <2> QED BY <1>c, <2>5 DEF CalmView, StillView
  <1>18. AddOK' /\ DmaOK'
    BY <1>1, <1>c DEF AddOK, CalmView, StillView, AddStages
  <1> QED BY <1>1, <1>11, <1>12, <1>13, <1>14, <1>15, <1>16, <1>17, <1>18 DEF TablesOK

LEMMA TablesDeleteDone ==
  ASSUME BaseInv, TablesOK, DeleteDone
  PROVE  TablesOK'
  <1>1. /\ op \in DeadOps /\ op.at = "dead" /\ op.hdl \in RuleHdls
        /\ op' = Idle /\ op'.at = "idle" /\ op' # Hung /\ Calm /\ Calm'
        /\ tbl' = WithoutDeadHeads(tbl) /\ ids' = [ids EXCEPT ![op.hdl] = 0]
        /\ UNCHANGED <<index, meta, installed, failures>>
    BY OpShapes DEF BaseInv, DeleteDone, DeadOps, Idle, Hung, Calm
  <1>2. BaseInv'
    BY BaseDeleteDone
  <1>t. TypedView /\ TypedView'
    BY <1>2, TypedTables, TypedNext
  <1>c. CalmView /\ CalmView'
    BY <1>1, WhenCalm, WhenCalmNext
  <1>3. PICK D : D = {e \in TblEntries : e < Base /\ tbl[e].dead /\ tbl[e].next = 0}
    OBVIOUS
  <1>4. \A e \in TblEntries : tbl[e].dead => tbl[e].enabled /\ e \in Buckets
    BY <1>c DEF TablesOK, CalmView, StillView
  <1>5. D \subseteq Buckets /\ \A e \in D : tbl[e].next = 0
    BY <1>3, <1>4
  <1>6. \A e \in TblEntries : tbl'[e] = IF e \in D THEN NoRule ELSE tbl[e]
    BY <1>1, <1>3 DEF WithoutDeadHeads
  <1>7. RuleUsed = {e \in TblEntries : tbl[e].enabled} /\ RuleUsed' = RuleUsed \ D
    <2>1. RuleUsed = {e \in TblEntries : tbl[e].enabled}
      BY <1>1, <1>c DEF CalmView, StillView
    <2>2. RuleUsed' = {e \in TblEntries : tbl'[e].enabled}
      BY <1>1, <1>c DEF CalmView, StillView
    <2>3. \A e \in TblEntries : e \in RuleUsed' <=> e \in RuleUsed /\ e \notin D
      BY <1>6, <2>1, <2>2, NewEntries
    <2> QED BY <2>1, <2>2, <2>3
  <1>8. IndexUsed' = IndexUsed
    BY <1>1, <1>c DEF CalmView, StillView
  <1>9. \A i \in IndexUsed : /\ index[i].tbl \in RuleUsed' /\ index[i].tbl \notin D
                             /\ ~ tbl[index[i].tbl].dead /\ tbl[index[i].tbl].indx = i
                             /\ tbl'[index[i].tbl] = tbl[index[i].tbl]
    <2>1. ASSUME NEW i \in IndexUsed
          PROVE  index[i].tbl \in RuleUsed /\ ~ tbl[index[i].tbl].dead /\ tbl[index[i].tbl].indx = i
      BY <1>c DEF TablesOK, CalmView, StillView
    <2> QED BY <1>3, <1>6, <1>7, <2>1, LinksView
  <1>10. LinksOK'
    <2>1. /\ HasLinks(tbl) /\ Linked(tbl, RuleUsed, RuleKey) /\ HasLinks(tbl')
          /\ HasLinks(index) /\ Linked(index, IndexUsed, IndexKey)
      BY LinksView, <1>t DEF TypedView
    <2>2. \A e \in TblEntries : tbl'[e].next = tbl[e].next
      BY <1>5, <1>6, NewEntries
    <2>3. \A e \in RuleUsed \ D : RuleKey'[e] = RuleKey[e]
      BY <1>6, LinksView DEF RuleKey
    <2>4. Linked(tbl', RuleUsed \ D, RuleKey')
      <3>1. PICK t, u, U, k, l : t = tbl /\ u = tbl' /\ U = RuleUsed /\ k = RuleKey /\ l = RuleKey'
        OBVIOUS
      <3>2. HasLinks(t) /\ Linked(t, U, k)
        BY <2>1, <3>1
      <3>3. \A e \in TblEntries : u[e].next = t[e].next
        BY <2>2, <3>1
      <3>4. Agree(U \ D, l, k)
        BY <2>3, <3>1 DEF Agree
      <3>5. LoneHeads(t, D)
        BY <1>5, <3>1 DEF LoneHeads
      <3>7. Linked(u, U \ D, l)
        BY <3>2, <3>3, <3>4, <3>5, LinkedDrop
      <3> QED BY <3>1, <3>7
    <2>5. \A i \in IndexUsed : IndexKey'[i] = IndexKey[i]
      <3> TAKE i \in IndexUsed
      <3> QED BY <1>1, <1>9, LinksView DEF IndexKey
    <2>6. Linked(index, IndexUsed, IndexKey')
      BY <2>1, <2>5, LinkedSame
    <2> QED BY <1>1, <1>7, <1>8, <2>4, <2>6 DEF LinksOK
  <1>11. PrevOK'
    <2>1. ASSUME NEW e \in RuleUsed' PROVE tbl'[e].next = 0 \/ tbl'[tbl'[e].next].prev = e
      <3>1. e \in RuleUsed /\ tbl'[e] = tbl[e]
        BY <1>6, <1>7, LinksView
      <3>2. tbl[e].next = 0 \/ tbl[tbl[e].next].prev = e
        BY <1>c, <3>1 DEF TablesOK, CalmView, StillView
      <3>3. tbl[e].next = 0 \/ tbl'[tbl[e].next] = tbl[tbl[e].next]
        BY <1>5, <1>6, <3>1, LinksView, Bounds
      <3> QED BY <3>1, <3>2, <3>3
    <2> QED BY <1>c, <2>1 DEF CalmView, StillView
  <1>12. MetaOK'
    BY <1>1, <1>8, <1>c DEF TablesOK, CalmView, StillView
  <1>13. LeadsOK'
    BY <1>1, <1>8, <1>9, <1>c DEF CalmView, StillView
  <1>14. \A e \in TblEntries : tbl'[e].enabled \/ tbl'[e].dead => e \notin D /\ tbl'[e] = tbl[e]
    BY <1>6, NewEntries
  <1>15. LedOK'
    <2>1. ASSUME NEW e \in TblEntries, tbl'[e].enabled, ~ tbl'[e].dead
          PROVE  tbl'[e].indx \in IndexUsed /\ index[tbl'[e].indx].tbl = e
      BY <1>14, <1>c, <2>1 DEF TablesOK, CalmView, StillView
    <2> QED BY <1>1, <1>8, <1>c, <2>1 DEF CalmView, StillView
  <1>16. DeadOK'
    <2>1. ASSUME NEW e \in TblEntries, tbl'[e].dead
          PROVE  tbl'[e].enabled /\ e \in Buckets /\ tbl'[e].next # 0
      <3>1. e \notin D /\ tbl'[e] = tbl[e]
        BY <1>14, <2>1
      <3>2. tbl[e].enabled /\ e \in Buckets /\ e < Base
        BY <1>4, <2>1, <3>1, Bounds DEF Buckets
      <3> QED BY <1>3, <2>1, <3>1, <3>2
    <2> QED BY <1>c, <2>1 DEF CalmView, StillView
  <1>17. OwnedOK'
    <2>1. /\ ids \in [RuleHdls -> {id \in 0 .. 2 * (Base + Expn) :
                             id \div 2 < IF id % 2 = 1 THEN Expn ELSE Base}]
          /\ installed[op.hdl] = Nil
      BY <1>1 DEF BaseInv, TableTypeOK, HandleOK
    <2>2. \A h \in RuleHdls : installed[h] # Nil => ids'[h] = ids[h]
      BY <1>1, <2>1
    <2>3. ASSUME NEW e \in TblEntries, tbl'[e].enabled, ~ tbl'[e].dead
          PROVE  \E h \in RuleHdls : installed'[h] # Nil /\ ids'[h] = RuleId(e)
      <3>1. PICK h \in RuleHdls : installed[h] # Nil /\ ids[h] = RuleId(e)
        BY <1>14, <1>c, <2>3 DEF TablesOK, CalmView, StillView
      <3> QED BY <1>1, <2>2, <3>1
    <2> QED BY <1>c, <2>3 DEF CalmView, StillView
  <1>18. AddOK' /\ DmaOK'
    BY <1>1, <1>c DEF AddOK, CalmView, StillView, AddStages
  <1> QED BY <1>1, <1>10, <1>11, <1>12, <1>13, <1>15, <1>16, <1>17, <1>18 DEF TablesOK

-----------------------------------------------------------------------------
LEMMA TablesDeleteBegin ==
  ASSUME BaseInv, TablesOK, NEW h \in RuleHdls, DeleteBegin(h)
  PROVE  TablesOK'
  <1>1. PICK e \in UsableEntries, i \in TblEntries : Begins(h, e, i)
    BY BaseDeleteBegin
  <1>2. /\ op = Idle /\ op.at = "idle" /\ op'.at = "dma" /\ Calm /\ op' # Hung
        /\ op'.entry = e /\ op'.ientry = i /\ op'.hdl = h /\ i = tbl[e].indx
        /\ e \in TblEntries /\ e # Base /\ tbl[e].enabled /\ ~ tbl[e].dead
        /\ op'.pos = Position(tbl, e) /\ op'.ipos = Position(index, i)
        /\ op'.moved = index[i].next /\ op'.writes = Commands(e)
        /\ UNCHANGED <<tbl, index, meta, ids, failures>>
    BY <1>1 DEF Begins, Idle, Calm, Hung, UsableEntries
  <1>3. BaseInv' /\ TypedView
    BY BaseDeleteBegin, TypedTables
  <1>4. PICK a, b, c : a = MoveCommand(i) /\ b = IndexCommand(i) /\ c = RuleCommand(e)
    OBVIOUS
  <1>5. op'.writes = IF op'.ipos = "head" THEN <<a, b, c>> ELSE <<b, c>>
    BY <1>2, <1>4, CommandsAre
  <1>6. Len(op'.writes) > 1 /\ (op'.ipos = "head" => Len(op'.writes) > 2) /\ op'.writes # <<>>
        /\ Len(op'.writes) \in Nat
    BY <1>5
  <1>7. /\ ~ RuleDone' /\ ~ IndexDone' /\ ~ Overwritten'
    BY <1>6 DEF RuleDone, IndexDone, Overwritten
  <1>8. Still'
    BY <1>7 DEF Still
  <1>c. CalmView /\ StillView'
    BY <1>2, <1>8, WhenCalm, WhenStillNext
  <1>9. RuleUsed' = RuleUsed /\ IndexUsed' = IndexUsed
    <2>1. RuleUsed = {f \in TblEntries : tbl[f].enabled}
          /\ IndexUsed = {j \in TblEntries : index[j].tbl # 0}
      BY <1>2, <1>c DEF CalmView, StillView
    <2>2. RuleUsed' = {f \in TblEntries : tbl[f].enabled}
          /\ IndexUsed' = {j \in TblEntries : index[j].tbl # 0}
      BY <1>2, <1>c DEF StillView
    <2> QED BY <2>1, <2>2
  <1>10. LinksOK'
    <2>1. RuleKey' = RuleKey /\ IndexKey' = IndexKey
      BY <1>2 DEF RuleKey, IndexKey
    <2> QED BY <1>2, <1>9, <2>1 DEF TablesOK, LinksOK
  <1>11. PrevOK' /\ MetaOK' /\ LeadsOK' /\ LedOK' /\ DeadOK'
    <2>1. op.at # "dead"
      BY <1>2
    <2> QED BY <1>2, <1>9, <1>c, <2>1 DEF TablesOK, CalmView, StillView
  <1>12. OwnedOK'
    <2>1. ASSUME NEW f \in TblEntries, tbl[f].enabled, ~ tbl[f].dead, f # e
          PROVE  \E g \in RuleHdls : installed'[g] # Nil /\ ids[g] = RuleId(f)
      <3>1. PICK g \in RuleHdls : installed[g] # Nil /\ ids[g] = RuleId(f)
        BY <1>c, <2>1 DEF TablesOK, CalmView
      <3>2. g # h
        <4>1. ids[h] = RuleId(e)
          BY <1>1 DEF Begins
        <4>2. f \in UsableEntries
          <5>1. f \in RuleUsed
            BY <1>c, <2>1 DEF CalmView, StillView
          <5>2. f # Base
            BY <5>1 DEF TablesOK, LinksOK, Linked
          <5> QED BY <5>2 DEF UsableEntries
        <4>3. RuleId(f) # RuleId(e)
          BY <2>1, <4>2, RuleIds
        <4> QED BY <3>1, <4>1, <4>3
      <3>3. installed'[g] = installed[g]
        BY <1>1, <3>2 DEF Begins, BaseInv, TableTypeOK
      <3> QED BY <3>1, <3>3
    <2> QED BY <1>2, <2>1 DEF OwnedOK, Dma
  <1>13. i \in IndexUsed /\ i # Base /\ (index[i].next # 0 => index[i].next \in IndexUsed)
    <2>1. i \in IndexUsed
      BY <1>2, <1>c DEF TablesOK, CalmView, StillView
    <2> QED BY <2>1, LinksView DEF Linked
  <1>14. DmaPlaces'
    <2>1. /\ Position(tbl, e) \in {"only_one", "head"} <=> e < Base
          /\ Position(tbl, e) \in {"only_one", "last"} <=> tbl[e].next = 0
          /\ Position(index, i) \in {"only_one", "head"} <=> i < Base
          /\ Position(index, i) \in {"only_one", "last"} <=> index[i].next = 0
      BY <1>2, <1>3, PositionsAre DEF TypedView
    <2>2. (e < Base <=> e \in Buckets) /\ (i < Base <=> i \in Buckets)
      BY <1>2, Bounds DEF Buckets, TblEntries
    <2> QED BY <1>2, <2>1, <2>2 DEF DmaPlaces
  <1>15. Pending'
    <2>1. PendingRule' = c
      BY <1>2, <1>4 DEF PendingRule, RuleCommand
    <2>2. PendingIndex' = b
      BY <1>2, <1>4 DEF PendingIndex, IndexCommand
    <2>3. PendingMove' = a
      BY <1>2, <1>4 DEF PendingMove, MoveCommand
    <2> QED BY <1>5, <2>1, <2>2, <2>3 DEF Pending
  <1>16. DmaRule'
    BY <1>2, <1>7 DEF DmaRule
  <1>17. DmaIndex'
    <2>1. op'.ipos = "head" => index[i].next # 0
      BY <1>2, <1>14 DEF DmaPlaces
    <2> QED BY <1>2, <1>7, <1>9, <1>13, <2>1 DEF DmaIndex
  <1>18. AddOK' /\ DmaOK'
    BY <1>2, <1>14, <1>15, <1>16, <1>17 DEF AddOK, AddStages, DmaOK
  <1> QED BY <1>2, <1>10, <1>11, <1>12, <1>18 DEF TablesOK

-----------------------------------------------------------------------------
\* The three kinds of writes of a deletion
SameDeletion ==
  /\ op.at = "dma" /\ op'.at = "dma" /\ op'.hdl = op.hdl
  /\ op'.entry = op.entry /\ op'.ientry = op.ientry /\ op'.moved = op.moved
  /\ op'.pos = op.pos /\ op'.ipos = op.ipos
  /\ UNCHANGED <<meta, ids, installed, failures>>
MoveWritten ==
  /\ op.ipos = "head" /\ op.writes = <<PendingMove, PendingIndex, PendingRule>>
  /\ op'.writes = <<PendingIndex, PendingRule>>
  /\ tbl' = tbl /\ index' = [index EXCEPT ![op.ientry].tbl = index[op.moved].tbl]
IndexWritten ==
  /\ op.writes = <<PendingIndex, PendingRule>> /\ op'.writes = <<PendingRule>>
  /\ tbl' = tbl
  /\ op.ipos = "only_one" => index' = [index EXCEPT ![op.ientry].tbl = 0]
  /\ op.ipos = "head" => index' = [index EXCEPT ![op.ientry].next = index[op.moved].next]
  /\ op.ipos \in {"last", "middle"} => index' = [index EXCEPT ![meta[op.ientry]].next = op.moved]
RuleWritten ==
  /\ op.writes = <<PendingRule>> /\ op'.writes = <<>>
  /\ index' = index
  /\ op.pos = "only_one" => tbl' = [tbl EXCEPT ![op.entry].enabled = FALSE]
  /\ op.pos = "head" => tbl' = [tbl EXCEPT ![op.entry].dead = TRUE]
  /\ op.pos \in {"last", "middle"} =>
       tbl' = [tbl EXCEPT ![tbl[op.entry].prev].next = tbl[op.entry].next]

LEMMA DmaStages ==
  ASSUME BaseInv, TablesOK, DeleteDma
  PROVE  /\ SameDeletion /\ op'.writes = Tail(op.writes) /\ op.hdl \in RuleHdls
         /\ op.entry \in UsableEntries /\ op.entry \in TblEntries /\ op.ientry \in TblEntries
         /\ op.moved \in Links /\ op.pos \in Positions /\ op.ipos \in Positions
         /\ op.writes # <<>> /\ DmaPlaces /\ DmaRule /\ DmaIndex
         /\ MoveWritten \/ IndexWritten \/ RuleWritten
  <1>1. /\ op \in DmaOps /\ op.writes # <<>> /\ op' = [op EXCEPT !.writes = Tail(op.writes)]
        /\ op' \in DmaOps /\ UNCHANGED <<meta, ids, installed, failures>>
    BY DmaCarries DEF BaseInv
  <1>2. PICK w : w = Head(op.writes) /\ Carries(w)
    BY DmaCarries DEF BaseInv
  <1>3. /\ SameDeletion /\ op'.writes = Tail(op.writes) /\ op.hdl \in RuleHdls
        /\ op.entry \in UsableEntries /\ op.entry \in TblEntries /\ op.ientry \in TblEntries
        /\ op.moved \in Links /\ op.pos \in Positions /\ op.ipos \in Positions
    BY <1>1 DEF DmaOps, SameDeletion, UsableEntries
  <1>4. Pending /\ DmaPlaces /\ DmaRule /\ DmaIndex
    BY <1>3 DEF TablesOK, DmaOK, Dma, SameDeletion
  <1>5. PICK a, b, c : a = PendingMove /\ b = PendingIndex /\ c = PendingRule
    OBVIOUS
  <1>6. \/ op.ipos = "head" /\ op.writes = <<a, b, c>>
        \/ op.writes = <<b, c>>
        \/ op.writes = <<c>>
    BY <1>1, <1>4, <1>5 DEF Pending
  <1>7. CASE op.ipos = "head" /\ op.writes = <<a, b, c>>
    <2>1. w = PendingMove /\ op'.writes = <<b, c>>
      BY <1>2, <1>3, <1>5, <1>7
    <2>2. w.t = "index" /\ w.field = "tbl" /\ w.e = op.ientry /\ w.value = index[op.moved].tbl
      BY <2>1 DEF PendingMove, Write
    <2>3. tbl' = tbl /\ index' = [index EXCEPT ![op.ientry].tbl = index[op.moved].tbl]
      BY <1>2, <2>2 DEF Carries
    <2>4. MoveWritten
      BY <1>5, <1>7, <2>1, <2>3 DEF MoveWritten
    <2> QED BY <1>1, <1>3, <1>4, <2>4
  <1>8. CASE op.writes = <<b, c>>
    <2>1. w = PendingIndex /\ op'.writes = <<c>>
      BY <1>2, <1>3, <1>5, <1>8
    <2>2. /\ w.t = "index"
          /\ op.ipos = "only_one" => w.field = "tbl" /\ w.e = op.ientry /\ w.value = 0
          /\ op.ipos = "head" => /\ w.field = "next" /\ w.e = op.ientry
                                 /\ w.value = index[op.moved].next
          /\ op.ipos \in {"last", "middle"} =>
               w.field = "next" /\ w.e = meta[op.ientry] /\ w.value = op.moved
      BY <2>1 DEF PendingIndex, Write
    <2>3. /\ tbl' = tbl
          /\ op.ipos = "only_one" => index' = [index EXCEPT ![op.ientry].tbl = 0]
          /\ op.ipos = "head" => index' = [index EXCEPT ![op.ientry].next = index[op.moved].next]
          /\ op.ipos \in {"last", "middle"} =>
               index' = [index EXCEPT ![meta[op.ientry]].next = op.moved]
      BY <1>2, <2>2 DEF Carries
    <2>4. IndexWritten
      BY <1>5, <1>8, <2>1, <2>3 DEF IndexWritten
    <2> QED BY <1>1, <1>3, <1>4, <2>4
  <1>9. CASE op.writes = <<c>>
    <2>1. w = PendingRule /\ op'.writes = <<>>
      BY <1>2, <1>3, <1>5, <1>9
    <2>2. /\ w.t = "tbl"
          /\ op.pos = "only_one" => w.field = "enabled" /\ w.e = op.entry
          /\ op.pos = "head" => w.field = "dead" /\ w.e = op.entry
          /\ op.pos \in {"last", "middle"} => /\ w.field = "next" /\ w.e = tbl[op.entry].prev
                                              /\ w.value = tbl[op.entry].next
      BY <2>1 DEF PendingRule, Write
    <2>3. /\ index' = index
          /\ op.pos = "only_one" => tbl' = [tbl EXCEPT ![op.entry].enabled = FALSE]
          /\ op.pos = "head" => tbl' = [tbl EXCEPT ![op.entry].dead = TRUE]
          /\ op.pos \in {"last", "middle"} =>
               tbl' = [tbl EXCEPT ![tbl[op.entry].prev].next = tbl[op.entry].next]
      BY <1>2, <2>2 DEF Carries
    <2>4. RuleWritten
      BY <1>5, <1>9, <2>1, <2>3 DEF RuleWritten
    <2> QED BY <1>1, <1>3, <1>4, <2>4
  <1> QED BY <1>6, <1>7, <1>8, <1>9

LEMMA TablesDmaMove ==
  ASSUME BaseInv, BaseInv', TablesOK, DeleteDma, MoveWritten
  PROVE  TablesOK'
  <1>1. /\ SameDeletion /\ op.entry \in TblEntries /\ op.ientry \in TblEntries
        /\ DmaPlaces /\ DmaRule /\ DmaIndex /\ op.hdl \in RuleHdls
        /\ op.moved \in Links
    BY DmaStages
  <1>2. PICK e, i, m : e = op.entry /\ i = op.ientry /\ m = op.moved
    OBVIOUS
  <1>3. PICK b, c : b = PendingIndex /\ c = PendingRule /\ op'.writes = <<b, c>>
    BY DEF MoveWritten
  <1>4. Len(op.writes) = 3 /\ Len(op'.writes) = 2 /\ op.writes # <<>> /\ op'.writes # <<>>
    <2>1. PICK a : a = PendingMove /\ op.writes = <<a, b, c>>
      BY <1>3 DEF MoveWritten
    <2> QED BY <1>3, <2>1
  <1>5. ~ RuleDone /\ ~ IndexDone /\ ~ Overwritten /\ Still
        /\ ~ RuleDone' /\ ~ IndexDone' /\ Overwritten' /\ Dma /\ Dma'
    BY <1>1, <1>4 DEF RuleDone, IndexDone, Overwritten, Still, Dma, SameDeletion, MoveWritten
  <1>t. TypedView
    BY TypedTables
  <1>c. StillView
    BY <1>5, WhenStill
  <1>6. /\ tbl[e].enabled /\ ~ tbl[e].dead /\ tbl[e].indx = i /\ i \in IndexUsed
        /\ index[i].next = m /\ m \in IndexUsed /\ index[i].tbl = e
        /\ e \in TblEntries /\ i \in TblEntries
    <2>1. tbl[e].enabled /\ ~ tbl[e].dead /\ tbl[e].indx = i
      BY <1>1, <1>2, <1>5 DEF DmaRule
    <2>2. index[i].next = m /\ m \in IndexUsed /\ i \in IndexUsed
      BY <1>1, <1>2, <1>5 DEF DmaIndex, MoveWritten
    <2>3. index[i].tbl = e
      BY <1>1, <1>2, <1>c, <2>1 DEF TablesOK, StillView
    <2> QED BY <1>1, <1>2, <2>1, <2>2, <2>3
  <1>7. PICK f : f = index[m].tbl
    OBVIOUS
  <1>8. /\ m # i /\ m # 0 /\ m \in TblEntries /\ f \in RuleUsed /\ ~ tbl[f].dead
        /\ tbl[f].indx = m /\ f # e /\ f \in TblEntries /\ f # 0
        /\ IndexKey[m] = IndexKey[i]
    <2>1. m # 0 /\ m \in TblEntries /\ m \in ExpnEntries
      BY <1>6, LinksView, Bounds
    <2>2. m # i /\ IndexKey[m] = IndexKey[i]
      <3>1. i \in ExpnEntries => index[i].next # i
        BY <1>6, LinksView, Predecessor
      <3>2. IndexKey[m] = IndexKey[i]
        BY <1>6, <2>1, LinksView DEF Linked
      <3> QED BY <1>6, <2>1, <3>1, <3>2
    <2>3. f \in RuleUsed /\ ~ tbl[f].dead /\ tbl[f].indx = m /\ f \in TblEntries
      BY <1>6, <1>7, <1>c, LinksView DEF TablesOK, StillView
    <2> QED BY <1>6, <2>1, <2>2, <2>3, Bounds
  <1>9. /\ tbl' = tbl /\ index'[i].tbl = f /\ index'[i].next = index[i].next
        /\ \A j \in TblEntries : /\ index'[j].next = index[j].next
                                 /\ j # i => index'[j] = index[j]
    <2>1. index' = [index EXCEPT ![i].tbl = f]
      BY <1>2, <1>7 DEF MoveWritten
    <2>2. index \in [TblEntries -> IndexEntry] /\ tbl' = tbl
      BY <1>t DEF TypedView, MoveWritten
    <2> QED BY <1>6, <2>1, <2>2 DEF IndexEntry
  <1>10. RuleUsed' = RuleUsed
    BY <1>1, <1>5, <1>9 DEF RuleUsed, SameDeletion
  <1>11. IndexUsed' = IndexUsed
    <2>1. IndexUsed = {j \in TblEntries : index[j].tbl # 0}
      BY <1>1, <1>c DEF StillView, SameDeletion
    <2>2. IndexUsed' = {j \in TblEntries : index'[j].tbl # 0}
      BY <1>1, <1>5 DEF IndexUsed, SameDeletion
    <2>3. \A j \in TblEntries : index'[j].tbl # 0 <=> index[j].tbl # 0
      BY <1>6, <1>8, <1>9, Bounds
    <2> QED BY <2>1, <2>2, <2>3
  <1>12. LinksOK'
    <2>1. RuleKey' = RuleKey
      BY <1>9 DEF RuleKey
    <2>2. \A j \in IndexUsed : IndexKey'[j] = IndexKey[j]
      <3>1. ASSUME NEW j \in IndexUsed, j # i PROVE IndexKey'[j] = IndexKey[j]
        BY <1>9, <3>1, LinksView DEF IndexKey
      <3>2. IndexKey'[i] = IndexKey[m]
        BY <1>6, <1>7, <1>8, <1>9 DEF IndexKey
      <3> QED BY <1>8, <3>1, <3>2
    <2>3. HasLinks(index) /\ HasLinks(index') /\ Linked(index, IndexUsed, IndexKey)
          /\ Linked(tbl, RuleUsed, RuleKey)
      BY LinksView, TypedNext DEF TypedView
    <2>4. \A j \in IndexUsed \cup Buckets : index'[j].next = index[j].next
      BY <1>9, LinksView, Bounds
    <2>5. Linked(index', IndexUsed, IndexKey')
      BY <2>2, <2>3, <2>4, LinkedSame
    <2> QED BY <1>9, <1>10, <1>11, <2>1, <2>3, <2>5 DEF LinksOK
  <1>13. PrevOK'
    <2>1. \A x \in RuleUsed : tbl[x].next = 0 \/ tbl[tbl[x].next].prev = x
      BY <1>c DEF TablesOK, StillView
    <2> QED BY <1>9, <1>10, <2>1 DEF PrevOK
  <1>14. MetaOK'
    <2>1. \A j \in IndexUsed : index[j].next = 0 \/ meta[index[j].next] = j
      BY <1>c DEF TablesOK, StillView
    <2>2. meta' = meta
      BY <1>1 DEF SameDeletion
    <2> QED BY <1>9, <1>11, <2>1, <2>2, LinksView DEF MetaOK
  <1>15. \A x : Gone(x)' <=> x = e
    BY <1>1, <1>2, <1>5 DEF Gone, SameDeletion
  <1>16. LeadsOK'
    <2>1. ASSUME NEW j \in IndexUsed
          PROVE  /\ index'[j].tbl \in RuleUsed /\ ~ tbl[index'[j].tbl].dead
                 /\ index'[j].tbl # e
                 /\ tbl[index'[j].tbl].indx = IF j = i THEN m ELSE j
      <3>1. CASE j = i
        BY <1>8, <1>9, <3>1
      <3>2. CASE j # i
        <4>1. index'[j] = index[j] /\ tbl[index[j].tbl].indx = j
              /\ index[j].tbl \in RuleUsed /\ ~ tbl[index[j].tbl].dead
          BY <1>9, <1>c, <3>2, LinksView DEF TablesOK, StillView
        <4> QED BY <1>6, <3>2, <4>1
      <3> QED BY <3>1, <3>2
    <2>2. op'.ientry = i /\ op'.moved = m
      BY <1>1, <1>2 DEF SameDeletion
    <2> QED BY <1>5, <1>9, <1>10, <1>11, <1>15, <2>1, <2>2 DEF LeadsOK
  <1>17. LedOK'
    <2>1. ASSUME NEW x \in TblEntries, tbl[x].enabled, ~ tbl[x].dead, x # e
          PROVE  tbl[x].indx \in IndexUsed /\ index'[tbl[x].indx].tbl = x
      <3>1. tbl[x].indx \in IndexUsed /\ index[tbl[x].indx].tbl = x
        BY <1>c, <2>1 DEF TablesOK, StillView
      <3>2. tbl[x].indx # i /\ tbl[x].indx \in TblEntries
        BY <1>6, <2>1, <3>1, LinksView
      <3> QED BY <1>9, <3>1, <3>2
    <2> QED BY <1>5, <1>9, <1>11, <1>15, <2>1 DEF LedOK
  <1>18. DeadOK' /\ OwnedOK' /\ AddOK'
    <2>1. DeadOK' /\ AddOK'
      BY <1>1, <1>5, <1>9 DEF TablesOK, DeadOK, AddOK, SameDeletion, AddStages
    <2>2. OwnedOK'
      BY <1>1, <1>5, <1>9 DEF TablesOK, OwnedOK, SameDeletion
    <2> QED BY <2>1, <2>2
  <1>19. DmaOK'
    <2>1. PendingIndex' = b /\ PendingRule' = c
      <3>1. op'.moved \in TblEntries /\ index'[op'.moved].next = index[op.moved].next
        BY <1>1, <1>2, <1>8, <1>9 DEF SameDeletion
      <3>2. PendingIndex' = b
        BY <1>1, <1>3, <3>1 DEF PendingIndex, SameDeletion
      <3>3. PendingRule' = c
        BY <1>1, <1>3, <1>9 DEF PendingRule, SameDeletion
      <3> QED BY <3>2, <3>3
    <2>2. Pending'
      BY <1>3, <2>1 DEF Pending
    <2>3. DmaPlaces'
      BY <1>1, <1>9 DEF DmaPlaces, SameDeletion
    <2>4. DmaRule'
      BY <1>1, <1>5, <1>9 DEF DmaRule, SameDeletion
    <2>5. DmaIndex'
      BY <1>1, <1>2, <1>5, <1>6, <1>7, <1>8, <1>9, <1>11 DEF DmaIndex, SameDeletion
    <2> QED BY <2>2, <2>3, <2>4, <2>5 DEF DmaOK
  <1>20. op' # Hung
    BY <1>1 DEF SameDeletion, Hung
  <1> QED BY <1>12, <1>13, <1>14, <1>16, <1>17, <1>18, <1>19, <1>20 DEF TablesOK

-----------------------------------------------------------------------------
\* What holds when the index entry of a rule is taken out, in each of three ways
IndexStage ==
  /\ SameDeletion /\ op.entry \in TblEntries /\ op.ientry \in TblEntries
  /\ op.ipos \in Positions /\ DmaPlaces /\ DmaRule /\ DmaIndex
  /\ ~ RuleDone /\ ~ IndexDone /\ (Overwritten <=> op.ipos = "head") /\ Dma
  /\ ~ RuleDone' /\ IndexDone' /\ (Overwritten' <=> op.ipos = "head") /\ Dma'
  /\ tbl' = tbl /\ RuleUsed' = RuleUsed /\ meta' = meta
  /\ IndexUsed = {j \in TblEntries : index[j].tbl # 0}
  /\ op.ientry \in IndexUsed /\ index[op.ientry].next = op.moved
  /\ tbl[op.entry].enabled /\ ~ tbl[op.entry].dead /\ tbl[op.entry].indx = op.ientry
  /\ \A j \in IndexUsed : index[j].next = 0 \/ meta[index[j].next] = j
  /\ TypedView /\ TypedView'

LEMMA IndexStages ==
  ASSUME BaseInv, BaseInv', TablesOK, DeleteDma, IndexWritten
  PROVE  IndexStage
  <1>1. /\ SameDeletion /\ op.entry \in TblEntries /\ op.ientry \in TblEntries
        /\ op.ipos \in Positions /\ DmaPlaces /\ DmaRule /\ DmaIndex
    BY DmaStages
  <1>2. Len(op.writes) = 2 /\ Len(op'.writes) = 1 /\ op.writes # <<>> /\ op'.writes # <<>>
    <2>1. PICK b, c : op.writes = <<b, c>> /\ op'.writes = <<c>>
      BY DEF IndexWritten
    <2> QED BY <2>1
  <1>3. /\ ~ RuleDone /\ ~ IndexDone /\ (Overwritten <=> op.ipos = "head") /\ Dma
        /\ ~ RuleDone' /\ IndexDone' /\ (Overwritten' <=> op.ipos = "head") /\ Dma'
    BY <1>1, <1>2 DEF RuleDone, IndexDone, Overwritten, Dma, SameDeletion
  <1>4. tbl' = tbl /\ meta' = meta
    BY <1>1 DEF IndexWritten, SameDeletion
  <1>5. RuleUsed' = RuleUsed
    BY <1>1, <1>3, <1>4 DEF RuleUsed, SameDeletion
  <1>6. IndexUsed = {j \in TblEntries : index[j].tbl # 0}
    BY <1>1, <1>3 DEF IndexUsed, SameDeletion
  <1>7. /\ op.ientry \in IndexUsed /\ index[op.ientry].next = op.moved
        /\ tbl[op.entry].enabled /\ ~ tbl[op.entry].dead /\ tbl[op.entry].indx = op.ientry
    BY <1>1, <1>3 DEF DmaRule, DmaIndex
  <1>8. \A j \in IndexUsed : index[j].next = 0 \/ meta[index[j].next] = j
    BY <1>3 DEF TablesOK, MetaOK
  <1> QED BY <1>1, <1>3, <1>4, <1>5, <1>6, <1>7, <1>8, TypedTables, TypedNext DEF IndexStage

\* The rest of the tables does not change then.
LEMMA IndexStageEnds ==
  ASSUME TablesOK, IndexStage, IndexWritten, Linked(index', IndexUsed', IndexKey'),
         MetaOK', LeadsOK', LedOK', DmaIndex'
  PROVE  TablesOK'
  <1> USE DEF IndexStage
  <1>1. LinksOK'
    <2>1. RuleKey' = RuleKey
      BY DEF RuleKey
    <2> QED BY <2>1 DEF TablesOK, LinksOK
  <1>2. PrevOK' /\ DeadOK' /\ AddOK' /\ op' # Hung
    <2>1. PrevOK'
      BY DEF TablesOK, PrevOK
    <2>2. DeadOK' /\ AddOK' /\ op' # Hung
      BY DEF TablesOK, DeadOK, AddOK, AddStages, SameDeletion, Hung
    <2> QED BY <2>1, <2>2
  <1>3. OwnedOK'
    BY DEF TablesOK, OwnedOK, SameDeletion
  <1>4. DmaOK'
    <2>1. PendingRule' = PendingRule
      BY DEF PendingRule, SameDeletion
    <2>2. Pending'
      BY <2>1 DEF Pending, IndexWritten
    <2>3. DmaPlaces'
      <3>1. op.moved = op'.moved
        BY DEF SameDeletion
      <3> QED BY <3>1 DEF DmaPlaces, SameDeletion
    <2>4. DmaRule'
      BY DEF DmaRule, SameDeletion
    <2> QED BY <2>2, <2>3, <2>4 DEF DmaOK
  <1> QED BY <1>1, <1>2, <1>3, <1>4 DEF TablesOK

\* Nothing but the rule that goes leads to its index entry.
LEMMA OneLeads ==
  ASSUME TablesOK, IndexStage, op.ipos # "head"
  PROVE  /\ index[op.ientry].tbl = op.entry
         /\ \A j \in IndexUsed \ {op.ientry} :
              /\ index[j].tbl \in RuleUsed /\ ~ tbl[index[j].tbl].dead
              /\ index[j].tbl # op.entry /\ tbl[index[j].tbl].indx = j
         /\ \A x \in TblEntries : tbl[x].enabled /\ ~ tbl[x].dead /\ x # op.entry =>
              tbl[x].indx \in IndexUsed \ {op.ientry} /\ index[tbl[x].indx].tbl = x
  <1>1. StillView
    BY WhenStill DEF IndexStage, Still
  <1>2. index[op.ientry].tbl = op.entry
    BY <1>1 DEF TablesOK, StillView, IndexStage
  <1> QED BY <1>1, <1>2 DEF TablesOK, StillView, IndexStage

LEMMA TablesDmaIndexOnly ==
  ASSUME BaseInv, BaseInv', TablesOK, DeleteDma, IndexWritten, op.ipos = "only_one"
  PROVE  TablesOK'
  <1>1. IndexStage
    BY IndexStages
  <1> USE DEF IndexStage
  <1>2. PICK e, i : e = op.entry /\ i = op.ientry
    OBVIOUS
  <1>3. e \in TblEntries /\ i \in IndexUsed /\ i \in Buckets /\ index[i].next = 0 /\ op.moved = 0
    BY <1>1, <1>2 DEF DmaPlaces
  <1>4. /\ index'[i].tbl = 0 /\ \A j \in TblEntries : j # i => index'[j] = index[j]
        /\ \A j \in TblEntries : index'[j].next = index[j].next
    <2>1. index' = [index EXCEPT ![i].tbl = 0]
      BY <1>2 DEF IndexWritten
    <2>2. index \in [TblEntries -> IndexEntry]
      BY <1>1 DEF TypedView
    <2> QED BY <1>1, <1>2, <2>1, <2>2 DEF IndexEntry
  <1>5. IndexUsed' = IndexUsed \ {i}
    <2>1. IndexUsed' = {j \in TblEntries : index'[j].tbl # 0}
      BY <1>1 DEF IndexUsed, SameDeletion
    <2>2. \A j \in TblEntries : index'[j].tbl # 0 <=> index[j].tbl # 0 /\ j # i
      BY <1>4
    <2> QED BY <1>1, <2>1, <2>2
  <1>6. Linked(index', IndexUsed', IndexKey')
    <2>1. HasLinks(index) /\ Linked(index, IndexUsed, IndexKey)
      BY LinksView
    <2>2. \A j \in IndexUsed \ {i} : IndexKey'[j] = IndexKey[j]
      BY <1>1, <1>4, LinksView DEF IndexKey
    <2>3. PICK t, u, U, D, k, l : t = index /\ u = index' /\ U = IndexUsed /\ D = {i}
                                  /\ k = IndexKey /\ l = IndexKey'
      OBVIOUS
    <2>4. Agree(U \ D, l, k)
      BY <2>2, <2>3 DEF Agree
    <2>5. LoneHeads(t, D)
      BY <1>3, <2>3 DEF LoneHeads
    <2>6. HasLinks(t) /\ Linked(t, U, k) /\ \A j \in TblEntries : u[j].next = t[j].next
      BY <1>4, <2>1, <2>3
    <2>7. Linked(u, U \ D, l)
      BY <2>4, <2>5, <2>6, LinkedDrop
    <2> QED BY <1>5, <2>3, <2>7
  <1>7. MetaOK'
    BY <1>1, <1>4, <1>5, LinksView DEF MetaOK
  <1>8. \A x : Gone(x)' <=> x = e
    BY <1>1, <1>2 DEF Gone, SameDeletion
  <1>9. LeadsOK'
    <2>1. \A j \in IndexUsed \ {i} :
              /\ index[j].tbl \in RuleUsed /\ ~ tbl[index[j].tbl].dead
              /\ index[j].tbl # e /\ tbl[index[j].tbl].indx = j /\ index'[j] = index[j]
      BY <1>1, <1>2, <1>4, OneLeads, LinksView
    <2> QED BY <1>1, <1>5, <1>8, <2>1 DEF LeadsOK
  <1>10. LedOK'
    <2>1. \A x \in TblEntries : tbl[x].enabled /\ ~ tbl[x].dead /\ x # e =>
              tbl[x].indx \in IndexUsed \ {i} /\ index'[tbl[x].indx].tbl = x
      BY <1>1, <1>2, <1>4, OneLeads, LinksView
    <2> QED BY <1>1, <1>5, <1>8, <2>1 DEF LedOK
  <1>11. DmaIndex'
    BY <1>1, <1>2, <1>3, <1>4 DEF DmaIndex, SameDeletion
  <1> QED BY <1>1, <1>6, <1>7, <1>9, <1>10, <1>11, IndexStageEnds

LEMMA TablesDmaIndexLast ==
  ASSUME BaseInv, BaseInv', TablesOK, DeleteDma, IndexWritten, op.ipos \in {"last", "middle"}
  PROVE  TablesOK'
  <1>1. IndexStage
    BY IndexStages
  <1> USE DEF IndexStage
  <1>2. PICK e, i, m : e = op.entry /\ i = op.ientry /\ m = op.moved
    OBVIOUS
  <1>3. e \in TblEntries /\ i \in IndexUsed /\ i \in ExpnEntries /\ index[i].next = m
        /\ i \in TblEntries
    <2>1. i \in IndexUsed /\ i \notin Buckets
      BY <1>1, <1>2 DEF DmaPlaces
    <2>2. i # Base
      BY <2>1, LinksView DEF Linked
    <2> QED BY <1>1, <1>2, <2>1, <2>2, Bounds
  <1>4. PICK p \in IndexUsed : index[p].next = i /\ p # i /\ meta[i] = p
    <2>1. PICK p \in IndexUsed : index[p].next = i /\ p # i
      BY <1>3, LinksView, Predecessor
    <2>2. index[p].next # 0
      BY <1>3, <2>1, Bounds
    <2> QED BY <1>1, <2>1, <2>2
  <1>5. p \in TblEntries
    BY LinksView
  <1>6. /\ index'[p].next = m
        /\ \A j \in TblEntries : j # p => index'[j] = index[j]
        /\ \A j \in TblEntries : index'[j].tbl = index[j].tbl
    <2>1. index' = [index EXCEPT ![p].next = m]
      BY <1>2, <1>4 DEF IndexWritten
    <2>2. index \in [TblEntries -> IndexEntry]
      BY <1>1 DEF TypedView
    <2> QED BY <1>5, <2>1, <2>2 DEF IndexEntry
  <1>7. IndexUsed' = IndexUsed \ {i}
    <2>1. IndexUsed' = {j \in TblEntries : index'[j].tbl # 0 /\ j # i}
      BY <1>1, <1>2 DEF IndexUsed, SameDeletion
    <2> QED BY <1>1, <1>6, <2>1
  <1>8. Linked(index', IndexUsed', IndexKey')
    <2>1. HasLinks(index) /\ Linked(index, IndexUsed, IndexKey)
      BY LinksView
    <2>2. \A j \in IndexUsed \ {i} : IndexKey'[j] = IndexKey[j]
      BY <1>1, <1>6, LinksView DEF IndexKey
    <2>3. index'[p].next = index[i].next
          /\ \A j \in TblEntries \ {p} : index'[j].next = index[j].next
      BY <1>3, <1>6
    <2>4. Linked(index', IndexUsed \ {i}, IndexKey')
      BY <1>3, <1>4, <2>1, <2>2, <2>3, LinkedUnlink
    <2> QED BY <1>7, <2>4
  <1>9. MetaOK'
    <2>1. ASSUME NEW j \in IndexUsed \ {i}
          PROVE  index'[j].next = 0 \/ meta[index'[j].next] = j
                 \/ (op.ipos = "middle" /\ j = p)
      <3>1. CASE j = p
        <4>1. op.ipos = "last" => m = 0
          BY <1>1, <1>2 DEF DmaPlaces
        <4> QED BY <1>6, <3>1, <4>1
      <3>2. CASE j # p
        <4>1. j \in IndexUsed /\ j \in TblEntries
          BY LinksView
        <4>2. index[j].next = 0 \/ meta[index[j].next] = j
          BY <1>1, <4>1
        <4>3. index'[j] = index[j]
          BY <1>6, <3>2, <4>1
        <4> QED BY <4>2, <4>3
      <3> QED BY <3>1, <3>2
    <2>2. op'.ipos = op.ipos /\ meta'[op'.ientry] = p
      BY <1>1, <1>2, <1>4 DEF SameDeletion
    <2> QED BY <1>1, <1>7, <2>1, <2>2 DEF MetaOK
  <1>10. \A x : Gone(x)' <=> x = e
    BY <1>1, <1>2 DEF Gone, SameDeletion
  <1>11. op.ipos # "head"
    OBVIOUS
  <1>12. LeadsOK'
    <2>1. \A j \in IndexUsed \ {i} :
              /\ index'[j].tbl \in RuleUsed /\ ~ tbl[index'[j].tbl].dead
              /\ index'[j].tbl # e /\ tbl[index'[j].tbl].indx = j
      BY <1>1, <1>2, <1>6, <1>11, OneLeads, LinksView
    <2> QED BY <1>1, <1>7, <1>10, <1>11, <2>1 DEF LeadsOK
  <1>13. LedOK'
    <2>1. \A x \in TblEntries : tbl[x].enabled /\ ~ tbl[x].dead /\ x # e =>
              tbl[x].indx \in IndexUsed \ {i} /\ index'[tbl[x].indx].tbl = x
      BY <1>1, <1>2, <1>6, <1>11, OneLeads, LinksView
    <2> QED BY <1>1, <1>7, <1>10, <1>11, <2>1 DEF LedOK
  <1>14. DmaIndex'
    <2>1. /\ op'.ientry = i /\ op'.moved = m /\ op'.ipos = op.ipos /\ meta'[i] = p
          /\ index'[i].next = m /\ p \in IndexUsed' /\ index'[p].next = m
      BY <1>1, <1>2, <1>3, <1>4, <1>6, <1>7 DEF SameDeletion
    <2> QED BY <1>1, <1>11, <2>1 DEF DmaIndex
  <1> QED BY <1>1, <1>8, <1>9, <1>12, <1>13, <1>14, IndexStageEnds

LEMMA TablesDmaIndexHead ==
  ASSUME BaseInv, BaseInv', TablesOK, DeleteDma, IndexWritten, op.ipos = "head"
  PROVE  TablesOK'
  <1>1. IndexStage
    BY IndexStages
  <1> USE DEF IndexStage
  <1>2. PICK e, i, m : e = op.entry /\ i = op.ientry /\ m = op.moved
    OBVIOUS
  <1>3. /\ e \in TblEntries /\ i \in IndexUsed /\ index[i].next = m /\ i \in TblEntries
        /\ m \in IndexUsed /\ m \in ExpnEntries /\ i \in Buckets /\ m # i /\ m \in TblEntries
        /\ index[i].tbl = index[m].tbl
    <2>1. i \in IndexUsed /\ index[i].next = m /\ m \in IndexUsed /\ i \in Buckets
          /\ index[i].tbl = index[m].tbl
      BY <1>1, <1>2 DEF DmaPlaces, DmaIndex
    <2>2. m # 0
      BY <2>1, LinksView, Bounds
    <2>3. m \in ExpnEntries
      BY <2>1, <2>2, LinksView
    <2> QED BY <1>1, <1>2, <2>1, <2>3, Bounds
  <1>4. /\ index'[i].next = index[m].next
        /\ \A j \in TblEntries : j # i => index'[j] = index[j]
        /\ \A j \in TblEntries : index'[j].tbl = index[j].tbl
    <2>1. index' = [index EXCEPT ![i].next = index[m].next]
      BY <1>2 DEF IndexWritten
    <2>2. index \in [TblEntries -> IndexEntry]
      BY <1>1 DEF TypedView
    <2> QED BY <1>3, <2>1, <2>2 DEF IndexEntry
  <1>5. IndexUsed' = IndexUsed \ {m}
    <2>1. IndexUsed' = {j \in TblEntries : index'[j].tbl # 0 /\ j # m}
      BY <1>1, <1>2 DEF IndexUsed, SameDeletion
    <2> QED BY <1>1, <1>4, <2>1
  <1>6. Linked(index', IndexUsed', IndexKey')
    <2>1. HasLinks(index) /\ Linked(index, IndexUsed, IndexKey)
      BY LinksView
    <2>2. \A j \in IndexUsed \ {m} : IndexKey'[j] = IndexKey[j]
      BY <1>1, <1>4, LinksView DEF IndexKey
    <2>3. index'[i].next = index[m].next
          /\ \A j \in TblEntries \ {i} : index'[j].next = index[j].next
      BY <1>4
    <2>4. Linked(index', IndexUsed \ {m}, IndexKey')
      BY <1>3, <2>1, <2>2, <2>3, LinkedUnlink
    <2> QED BY <1>5, <2>4
  <1>7. MetaOK'
    <2>1. ASSUME NEW j \in IndexUsed \ {m}, j # i
          PROVE  index'[j].next = 0 \/ meta[index'[j].next] = j
      BY <1>1, <1>4, <2>1, LinksView
    <2>2. op'.ipos = "head" /\ op'.ientry = i
      BY <1>1, <1>2 DEF SameDeletion
    <2> QED BY <1>1, <1>5, <2>1, <2>2 DEF MetaOK
  <1>8. \A x : (Gone(x)' <=> x = e) /\ (Gone(x) <=> x = e)
    BY <1>1, <1>2 DEF Gone, SameDeletion
  <1>9. op'.ientry = i /\ op'.moved = m
    BY <1>1, <1>2 DEF SameDeletion
  <1>10. LeadsOK'
    <2>1. ASSUME NEW j \in IndexUsed \ {m}
          PROVE  /\ index'[j].tbl \in RuleUsed /\ ~ tbl[index'[j].tbl].dead
                 /\ index'[j].tbl # e /\ tbl[index'[j].tbl].indx = IF j = i THEN m ELSE j
      <3>1. /\ index[j].tbl \in RuleUsed /\ ~ tbl[index[j].tbl].dead /\ ~ Gone(index[j].tbl)
            /\ tbl[index[j].tbl].indx = IF j = i THEN m ELSE j
        BY <1>1, <1>2 DEF TablesOK, LeadsOK
      <3>2. index'[j].tbl = index[j].tbl
        BY <1>4, LinksView
      <3> QED BY <1>8, <3>1, <3>2
    <2> QED BY <1>1, <1>5, <1>8, <1>9, <2>1 DEF LeadsOK
  <1>11. LedOK'
    <2>1. ASSUME NEW x \in TblEntries, tbl[x].enabled, ~ tbl[x].dead, x # e,
                 NEW j, j = IF tbl[x].indx = m THEN i ELSE tbl[x].indx
          PROVE  j \in IndexUsed \ {m} /\ index'[j].tbl = x
      <3>1. tbl[x].indx \in IndexUsed /\ index[tbl[x].indx].tbl = x
        BY <1>1, <1>8, <2>1 DEF TablesOK, LedOK
      <3>2. j \in IndexUsed /\ j # m /\ index[j].tbl = x
        BY <1>3, <2>1, <3>1
      <3> QED BY <1>4, <3>2, LinksView
    <2> QED BY <1>1, <1>5, <1>8, <1>9, <2>1 DEF LedOK
  <1>12. DmaIndex'
    <2>1. /\ op'.ipos = "head" /\ index'[i].next = index'[m].next
          /\ i \in IndexUsed' /\ index'[i].tbl = index'[m].tbl
      BY <1>1, <1>3, <1>4, <1>5 DEF SameDeletion
    <2> QED BY <1>1, <1>3, <1>9, <2>1 DEF DmaIndex
  <1> QED BY <1>1, <1>6, <1>7, <1>10, <1>11, <1>12, IndexStageEnds

LEMMA TablesDmaIndex ==
  ASSUME BaseInv, BaseInv', TablesOK, DeleteDma, IndexWritten
  PROVE  TablesOK'
  <1>1. op.ipos \in Positions
    BY DmaStages
  <1>2. \/ op.ipos = "only_one" \/ op.ipos = "head" \/ op.ipos \in {"last", "middle"}
    BY <1>1 DEF Positions
  <1> QED BY <1>2, TablesDmaIndexOnly, TablesDmaIndexLast, TablesDmaIndexHead

-----------------------------------------------------------------------------
\* What holds when the rule itself is taken out: its index entry already is.
RuleStage ==
  /\ SameDeletion /\ op.entry \in TblEntries /\ op.entry # Base /\ op.pos \in Positions
  /\ DmaPlaces /\ DmaIndex /\ TypedView /\ TypedView'
  /\ ~ RuleDone /\ IndexDone /\ Dma /\ RuleDone' /\ IndexDone' /\ Dma'
  /\ (Overwritten' <=> Overwritten) /\ op'.writes = <<>>
  /\ index' = index /\ meta' = meta /\ IndexUsed' = IndexUsed
  /\ RuleUsed = {f \in TblEntries : tbl[f].enabled}
  /\ tbl[op.entry].enabled /\ ~ tbl[op.entry].dead
  /\ \A f \in RuleUsed : tbl[f].next = 0 \/ tbl[tbl[f].next].prev = f
  /\ \A f : (Gone(f) <=> f = op.entry) /\ (Gone(f)' <=> f = op.entry)

LEMMA RuleStages ==
  ASSUME BaseInv, BaseInv', TablesOK, DeleteDma, RuleWritten
  PROVE  RuleStage
  <1>1. /\ SameDeletion /\ op.entry \in TblEntries /\ op.entry # Base
        /\ op.pos \in Positions /\ DmaPlaces /\ DmaRule /\ DmaIndex
    BY DmaStages DEF UsableEntries
  <1>2. Len(op.writes) = 1 /\ Len(op'.writes) = 0 /\ op.writes # <<>> /\ op'.writes = <<>>
    <2>1. PICK c : op.writes = <<c>> /\ op'.writes = <<>>
      BY DEF RuleWritten
    <2> QED BY <2>1
  <1>3. /\ ~ RuleDone /\ IndexDone /\ Dma /\ RuleDone' /\ IndexDone' /\ Dma'
        /\ (Overwritten' <=> Overwritten)
    BY <1>1, <1>2 DEF RuleDone, IndexDone, Overwritten, Dma, SameDeletion
  <1>4. index' = index /\ meta' = meta
    BY <1>1 DEF RuleWritten, SameDeletion
  <1>5. RuleUsed = {f \in TblEntries : tbl[f].enabled}
    BY <1>1, <1>3 DEF RuleUsed, SameDeletion
  <1>6. IndexUsed' = IndexUsed
    BY <1>1, <1>3, <1>4 DEF IndexUsed, SameDeletion
  <1>7. tbl[op.entry].enabled /\ ~ tbl[op.entry].dead
    BY <1>1, <1>3 DEF DmaRule
  <1>8. \A f \in RuleUsed : tbl[f].next = 0 \/ tbl[tbl[f].next].prev = f
    BY <1>3 DEF TablesOK, PrevOK
  <1>9. \A f : (Gone(f) <=> f = op.entry) /\ (Gone(f)' <=> f = op.entry)
    BY <1>1, <1>3 DEF Gone, SameDeletion
  <1> QED BY <1>1, <1>2, <1>3, <1>4, <1>5, <1>6, <1>7, <1>8, <1>9, TypedTables, TypedNext
          DEF RuleStage

\* What such a write leaves alone
RuleKept ==
  /\ \A f \in TblEntries : /\ tbl'[f].rule = tbl[f].rule /\ tbl'[f].prev = tbl[f].prev
                           /\ tbl'[f].indx = tbl[f].indx
  /\ \A f \in TblEntries \ {op.entry} : /\ tbl'[f].enabled <=> tbl[f].enabled
                                        /\ tbl'[f].dead <=> tbl[f].dead
  /\ op.entry \notin RuleUsed' \/ RuleUsed' = RuleUsed
  /\ RuleUsed' \cup {op.entry} = RuleUsed

LEMMA RuleStageEnds ==
  ASSUME TablesOK, BaseInv, RuleStage, RuleKept, Linked(tbl', RuleUsed', RuleKey'),
         PrevOK', DeadOK', DmaRule', tbl'[op.entry].next = tbl[op.entry].next
  PROVE  TablesOK'
  <1> USE DEF RuleStage
  <1>1. PICK e \in TblEntries : e = op.entry
    OBVIOUS
  <1>2. ASSUME NEW j \in IndexUsed
        PROVE  /\ index[j].tbl \in TblEntries \ {e} /\ index[j].tbl \in RuleUsed
               /\ ~ tbl[index[j].tbl].dead
               /\ tbl[index[j].tbl].indx = IF Overwritten /\ j = op.ientry THEN op.moved ELSE j
    <2>1. /\ index[j].tbl \in RuleUsed /\ ~ Gone(index[j].tbl) /\ ~ tbl[index[j].tbl].dead
          /\ tbl[index[j].tbl].indx = IF Overwritten /\ j = op.ientry THEN op.moved ELSE j
      BY DEF TablesOK, LeadsOK
    <2> QED BY <1>1, <2>1
  <1>3. LinksOK'
    <2>1. HasLinks(index) /\ Linked(index, IndexUsed, IndexKey)
      BY LinksView
    <2>2. \A j \in IndexUsed : IndexKey'[j] = IndexKey[j]
      <3> TAKE j \in IndexUsed
      <3>1. index[j].tbl \in TblEntries /\ j \in TblEntries
        BY <1>2, LinksView
      <3>2. tbl'[index[j].tbl].rule = tbl[index[j].tbl].rule
        BY <3>1 DEF RuleKept
      <3> QED BY <3>1, <3>2 DEF IndexKey
    <2>3. Linked(index, IndexUsed, IndexKey')
      BY <2>1, <2>2, LinkedSame
    <2> QED BY <2>3 DEF LinksOK
  <1>4. MetaOK' /\ AddOK' /\ op' # Hung
    BY DEF TablesOK, MetaOK, AddOK, AddStages, SameDeletion, Hung
  <1>5. LeadsOK'
    <2>1. ASSUME NEW j \in IndexUsed
          PROVE  /\ index[j].tbl \in RuleUsed' /\ ~ tbl'[index[j].tbl].dead /\ index[j].tbl # e
                 /\ tbl'[index[j].tbl].indx = IF Overwritten /\ j = op.ientry THEN op.moved ELSE j
      BY <1>1, <1>2 DEF RuleKept
    <2>2. op'.ientry = op.ientry /\ op'.moved = op.moved
      BY DEF SameDeletion
    <2> QED BY <1>1, <2>1, <2>2 DEF LeadsOK
  <1>6. ASSUME NEW x \in TblEntries, tbl'[x].enabled, ~ tbl'[x].dead, x # e
        PROVE  tbl[x].enabled /\ ~ tbl[x].dead /\ tbl'[x].indx = tbl[x].indx
    BY <1>1, <1>6 DEF RuleKept
  <1>7. LedOK'
    <2>1. ASSUME NEW x \in TblEntries, tbl'[x].enabled, ~ tbl'[x].dead, x # e,
                 NEW j, j = IF Overwritten /\ tbl'[x].indx = op.moved THEN op.ientry
                            ELSE tbl'[x].indx
          PROVE  j \in IndexUsed /\ index[j].tbl = x
      <3>1. tbl[x].enabled /\ ~ tbl[x].dead /\ tbl'[x].indx = tbl[x].indx /\ ~ Gone(x)
        BY <1>1, <1>6, <2>1
      <3> QED BY <2>1, <3>1 DEF TablesOK, LedOK
    <2>2. op'.ientry = op.ientry /\ op'.moved = op.moved
      BY DEF SameDeletion
    <2> QED BY <1>1, <2>1, <2>2 DEF LedOK
  <1>8. OwnedOK'
    <2>1. ASSUME NEW x \in TblEntries, tbl'[x].enabled, ~ tbl'[x].dead, x # e
          PROVE  \E h \in RuleHdls : installed[h] # Nil /\ ids[h] = RuleId(x)
      <3>1. tbl[x].enabled /\ ~ tbl[x].dead
        BY <1>6, <2>1
      <3> QED BY <1>1, <2>1, <3>1 DEF TablesOK, OwnedOK
    <2>2. op'.entry = e /\ installed' = installed /\ ids' = ids
      BY <1>1 DEF SameDeletion
    <2> QED BY <2>1, <2>2 DEF OwnedOK
  <1>9. DmaOK'
    <2>1. Pending'
      BY DEF Pending
    <2>2. DmaPlaces'
      BY DEF DmaPlaces, SameDeletion
    <2>3. DmaIndex'
      BY DEF DmaIndex, SameDeletion
    <2> QED BY <2>1, <2>2, <2>3 DEF DmaOK
  <1> QED BY <1>3, <1>4, <1>5, <1>7, <1>8, <1>9 DEF TablesOK

LEMMA TablesDmaRuleOnly ==
  ASSUME BaseInv, BaseInv', TablesOK, DeleteDma, RuleWritten, op.pos = "only_one"
  PROVE  TablesOK'
  <1>1. RuleStage
    BY RuleStages
  <1> USE DEF RuleStage
  <1>2. PICK e \in TblEntries : e = op.entry
    BY <1>1
  <1>3. e \in Buckets /\ tbl[e].next = 0 /\ e \in RuleUsed
    BY <1>1, <1>2 DEF DmaPlaces
  <1>4. /\ ~ tbl'[e].enabled /\ ~ tbl'[e].dead
        /\ \A f \in TblEntries : /\ tbl'[f].next = tbl[f].next /\ tbl'[f].rule = tbl[f].rule
                                 /\ tbl'[f].prev = tbl[f].prev /\ tbl'[f].indx = tbl[f].indx
        /\ \A f \in TblEntries \ {e} : tbl'[f] = tbl[f]
    <2>1. tbl' = [tbl EXCEPT ![e].enabled = FALSE]
      BY <1>2 DEF RuleWritten
    <2> QED BY <1>1, <1>2, <2>1 DEF TypedView, RuleEntry
  <1>5. RuleUsed' = RuleUsed \ {e}
    <2>1. RuleUsed' = {f \in TblEntries : tbl'[f].enabled}
      BY <1>1, <1>2 DEF RuleUsed, SameDeletion
    <2>2. \A f \in TblEntries : tbl'[f].enabled <=> tbl[f].enabled /\ f # e
      BY <1>4
    <2> QED BY <1>1, <2>1, <2>2
  <1>6. RuleKept
    BY <1>2, <1>3, <1>4, <1>5 DEF RuleKept
  <1>7. Linked(tbl', RuleUsed', RuleKey')
    <2>1. HasLinks(tbl) /\ Linked(tbl, RuleUsed, RuleKey)
      BY LinksView
    <2>2. \A f \in RuleUsed \ {e} : RuleKey'[f] = RuleKey[f]
      BY <1>4, LinksView DEF RuleKey
    <2>3. PICK t, u, U, D, k, l : t = tbl /\ u = tbl' /\ U = RuleUsed /\ D = {e}
                                  /\ k = RuleKey /\ l = RuleKey'
      OBVIOUS
    <2>4. Agree(U \ D, l, k)
      BY <2>2, <2>3 DEF Agree
    <2>5. LoneHeads(t, D)
      BY <1>3, <2>3 DEF LoneHeads
    <2>6. HasLinks(t) /\ Linked(t, U, k) /\ \A f \in TblEntries : u[f].next = t[f].next
      BY <1>4, <2>1, <2>3
    <2>7. Linked(u, U \ D, l)
      BY <2>4, <2>5, <2>6, LinkedDrop
    <2> QED BY <1>5, <2>3, <2>7
  <1>8. PrevOK'
    BY <1>1, <1>4, <1>5, LinksView DEF PrevOK
  <1>9. DeadOK'
    BY <1>1, <1>4 DEF TablesOK, DeadOK
  <1>10. DmaRule'
    BY <1>1, <1>2, <1>4 DEF DmaRule, SameDeletion
  <1> QED BY <1>1, <1>2, <1>4, <1>6, <1>7, <1>8, <1>9, <1>10, RuleStageEnds

LEMMA TablesDmaRuleHead ==
  ASSUME BaseInv, BaseInv', TablesOK, DeleteDma, RuleWritten, op.pos = "head"
  PROVE  TablesOK'
  <1>1. RuleStage
    BY RuleStages
  <1> USE DEF RuleStage
  <1>2. PICK e \in TblEntries : e = op.entry
    BY <1>1
  <1>3. e \in Buckets /\ e \in RuleUsed
    BY <1>1, <1>2 DEF DmaPlaces
  <1>4. /\ tbl'[e].enabled /\ tbl'[e].dead
        /\ \A f \in TblEntries : /\ tbl'[f].next = tbl[f].next /\ tbl'[f].rule = tbl[f].rule
                                 /\ tbl'[f].prev = tbl[f].prev /\ tbl'[f].indx = tbl[f].indx
        /\ \A f \in TblEntries \ {e} : tbl'[f] = tbl[f]
    <2>1. tbl' = [tbl EXCEPT ![e].dead = TRUE]
      BY <1>2 DEF RuleWritten
    <2> QED BY <1>1, <1>2, <2>1 DEF TypedView, RuleEntry
  <1>5. RuleUsed' = RuleUsed
    <2>1. RuleUsed' = {f \in TblEntries : tbl'[f].enabled}
      BY <1>1, <1>2 DEF RuleUsed, SameDeletion
    <2>2. \A f \in TblEntries : tbl'[f].enabled <=> tbl[f].enabled
      BY <1>1, <1>2, <1>4
    <2> QED BY <1>1, <2>1, <2>2
  <1>6. RuleKept
    BY <1>2, <1>3, <1>4, <1>5 DEF RuleKept
  <1>7. Linked(tbl', RuleUsed', RuleKey')
    <2>1. HasLinks(tbl) /\ Linked(tbl, RuleUsed, RuleKey) /\ HasLinks(tbl')
      BY <1>1, LinksView DEF TypedView
    <2>2. \A f \in RuleUsed : RuleKey'[f] = RuleKey[f]
      BY <1>4, LinksView DEF RuleKey
    <2>3. \A f \in RuleUsed \cup Buckets : tbl'[f].next = tbl[f].next
      BY <1>4, LinksView, Bounds
    <2> QED BY <1>5, <2>1, <2>2, <2>3, LinkedSame
  <1>8. PrevOK'
    BY <1>1, <1>4, <1>5, LinksView DEF PrevOK
  <1>9. DeadOK'
    <2>1. ASSUME NEW f \in TblEntries, tbl'[f].dead PROVE tbl'[f].enabled /\ f \in Buckets
      <3>1. CASE f = e
        BY <1>3, <1>4, <3>1
      <3>2. CASE f # e
        BY <1>4, <2>1, <3>2 DEF TablesOK, DeadOK
      <3> QED BY <3>1, <3>2
    <2> QED BY <1>1, <2>1 DEF DeadOK
  <1>10. DmaRule'
    BY <1>1, <1>2, <1>4 DEF DmaRule, SameDeletion
  <1> QED BY <1>1, <1>2, <1>4, <1>6, <1>7, <1>8, <1>9, <1>10, RuleStageEnds

LEMMA TablesDmaRuleLast ==
  ASSUME BaseInv, BaseInv', TablesOK, DeleteDma, RuleWritten, op.pos \in {"last", "middle"}
  PROVE  TablesOK'
  <1>1. RuleStage
    BY RuleStages
  <1> USE DEF RuleStage
  <1>2. PICK e \in TblEntries : e = op.entry
    BY <1>1
  <1>3. e \in ExpnEntries /\ e \in RuleUsed
    BY <1>1, <1>2, Bounds DEF DmaPlaces
  <1>4. PICK p \in RuleUsed : tbl[p].next = e /\ p # e /\ tbl[e].prev = p
    <2>1. PICK p \in RuleUsed : tbl[p].next = e /\ p # e
      BY <1>3, LinksView, Predecessor
    <2>2. tbl[p].next # 0
      BY <1>3, <2>1, Bounds
    <2> QED BY <1>1, <2>1, <2>2
  <1>5. p \in TblEntries
    BY LinksView
  <1>6. /\ tbl'[p].next = tbl[e].next
        /\ \A f \in TblEntries \ {p} : tbl'[f] = tbl[f]
        /\ \A f \in TblEntries : /\ tbl'[f].rule = tbl[f].rule
                                 /\ tbl'[f].prev = tbl[f].prev /\ tbl'[f].indx = tbl[f].indx
                                 /\ tbl'[f].enabled <=> tbl[f].enabled
                                 /\ tbl'[f].dead <=> tbl[f].dead
    <2>1. PICK n : n = tbl[e].next /\ tbl' = [tbl EXCEPT ![p].next = n]
      BY <1>2, <1>4 DEF RuleWritten
    <2> QED BY <1>1, <1>5, <2>1 DEF TypedView, RuleEntry
  <1>7. RuleUsed' = RuleUsed \ {e}
    <2>1. RuleUsed' = {f \in TblEntries : tbl'[f].enabled /\ f # e}
      BY <1>1, <1>2 DEF RuleUsed, SameDeletion
    <2> QED BY <1>1, <1>6, <2>1
  <1>8. RuleKept
    BY <1>2, <1>3, <1>6, <1>7 DEF RuleKept
  <1>9. Linked(tbl', RuleUsed', RuleKey')
    <2>1. HasLinks(tbl) /\ Linked(tbl, RuleUsed, RuleKey)
      BY LinksView
    <2>2. \A f \in RuleUsed \ {e} : RuleKey'[f] = RuleKey[f]
      BY <1>6, LinksView DEF RuleKey
    <2>3. tbl'[p].next = tbl[e].next
          /\ \A f \in TblEntries \ {p} : tbl'[f].next = tbl[f].next
      BY <1>6
    <2>4. Linked(tbl', RuleUsed \ {e}, RuleKey')
      BY <1>3, <1>4, <2>1, <2>2, <2>3, LinkedUnlink
    <2> QED BY <1>7, <2>4
  <1>10. PrevOK'
    <2>1. ASSUME NEW f \in RuleUsed \ {e}
          PROVE  tbl'[f].next = 0 \/ tbl'[tbl'[f].next].prev = f
                 \/ (op.pos = "middle" /\ f = p)
      <3>1. CASE f = p
        <4>1. op.pos = "last" => tbl[e].next = 0
          BY <1>1, <1>2 DEF DmaPlaces
        <4> QED BY <1>6, <3>1, <4>1
      <3>2. CASE f # p
        <4>1. f \in RuleUsed /\ f \in TblEntries /\ tbl'[f].next = tbl[f].next
          BY <1>6, <3>2, LinksView
        <4>2. tbl[f].next = 0 \/ tbl[tbl[f].next].prev = f
          BY <1>1, <4>1
        <4>3. tbl[f].next # 0 => tbl[f].next \in TblEntries
          BY <4>1, LinksView
        <4> QED BY <1>6, <4>1, <4>2, <4>3
      <3> QED BY <3>1, <3>2
    <2>2. op'.pos = op.pos /\ tbl'[op'.entry].prev = p
      BY <1>1, <1>2, <1>4, <1>6 DEF SameDeletion
    <2> QED BY <1>1, <1>7, <2>1, <2>2 DEF PrevOK
  <1>11. DeadOK'
    BY <1>1, <1>6 DEF TablesOK, DeadOK
  <1>12. DmaRule'
    <2>1. /\ op'.pos = op.pos /\ op'.entry = e /\ tbl'[e].prev = p /\ p \in RuleUsed'
          /\ tbl'[p].next = tbl'[e].next
      BY <1>1, <1>2, <1>4, <1>6, <1>7 DEF SameDeletion
    <2> QED BY <1>1, <2>1 DEF DmaRule
  <1> QED BY <1>1, <1>2, <1>4, <1>6, <1>8, <1>9, <1>10, <1>11, <1>12, RuleStageEnds

LEMMA TablesDeleteDma ==
  ASSUME BaseInv, TablesOK, DeleteDma
  PROVE  TablesOK'
  <1>1. op.pos \in Positions /\ (MoveWritten \/ IndexWritten \/ RuleWritten)
    BY DmaStages
  <1>2. BaseInv'
    BY BaseDeleteDma
  <1>3. \/ op.pos = "only_one" \/ op.pos = "head" \/ op.pos \in {"last", "middle"}
    BY <1>1 DEF Positions
  <1> QED BY <1>1, <1>2, <1>3, TablesDmaMove, TablesDmaIndex, TablesDmaRuleOnly,
             TablesDmaRuleHead, TablesDmaRuleLast

-----------------------------------------------------------------------------
\* What holds when the entries taken out are reset
CleanStage ==
  /\ op.entry \in TblEntries /\ op.ientry \in TblEntries
  /\ op.pos \in Positions /\ op.ipos \in Positions /\ DmaPlaces /\ DmaRule /\ DmaIndex
  /\ TypedView /\ TypedView' /\ CalmView' /\ op'.at = "dead"
  /\ RuleDone /\ IndexDone /\ Dma /\ (Overwritten <=> op.ipos = "head")
  /\ \A f : Gone(f) <=> f = op.entry
  /\ UNCHANGED <<ids, installed, failures>>
  /\ IF op.ipos = "head" THEN CleanIndexHead ELSE CleanIndexEntry

\* The rules' table then
RulesCleaned ==
  /\ \A x \in TblEntries : x = op.entry /\ op.pos # "head" =>
       ~ tbl'[x].enabled /\ ~ tbl'[x].dead /\ tbl'[x].next = 0
  /\ \A x \in TblEntries : x # op.entry \/ op.pos = "head" =>
       /\ tbl'[x].rule = tbl[x].rule /\ tbl'[x].next = tbl[x].next
       /\ tbl'[x].enabled <=> tbl[x].enabled
       /\ tbl'[x].dead <=> tbl[x].dead
       /\ tbl'[x].prev = IF op.pos = "middle" /\ x = tbl[op.entry].next
                           THEN tbl[op.entry].prev ELSE tbl[x].prev
       /\ tbl'[x].indx = IF op.ipos = "head" /\ x = index[op.ientry].tbl
                           THEN op.ientry ELSE tbl[x].indx

LEMMA CleanStages ==
  ASSUME BaseInv, TablesOK, DeleteClean
  PROVE  CleanStage /\ RulesCleaned
  <1>1. /\ op \in DmaOps /\ op.writes = <<>> /\ op'.at = "dead"
        /\ op.entry \in TblEntries /\ UNCHANGED <<ids, installed, failures>>
        /\ IF op.ipos = "head" THEN CleanIndexHead ELSE CleanIndexEntry
        /\ tbl' \in [TblEntries -> RuleEntry]
    BY DeleteCleans DEF BaseInv
  <1>2. /\ op.at = "dma" /\ op.ientry \in TblEntries
        /\ op.pos \in Positions /\ op.ipos \in Positions
    BY <1>1 DEF DmaOps
  <1>3. Len(op.writes) = 0
    BY <1>1
  <1>4. RuleDone /\ IndexDone /\ Dma /\ (Overwritten <=> op.ipos = "head")
    BY <1>1, <1>2, <1>3 DEF RuleDone, IndexDone, Dma, Overwritten
  <1>5. \A f : Gone(f) <=> f = op.entry
    BY <1>4 DEF Gone
  <1>6. DmaPlaces /\ DmaRule /\ DmaIndex
    BY <1>4 DEF TablesOK, DmaOK
  <1>7. BaseInv' /\ TypedView /\ TypedView'
    BY BaseDeleteClean, TypedTables, TypedNext
  <1>8. CalmView'
    BY <1>1, WhenCalmNext DEF Calm
  <1>9. CleanStage
    BY <1>1, <1>2, <1>4, <1>5, <1>6, <1>7, <1>8 DEF CleanStage
  <1>10. PICK u : /\ CleanedRule(tbl, u)
                  /\ op.ipos # "head" => tbl' = u
                  /\ op.ipos = "head" =>
                       tbl' = [u EXCEPT ![index[op.ientry].tbl].indx = op.ientry]
    BY DeleteCleans DEF BaseInv
  <1>11. u \in [TblEntries -> RuleEntry]
    BY <1>10 DEF CleanedRule
  <1>12. PICK f, i : f = index[op.ientry].tbl /\ i = op.ientry
    OBVIOUS
  <1>13. op.ipos = "head" => f \in TblEntries /\ f # op.entry
    <2>1. SUFFICES ASSUME op.ipos = "head" PROVE f \in TblEntries /\ f # op.entry
      OBVIOUS
    <2>2. i \in IndexUsed
      BY <1>4, <1>6, <1>12, <2>1 DEF DmaIndex
    <2>3. f \in TblEntries /\ ~ Gone(f)
      BY <1>12, <2>2, LinksView DEF TablesOK, LeadsOK
    <2> QED BY <1>5, <2>3
  <1>14. \A x \in TblEntries :
           /\ tbl'[x].rule = u[x].rule /\ tbl'[x].next = u[x].next /\ tbl'[x].prev = u[x].prev
           /\ tbl'[x].enabled <=> u[x].enabled
           /\ tbl'[x].dead <=> u[x].dead
           /\ tbl'[x].indx = IF op.ipos = "head" /\ x = f THEN i ELSE u[x].indx
    <2>1. CASE op.ipos # "head"
      BY <1>10, <2>1
    <2>2. CASE op.ipos = "head"
      <3>1. tbl' = [u EXCEPT ![f].indx = i]
        BY <1>10, <1>12, <2>2
      <3> QED BY <1>11, <1>13, <2>2, <3>1 DEF RuleEntry
    <2> QED BY <2>1, <2>2
  <1>15. \A x \in TblEntries : x = op.entry /\ op.pos # "head" =>
           ~ tbl'[x].enabled /\ ~ tbl'[x].dead /\ tbl'[x].next = 0
    <2>1. ASSUME NEW x \in TblEntries, x = op.entry, op.pos # "head" PROVE u[x] = NoRule
      BY <1>10, <2>1 DEF CleanedRule
    <2> QED BY <1>14, <2>1, NewEntries
  <1>16. \A x \in TblEntries : x # op.entry \/ op.pos = "head" =>
           /\ tbl'[x].rule = tbl[x].rule /\ tbl'[x].next = tbl[x].next
           /\ tbl'[x].enabled <=> tbl[x].enabled
           /\ tbl'[x].dead <=> tbl[x].dead
           /\ tbl'[x].prev = IF op.pos = "middle" /\ x = tbl[op.entry].next
                               THEN tbl[op.entry].prev ELSE tbl[x].prev
           /\ tbl'[x].indx = IF op.ipos = "head" /\ x = f THEN i ELSE tbl[x].indx
    BY <1>10, <1>14 DEF CleanedRule
  <1>17. RulesCleaned
    BY <1>12, <1>15, <1>16 DEF RulesCleaned
  <1> QED BY <1>9, <1>17

\* The rules in use and their links stay.
LEMMA CleanRules ==
  ASSUME BaseInv, TablesOK, CleanStage, RulesCleaned
  PROVE  /\ RuleUsed' = RuleUsed /\ \A x \in RuleUsed : x # op.entry \/ op.pos = "head"
         /\ Linked(tbl', RuleUsed', RuleKey') /\ PrevOK'
  <1> USE DEF CleanStage
  <1>1. PICK e \in TblEntries : e = op.entry
    OBVIOUS
  <1>2. RuleUsed = {x \in TblEntries :
                      tbl[x].enabled /\ ~ (op.pos \in {"last", "middle"} /\ x = e)}
    BY <1>1 DEF RuleUsed, Dma
  <1>3. \A x \in RuleUsed : x # e \/ op.pos = "head"
    <2>1. op.pos = "only_one" => ~ tbl[e].enabled
      BY <1>1 DEF DmaRule
    <2> QED BY <1>2, <2>1 DEF Positions
  <1>4. RuleUsed' = RuleUsed
    <2>1. RuleUsed' = {x \in TblEntries : tbl'[x].enabled}
      BY DEF CalmView, StillView
    <2>2. ASSUME NEW x \in TblEntries PROVE tbl'[x].enabled <=> x \in RuleUsed
      <3>1. CASE x = e /\ op.pos # "head"
        BY <1>1, <1>3, <3>1 DEF RulesCleaned
      <3>2. CASE x # e \/ op.pos = "head"
        BY <1>1, <1>2, <3>2 DEF RulesCleaned
      <3> QED BY <3>1, <3>2
    <2>3. RuleUsed \subseteq TblEntries
      BY <1>2
    <2> QED BY <2>1, <2>2, <2>3
  <1>5. \A x \in RuleUsed : x \in TblEntries /\ tbl'[x].rule = tbl[x].rule
                            /\ tbl'[x].next = tbl[x].next
    BY <1>1, <1>2, <1>3 DEF RulesCleaned
  <1>6. Linked(tbl', RuleUsed', RuleKey')
    <2>1. HasLinks(tbl) /\ Linked(tbl, RuleUsed, RuleKey) /\ HasLinks(tbl')
      BY LinksView DEF TypedView
    <2>2. \A x \in RuleUsed : RuleKey'[x] = RuleKey[x]
      BY <1>5 DEF RuleKey
    <2>3. \A x \in Buckets : tbl'[x].next = tbl[x].next
      <3> TAKE x \in Buckets
      <3>1. CASE x = e /\ op.pos # "head"
        <4>1. op.pos = "only_one" /\ tbl[e].next = 0
          BY <1>1, <3>1 DEF DmaPlaces
        <4> QED BY <1>1, <3>1, <4>1 DEF RulesCleaned
      <3>2. CASE x # e \/ op.pos = "head"
        BY <1>1, <3>2, Bounds DEF RulesCleaned
      <3> QED BY <3>1, <3>2
    <2>4. \A x \in RuleUsed \cup Buckets : tbl'[x].next = tbl[x].next
      BY <1>5, <2>3
    <2> QED BY <1>4, <2>1, <2>2, <2>4, LinkedSame
  <1>7. PrevOK'
    <2>1. ASSUME NEW x \in RuleUsed, tbl[x].next # 0, NEW n, n = tbl[x].next
          PROVE  tbl'[n].prev = x
      <3>1. n \in RuleUsed /\ n \in TblEntries /\ (n # e \/ op.pos = "head")
        BY <1>3, <2>1, LinksView
      <3>2. tbl'[n].prev = IF op.pos = "middle" /\ n = tbl[e].next
                             THEN tbl[e].prev ELSE tbl[n].prev
        BY <1>1, <3>1 DEF RulesCleaned
      <3>3. CASE op.pos = "middle"
        <4>1. PICK p : p = tbl[e].prev /\ p \in RuleUsed /\ tbl[p].next = tbl[e].next
          BY <1>1, <3>3 DEF DmaRule
        <4>2. CASE n = tbl[e].next
          <5>0. \A g, h \in RuleUsed : tbl[g].next # 0 /\ tbl[g].next = tbl[h].next => g = h
            BY LinksView DEF Linked
          <5>1. x = p
            BY <2>1, <4>1, <4>2, <5>0
          <5> QED BY <3>2, <3>3, <4>1, <4>2, <5>1
        <4>3. CASE n # tbl[e].next
          <5>1. x # p
            BY <2>1, <4>1, <4>3
          <5>2. tbl[n].prev = x
            BY <1>1, <2>1, <4>1, <5>1 DEF TablesOK, PrevOK
          <5> QED BY <3>2, <4>3, <5>2
        <4> QED BY <4>2, <4>3
      <3>4. CASE op.pos # "middle"
        <4>1. tbl[n].prev = x
          BY <2>1, <3>4 DEF TablesOK, PrevOK
        <4> QED BY <3>2, <3>4, <4>1
      <3> QED BY <3>3, <3>4
    <2>2. \A x \in RuleUsed : tbl'[x].next = 0 \/ tbl'[tbl'[x].next].prev = x
      BY <1>5, <2>1
    <2> QED BY <1>4, <2>2 DEF CalmView, StillView
  <1> QED BY <1>1, <1>3, <1>4, <1>6, <1>7

\* So do the index entries in use.
LEMMA CleanIndexes ==
  ASSUME BaseInv, TablesOK, CleanStage, RulesCleaned
  PROVE  /\ IndexUsed' = IndexUsed /\ \A j \in IndexUsed : index'[j] = index[j]
         /\ op.ipos = "head" => op.moved \notin IndexUsed
         /\ Linked(index', IndexUsed', IndexKey') /\ MetaOK'
  <1> USE DEF CleanStage
  <1>1. PICK i, m, k : i = op.ientry /\ m = op.moved /\ k = IF op.ipos = "head" THEN m ELSE i
    OBVIOUS
  <1>2. op.ipos = "head" => m \in ExpnEntries
    BY <1>1 DEF DmaIndex
  <1>3. i \in TblEntries /\ k \in TblEntries
    BY <1>1, <1>2, Bounds
  <1>4. index' = [index EXCEPT ![k] = NoIndex]
    BY <1>1 DEF CleanIndexHead, CleanIndexEntry
  <1>5. index'[k] = NoIndex /\ \A j \in TblEntries : j # k => index'[j] = index[j]
    BY <1>3, <1>4 DEF TypedView
  <1>6. k \notin IndexUsed /\ \A j \in TblEntries : j # k => (j \in IndexUsed <=> index[j].tbl # 0)
    <2>1. op.ipos = "only_one" => index[i].tbl = 0
      BY <1>1 DEF DmaIndex
    <2>2. op.at = "dma"
      BY DEF Dma
    <2>3. IndexUsed = {j \in TblEntries :
                         /\ index[j].tbl # 0
                         /\ op.ipos \in {"last", "middle"} => j # i
                         /\ op.ipos = "head" => j # m}
      BY <1>1, <2>2 DEF IndexUsed
    <2>4. CASE op.ipos = "head"
      BY <1>1, <1>3, <2>3, <2>4
    <2>5. CASE op.ipos = "only_one"
      BY <1>1, <1>3, <2>1, <2>3, <2>5
    <2>6. CASE op.ipos \in {"last", "middle"}
      BY <1>1, <1>3, <2>3, <2>6
    <2> QED BY <2>4, <2>5, <2>6 DEF Positions
  <1>7. IndexUsed' = IndexUsed
    <2>1. IndexUsed' = {j \in TblEntries : index'[j].tbl # 0}
      BY DEF CalmView, StillView
    <2>2. \A j \in TblEntries : index'[j].tbl # 0 <=> j \in IndexUsed
      BY <1>5, <1>6, NewEntries
    <2> QED BY <2>1, <2>2, LinksView
  <1>8. \A j \in IndexUsed : index'[j] = index[j] /\ j \in TblEntries
    BY <1>5, <1>6, LinksView
  <1>9. Linked(index', IndexUsed', IndexKey')
    <2>1. HasLinks(index) /\ Linked(index, IndexUsed, IndexKey) /\ HasLinks(index')
      BY LinksView DEF TypedView
    <2>2. \A j \in IndexUsed : IndexKey'[j] = IndexKey[j]
      <3> TAKE j \in IndexUsed
      <3>1. index'[j] = index[j] /\ j \in TblEntries /\ index[j].tbl \in RuleUsed
            /\ index[j].tbl \in TblEntries
        BY <1>8, LinksView
      <3>2. tbl'[index[j].tbl].rule = tbl[index[j].tbl].rule
        BY <3>1, CleanRules DEF RulesCleaned
      <3> QED BY <3>1, <3>2 DEF IndexKey
    <2>3. \A j \in Buckets : index'[j].next = index[j].next
      <3> TAKE j \in Buckets
      <3>1. CASE j = k
        <4>1. op.ipos = "only_one" /\ k = i
          BY <1>1, <1>2, <3>1, Bounds DEF DmaPlaces
        <4>2. index[k].next = 0
          BY <1>1, <4>1 DEF DmaIndex
        <4> QED BY <1>5, <3>1, <4>2, NewEntries
      <3>2. CASE j # k
        BY <1>5, <3>2, Bounds
      <3> QED BY <3>1, <3>2
    <2>4. \A j \in IndexUsed \cup Buckets : index'[j].next = index[j].next
      BY <1>8, <2>3
    <2> QED BY <1>7, <2>1, <2>2, <2>4, LinkedSame
  <1>10. meta \in [TblEntries -> Links]
    BY DEF BaseInv, TableTypeOK
  <1>11. MetaOK'
    <2>1. ASSUME NEW j \in IndexUsed, index[j].next # 0, NEW n, n = index[j].next
          PROVE  meta'[n] = j
      <3>1. n \in IndexUsed /\ n \in TblEntries /\ n \in ExpnEntries /\ n >= Base
        BY <2>1, LinksView, Bounds DEF ExpnEntries
      <3>2. CASE op.ipos = "head"
        <4>1. PICK q : q = index[i].next
          OBVIOUS
        <4>2. meta' = IF q >= Base THEN [meta EXCEPT ![q] = i] ELSE meta
          BY <1>1, <3>2, <4>1 DEF CleanIndexHead, MetaAfterHead
        <4>3. CASE j = i
          BY <1>10, <2>1, <3>1, <4>1, <4>2, <4>3
        <4>4. CASE j # i
          <5>1. i \in IndexUsed
            BY <1>1, <3>2 DEF DmaIndex
          <5>2. n # q
            BY <2>1, <4>1, <4>4, <5>1, LinksView DEF Linked
          <5>3. meta[n] = j
            BY <1>1, <2>1, <3>2, <4>4 DEF TablesOK, MetaOK
          <5>4. meta'[n] = meta[n]
            BY <1>10, <3>1, <4>2, <5>2
          <5> QED BY <5>3, <5>4
        <4> QED BY <4>3, <4>4
      <3>3. CASE op.ipos = "middle"
        <4>1. PICK p : p = meta[i] /\ p \in IndexUsed /\ index[p].next = m /\ index[i].next = m
          BY <1>1, <3>3 DEF DmaIndex
        <4>2. m # 0
          BY <1>1, <3>3 DEF DmaPlaces
        <4>3. m \in IndexUsed /\ m \in TblEntries /\ m # i
          BY <1>1, <1>6, <3>3, <4>1, <4>2, LinksView
        <4>4. meta' = [meta EXCEPT ![m] = p, ![i] = 0]
          BY <1>1, <3>3, <4>1 DEF CleanIndexEntry
        <4>5. n # i
          BY <1>1, <1>6, <3>1, <3>3
        <4>6. CASE j = p
          <5>1. n = m
            BY <2>1, <4>1, <4>6
          <5> QED BY <1>3, <1>10, <4>3, <4>4, <4>6, <5>1
        <4>7. CASE j # p
          <5>1. n # m
            BY <2>1, <4>1, <4>7, LinksView DEF Linked
          <5>2. meta[n] = j
            BY <1>1, <2>1, <3>3, <4>1, <4>7 DEF TablesOK, MetaOK
          <5>3. meta'[n] = meta[n]
            BY <1>10, <3>1, <4>4, <4>5, <5>1
          <5> QED BY <5>2, <5>3
        <4> QED BY <4>6, <4>7
      <3>4. CASE op.ipos \notin {"head", "middle"}
        <4>1. meta' = meta
          BY <3>4 DEF CleanIndexEntry
        <4>2. meta[n] = j
          BY <2>1, <3>4 DEF TablesOK, MetaOK
        <4> QED BY <4>1, <4>2
      <3> QED BY <3>2, <3>3, <3>4
    <2>2. \A j \in IndexUsed : index'[j].next = 0 \/ meta'[index'[j].next] = j
      BY <1>8, <2>1
    <2> QED BY <1>7, <2>2 DEF CalmView, StillView
  <1>12. op.ipos = "head" => op.moved \notin IndexUsed
    BY <1>1, <1>6
  <1> QED BY <1>7, <1>8, <1>9, <1>11, <1>12

LEMMA TablesDeleteClean ==
  ASSUME BaseInv, TablesOK, DeleteClean
  PROVE  TablesOK'
  <1>1. CleanStage /\ RulesCleaned
    BY CleanStages
  <1> USE DEF CleanStage
  <1>2. RuleUsed' = RuleUsed /\ IndexUsed' = IndexUsed /\ LinksOK' /\ PrevOK' /\ MetaOK'
        /\ (\A x \in RuleUsed : x # op.entry \/ op.pos = "head")
        /\ (\A j \in IndexUsed : index'[j] = index[j])
        /\ (op.ipos = "head" => op.moved \notin IndexUsed)
    BY <1>1, CleanRules, CleanIndexes DEF LinksOK
  <1>3. PICK e, i, m, f : e = op.entry /\ i = op.ientry /\ m = op.moved /\ f = index[i].tbl
    OBVIOUS
  <1>4. op.ipos = "head" => /\ i \in IndexUsed /\ f \in TblEntries /\ f # e
                            /\ tbl[f].indx = m /\ ~ tbl[f].dead
    <2>1. SUFFICES ASSUME op.ipos = "head"
                   PROVE  /\ i \in IndexUsed /\ f \in TblEntries /\ f # e
                          /\ tbl[f].indx = m /\ ~ tbl[f].dead
      OBVIOUS
    <2>2. i \in IndexUsed
      BY <1>1, <1>3, <2>1 DEF DmaIndex
    <2>3. f \in TblEntries /\ ~ Gone(f) /\ tbl[f].indx = m /\ ~ tbl[f].dead
      BY <1>1, <1>3, <2>1, <2>2, LinksView DEF TablesOK, LeadsOK
    <2> QED BY <1>1, <1>3, <2>2, <2>3
  <1>5. ASSUME NEW x \in TblEntries, tbl'[x].enabled \/ tbl'[x].dead
        PROVE  (x # e \/ op.pos = "head") /\ (tbl'[x].enabled <=> tbl[x].enabled)
               /\ (tbl'[x].dead <=> tbl[x].dead) /\ tbl'[x].next = tbl[x].next
    BY <1>1, <1>3, <1>5 DEF RulesCleaned
  <1>6. ASSUME NEW x \in TblEntries, tbl'[x].enabled, ~ tbl'[x].dead
        PROVE  /\ x # e /\ tbl[x].enabled /\ ~ tbl[x].dead
               /\ tbl'[x].indx = IF op.ipos = "head" /\ x = f THEN i ELSE tbl[x].indx
    <2>1. (x # e \/ op.pos = "head") /\ tbl[x].enabled /\ ~ tbl[x].dead
      BY <1>5, <1>6
    <2>2. x # e
      BY <1>1, <1>3, <2>1 DEF DmaRule
    <2> QED BY <1>1, <1>3, <2>1, <2>2 DEF RulesCleaned
  <1>7. LeadsOK'
    <2>1. ASSUME NEW j \in IndexUsed, NEW x, x = index[j].tbl
          PROVE  x \in RuleUsed /\ ~ tbl'[x].dead /\ tbl'[x].indx = j
      <3>1. /\ x \in RuleUsed /\ ~ tbl[x].dead /\ x # e /\ x \in TblEntries
            /\ tbl[x].indx = IF op.ipos = "head" /\ j = i THEN m ELSE j
        BY <1>1, <1>3, <2>1, LinksView DEF TablesOK, LeadsOK
      <3>2. ~ tbl'[x].dead
            /\ tbl'[x].indx = IF op.ipos = "head" /\ x = f THEN i ELSE tbl[x].indx
        BY <1>1, <1>3, <3>1 DEF RulesCleaned
      <3>3. CASE op.ipos = "head" /\ j = i
        BY <1>3, <2>1, <3>1, <3>2, <3>3
      <3>4. CASE op.ipos = "head" /\ j # i
        BY <1>2, <1>3, <1>4, <2>1, <3>1, <3>2, <3>4
      <3>5. CASE op.ipos # "head"
        BY <3>1, <3>2, <3>5
      <3> QED BY <3>1, <3>2, <3>3, <3>4, <3>5
    <2> QED BY <1>1, <1>2, <2>1 DEF CalmView, StillView
  <1>8. LedOK'
    <2>1. ASSUME NEW x \in TblEntries, tbl'[x].enabled, ~ tbl'[x].dead
          PROVE  tbl'[x].indx \in IndexUsed /\ index[tbl'[x].indx].tbl = x
      <3>1. /\ x # e /\ tbl[x].enabled /\ ~ tbl[x].dead
            /\ tbl'[x].indx = IF op.ipos = "head" /\ x = f THEN i ELSE tbl[x].indx
        BY <1>6, <2>1
      <3>2. PICK j : /\ j = IF op.ipos = "head" /\ tbl[x].indx = m THEN i ELSE tbl[x].indx
                     /\ j \in IndexUsed /\ index[j].tbl = x
        BY <1>1, <1>3, <3>1 DEF TablesOK, LedOK
      <3>3. j = tbl'[x].indx
        BY <1>3, <1>4, <3>1, <3>2
      <3> QED BY <3>2, <3>3
    <2>2. \A x \in TblEntries : tbl'[x].enabled /\ ~ tbl'[x].dead =>
            tbl'[x].indx \in IndexUsed' /\ index'[tbl'[x].indx].tbl = x
      BY <1>2, <2>1
    <2> QED BY <1>1, <2>2 DEF CalmView, StillView
  <1>9. DeadOK'
    <2>1. ASSUME NEW x \in TblEntries, tbl'[x].dead PROVE tbl'[x].enabled /\ x \in Buckets
      <3>1. tbl[x].dead /\ (tbl'[x].enabled <=> tbl[x].enabled)
        BY <1>5, <2>1
      <3> QED BY <3>1 DEF TablesOK, DeadOK
    <2> QED BY <1>1, <2>1 DEF CalmView, StillView
  <1>10. OwnedOK'
    <2>1. ASSUME NEW x \in TblEntries, tbl'[x].enabled, ~ tbl'[x].dead
          PROVE  \E h \in RuleHdls : installed[h] # Nil /\ ids[h] = RuleId(x)
      <3>1. x # e /\ tbl[x].enabled /\ ~ tbl[x].dead
        BY <1>6, <2>1
      <3> QED BY <1>3, <3>1 DEF TablesOK, OwnedOK
    <2> QED BY <1>1, <2>1 DEF CalmView, StillView
  <1>11. AddOK' /\ DmaOK' /\ op' # Hung
    BY <1>1 DEF AddOK, AddStages, CalmView, Hung
  <1> QED BY <1>2, <1>7, <1>8, <1>9, <1>10, <1>11 DEF TablesOK

-----------------------------------------------------------------------------
LEMMA TablesStep ==
  ASSUME BaseInv, failures = 0 => TablesOK, [TableNext]_tableVars
  PROVE  failures' = 0 => TablesOK'
  <1>1. failures \in Nat
    BY NatAssumption DEF BaseInv, TableTypeOK
  <1>2. SUFFICES ASSUME failures' = 0 PROVE TablesOK'
    OBVIOUS
  <1>3. ASSUME AddLinkFails \/ AddIndexLinkFails \/ AddEnableFails PROVE FALSE
    <2>1. failures' = failures + 1
      BY <1>3 DEF AddLinkFails, AddIndexLinkFails, AddEnableFails, Fails
    <2> QED BY <1>1, <1>2, <2>1
  <1>4. ASSUME failures' = failures PROVE TablesOK
    BY <1>2, <1>4
  <1>5. ASSUME NEW r \in ClntRules, AddGenerate(r) PROVE TablesOK'
    <2>1. TablesOK
      BY <1>4, <1>5 DEF AddGenerate
    <2> QED BY <1>5, <2>1, TablesAddGenerate
  <1>6. ASSUME NEW r \in ClntRules, AddHangs(r) PROVE TablesOK'
    <2>1. TablesOK
      BY <1>4, <1>6 DEF AddHangs
    <2> QED BY <1>6, <2>1, NeverHangs
  <1>7. CASE AddCopy
    <2>1. TablesOK
      BY <1>4, <1>7 DEF AddCopy
    <2> QED BY <1>7, <2>1, TablesAddCopy
  <1>8. CASE AddLink
    <2>1. TablesOK
      BY <1>4, <1>8 DEF AddLink
    <2> QED BY <1>8, <2>1, TablesAddLink
  <1>9. CASE AddIndexCopy
    <2>1. TablesOK
      BY <1>4, <1>9 DEF AddIndexCopy
    <2> QED BY <1>9, <2>1, TablesAddIndexCopy
  <1>10. CASE AddIndexLink
    <2>1. TablesOK
      BY <1>4, <1>10 DEF AddIndexLink
    <2> QED BY <1>10, <2>1, TablesAddIndexLink
  <1>11. CASE AddEnable
    <2>1. TablesOK
      BY <1>4, <1>11 DEF AddEnable
    <2> QED BY <1>11, <2>1, TablesAddEnable
  <1>12. ASSUME NEW h \in RuleHdls, DeleteBegin(h) PROVE TablesOK'
    <2>1. TablesOK
      BY <1>4, <1>12 DEF DeleteBegin
    <2> QED BY <1>12, <2>1, TablesDeleteBegin
  <1>13. CASE DeleteDma
    <2>1. TablesOK
      BY <1>4, <1>13 DEF DeleteDma
    <2> QED BY <1>13, <2>1, TablesDeleteDma
  <1>14. CASE DeleteClean
    <2>1. TablesOK
      BY <1>4, <1>14 DEF DeleteClean
    <2> QED BY <1>14, <2>1, TablesDeleteClean
  <1>15. CASE DeleteDone
    <2>1. TablesOK
      BY <1>4, <1>15 DEF DeleteDone
    <2> QED BY <1>15, <2>1, TablesDeleteDone
  <1>16. CASE UNCHANGED tableVars
    <2>1. UNCHANGED <<tbl, index, meta, ids, op, installed, failures>>
      BY <1>16 DEF tableVars
    <2>2. TablesOK
      BY <1>4, <2>1
    <2>3. /\ RuleUsed' = RuleUsed /\ IndexUsed' = IndexUsed
          /\ RuleKey' = RuleKey /\ IndexKey' = IndexKey
      BY <2>1 DEF RuleUsed, IndexUsed, RuleKey, IndexKey, RuleDone, IndexDone, Dma
    <2>4. LinksOK' /\ PrevOK' /\ MetaOK' /\ LeadsOK' /\ LedOK' /\ DeadOK' /\ OwnedOK'
      BY <2>1, <2>2, <2>3 DEF TablesOK, LinksOK, PrevOK, MetaOK, LeadsOK, LedOK, DeadOK,
         OwnedOK, RuleDone, IndexDone, Overwritten, Gone, Dma
    <2>5. AddOK' /\ op' # Hung
      BY <2>1, <2>2, <2>3 DEF TablesOK, AddOK, AddRuleOK, AddIndexOK, AddWritten
    <2>6. DmaOK'
      <3>1. /\ PendingRule' = PendingRule /\ PendingIndex' = PendingIndex
            /\ PendingMove' = PendingMove
        BY <2>1 DEF PendingRule, PendingIndex, PendingMove
      <3>2. (Dma' <=> Dma) /\ (Pending' <=> Pending) /\ (DmaPlaces' <=> DmaPlaces)
        BY <2>1, <3>1 DEF Dma, Pending, DmaPlaces
      <3>3. DmaRule' <=> DmaRule
        BY <2>1, <2>3 DEF DmaRule, RuleDone, Dma
      <3>4. DmaIndex' <=> DmaIndex
        BY <2>1, <2>3 DEF DmaIndex, IndexDone, Overwritten, Dma
      <3> QED BY <2>2, <3>2, <3>3, <3>4 DEF TablesOK, DmaOK
    <2> QED BY <2>4, <2>5, <2>6 DEF TablesOK
  <1> QED BY <1>3, <1>5, <1>6, <1>7, <1>8, <1>9, <1>10, <1>11, <1>12, <1>13, <1>14, <1>15,
             <1>16 DEF TableNext

\* The invariant holds in tables of any size, for any rules and any hashes.
THEOREM TableInductive == TableSpec => []TableInv
  <1>1. TableInit => TableInv
    BY BaseInit, TablesInit DEF BaseInv, TableInv
  <1>2. TableInv /\ [TableNext]_tableVars => TableInv'
    <2> SUFFICES ASSUME TableInv, [TableNext]_tableVars PROVE TableInv'
      OBVIOUS
    <2>1. BaseInv /\ (failures = 0 => TablesOK)
      BY DEF TableInv, BaseInv
    <2>2. BaseInv'
      BY <2>1, BaseStep
    <2>3. failures' = 0 => TablesOK'
      BY <2>1, TablesStep
    <2> QED BY <2>2, <2>3 DEF TableInv, BaseInv
  <1> QED BY <1>1, <1>2, PTL DEF TableSpec

-----------------------------------------------------------------------------
\* What a rule that was returned has: an entry that is found in both directions
LEMMA InstalledEntry ==
  ASSUME BaseInv, TablesOK, NEW h \in RuleHdls, installed[h] # Nil
  PROVE  \E e \in RuleUsed :
           /\ ids[h] = RuleId(e) /\ Matches(e, installed[h]) /\ e \in UsableEntries
           /\ ~ (Dma /\ e = op.entry)
           /\ \E i \in IndexUsed : index[i].tbl = e
  <1>1. PICK e \in UsableEntries : ids[h] = RuleId(e) /\ Matches(e, installed[h])
    BY DEF BaseInv, HandleOK
  <1>2. ids[h] # 0
    BY DEF BaseInv, HandleOK
  <1>3. ~ (Dma /\ e = op.entry)
    <2>1. SUFFICES ASSUME Dma, e = op.entry PROVE FALSE
      OBVIOUS
    <2>2. op.hdl \in RuleHdls
      BY <2>1, OpShapes DEF BaseInv, Dma, DmaOps
    <2>3. ids[op.hdl] = ids[h] /\ installed[op.hdl] = Nil
      BY <1>1, <2>1 DEF BaseInv, HandleOK, Dma
    <2>4. h = op.hdl
      BY <1>2, <2>2, <2>3 DEF BaseInv, HandleOK
    <2> QED BY <2>3, <2>4
  <1>4. e \in TblEntries /\ tbl[e].enabled /\ ~ tbl[e].dead
    BY <1>1 DEF UsableEntries, Matches
  <1>5. e \in RuleUsed
    BY <1>3, <1>4 DEF RuleUsed, RuleDone
  <1>6. \E i \in IndexUsed : index[i].tbl = e
    BY <1>3, <1>4 DEF TablesOK, LedOK, Gone
  <1> QED BY <1>1, <1>3, <1>5, <1>6

LEMMA FoundWhenInstalled == BaseInv /\ (failures = 0 => TablesOK) => RulesFound
  <1> SUFFICES ASSUME BaseInv, failures = 0 => TablesOK, failures = 0, NEW r \in Installed
               PROVE  DstFinds(r) /\ SrcFinds(r)
    BY DEF RulesFound
  <1>1. PICK h \in RuleHdls : installed[h] = r /\ r # Nil
    BY DEF Installed
  <1>2. r \in ClntRules
    BY <1>1 DEF BaseInv, TableTypeOK
  <1>3. PICK e \in RuleUsed : Matches(e, r) /\ \E i \in IndexUsed : index[i].tbl = e
    BY <1>1, InstalledEntry
  <1>4. PICK i \in IndexUsed : index[i].tbl = e
    BY <1>3
  <1>5. e \in TblEntries /\ i \in TblEntries /\ tbl[e].rule = r /\ e # 0
    BY <1>3, LinksView, Bounds DEF Matches
  <1>6. DstFinds(r)
    <2>1. RuleKey[e] = DstHash[r]
      BY <1>1, <1>5 DEF RuleKey
    <2>2. e \in Chain(tbl, DstHash[r])
      BY <2>1, LinksView DEF Linked
    <2> QED BY <1>3, <2>2 DEF DstFinds
  <1>7. SrcFinds(r)
    <2>1. IndexKey[i] = SrcHash[r]
      BY <1>1, <1>4, <1>5 DEF IndexKey
    <2>2. i \in Chain(index, SrcHash[r])
      BY <2>1, LinksView DEF Linked
    <2> QED BY <1>3, <1>4, <1>5, <2>2 DEF SrcFinds
  <1> QED BY <1>6, <1>7

\* Between calls an entry in use is that of an installed rule.
LEMMA OwnedEntry ==
  ASSUME BaseInv, TablesOK, op = Idle, NEW e \in TblEntries, tbl[e].enabled, ~ tbl[e].dead
  PROVE  \E h \in RuleHdls : /\ installed[h] # Nil /\ ids[h] = RuleId(e)
                             /\ installed[h] = tbl[e].rule /\ ParseId(ids[h]) = e
  <1>1. ~ Dma /\ ~ RuleDone
    BY DEF Dma, RuleDone, Idle
  <1>2. PICK h \in RuleHdls : installed[h] # Nil /\ ids[h] = RuleId(e)
    BY <1>1 DEF TablesOK, OwnedOK
  <1>3. PICK f \in UsableEntries : ids[h] = RuleId(f) /\ Matches(f, installed[h])
    BY <1>2 DEF BaseInv, HandleOK
  <1>4. e \in UsableEntries
    <2>1. e \in RuleUsed
      BY <1>1 DEF RuleUsed
    <2> QED BY <2>1, LinksView DEF Linked, UsableEntries
  <1>5. e = f /\ ParseId(ids[h]) = e
    BY <1>2, <1>3, <1>4, RuleIds
  <1> QED BY <1>2, <1>3, <1>5 DEF Matches

LEMMA OnlyInstalled == BaseInv /\ (failures = 0 => TablesOK) => OnlyInstalledFound
  <1> SUFFICES ASSUME BaseInv, TablesOK, op = Idle, NEW r \in ClntRules,
                      DstFinds(r) \/ SrcFinds(r)
               PROVE  r \in Installed
    BY DEF OnlyInstalledFound
  <1>1. r # Nil
    BY NatAssumption
  <1>2. ASSUME NEW e \in TblEntries, Matches(e, r) PROVE r \in Installed
    <2>1. PICK h \in RuleHdls : installed[h] = tbl[e].rule
      BY <1>2, OwnedEntry DEF Matches
    <2>2. installed[h] = r
      BY <1>2, <2>1 DEF Matches
    <2> QED BY <1>1, <2>2 DEF Installed
  <1>3. DstHash[r] \in TblEntries /\ SrcHash[r] \in TblEntries
    BY HashesAreBuckets, Bounds
  <1>4. HasLinks(tbl) /\ HasLinks(index)
    BY LinksView
  <1>5. CASE DstFinds(r)
    <2>1. PICK e \in Chain(tbl, DstHash[r]) : Matches(e, r)
      BY <1>5 DEF DstFinds
    <2>2. e \in TblEntries
      BY <1>3, <1>4, ChainCloses
    <2> QED BY <1>2, <2>1, <2>2
  <1>6. CASE SrcFinds(r)
    <2>1. PICK i \in Chain(index, SrcHash[r]) : index[i].tbl # 0 /\ Matches(index[i].tbl, r)
      BY <1>6 DEF SrcFinds
    <2>2. i \in TblEntries
      BY <1>3, <1>4, ChainCloses
    <2>3. index[i].tbl \in TblEntries
      BY <2>1, <2>2, TypedTables, Bounds DEF TypedView
    <2> QED BY <1>2, <2>1, <2>3
  <1> QED BY <1>5, <1>6

LEMMA IndexLeads == BaseInv /\ (failures = 0 => TablesOK) => IndexLeadsToRule
  <1> SUFFICES ASSUME BaseInv, TablesOK, op.at = "dma", NEW b \in Buckets,
                      NEW i \in Chain(index, b), index[i].tbl # 0
               PROVE  \E r \in ClntRules : Matches(index[i].tbl, r)
    BY DEF IndexLeadsToRule, Buckets
  <1>1. /\ HasLinks(index) /\ Linked(index, IndexUsed, IndexKey) /\ b \in TblEntries
        /\ Linked(tbl, RuleUsed, RuleKey)
    BY LinksView, Bounds
  <1>2. DmaPlaces /\ DmaIndex
    BY DEF TablesOK, DmaOK, Dma
  <1>3. b \in IndexUsed
    <2>1. SUFFICES ASSUME b \notin IndexUsed PROVE FALSE
      OBVIOUS
    <2>2. Chain(index, b) = {b}
      BY <1>1, <2>1, ChainOfBucket
    <2>3. index[b].tbl # 0
      BY <2>2
    <2>4. IndexDone /\ \/ op.ipos \in {"last", "middle"} /\ b = op.ientry
                       \/ op.ipos = "head" /\ b = op.moved
      BY <1>1, <2>1, <2>3 DEF IndexUsed
    <2> QED BY <1>2, <2>4, Bounds DEF DmaPlaces, DmaIndex
  <1>4. i \in IndexUsed
    BY <1>1, <1>3, ChainOfBucket
  <1>5. PICK x : x = index[i].tbl
    OBVIOUS
  <1>6. x \in RuleUsed /\ x \in TblEntries /\ ~ tbl[x].dead
    BY <1>4, <1>5, LinksView DEF TablesOK, LeadsOK
  <1>7. tbl[x].enabled
    BY <1>6 DEF RuleUsed
  <1>8. tbl[x].rule \in ClntRules
    <2>1. RuleKey[x] \in Buckets
      BY <1>1, <1>6 DEF Linked
    <2>2. RuleKey[x] # 0
      BY <2>1, Bounds
    <2>3. tbl[x].rule # Nil
      BY <1>6, <2>2 DEF RuleKey
    <2> QED BY <1>6, <2>3, TypedTables DEF TypedView
  <1> QED BY <1>5, <1>6, <1>7, <1>8 DEF Matches

LEMMA Leaked == BaseInv /\ (failures = 0 => TablesOK) => NothingLeaked
  <1> SUFFICES ASSUME BaseInv, TablesOK, op = Idle, NEW e \in TblEntries
               PROVE  /\ tbl[e].enabled =>
                           IF tbl[e].dead THEN e < Base /\ tbl[e].next # 0
                           ELSE \E h \in RuleHdls :
                                  /\ ParseId(ids[h]) = e /\ installed[h] = tbl[e].rule
                                  /\ index[tbl[e].indx].tbl = e
                      /\ index[e].tbl # 0 => tbl[index[e].tbl].indx = e
    BY DEF NothingLeaked
  <1>1. op.at = "idle" /\ CalmView
    BY WhenCalm DEF Idle, Calm
  <1>2. tbl[e].dead => e < Base /\ tbl[e].next # 0
    BY <1>1, Bounds DEF TablesOK, CalmView, StillView, Buckets
  <1>3. tbl[e].enabled /\ ~ tbl[e].dead =>
          \E h \in RuleHdls : /\ ParseId(ids[h]) = e /\ installed[h] = tbl[e].rule
                              /\ index[tbl[e].indx].tbl = e
    <2>1. SUFFICES ASSUME tbl[e].enabled, ~ tbl[e].dead
          PROVE \E h \in RuleHdls : /\ ParseId(ids[h]) = e /\ installed[h] = tbl[e].rule
                                    /\ index[tbl[e].indx].tbl = e
      OBVIOUS
    <2>2. index[tbl[e].indx].tbl = e
      BY <1>1, <2>1 DEF TablesOK, CalmView, StillView
    <2> QED BY <2>1, <2>2, OwnedEntry
  <1>4. index[e].tbl # 0 => tbl[index[e].tbl].indx = e
    BY <1>1 DEF TablesOK, CalmView, StillView
  <1> QED BY <1>2, <1>3, <1>4

\* An addition returns: its search for the last entry of a chain ends.
AddReturns == failures = 0 => op.at # "hung"

\* No step of an addition or a deletion hides an installed rule from the
\* hardware's lookups, in either direction.
THEOREM InstalledAreFound == TableSpec => []RulesFound
  <1>1. TableInv => RulesFound
    BY FoundWhenInstalled DEF TableInv, BaseInv
  <1> QED BY <1>1, TableInductive, PTL

\* Between calls the hardware finds no rule but the installed ones.
THEOREM FoundAreInstalled == TableSpec => []OnlyInstalledFound
  <1>1. TableInv => OnlyInstalledFound
    BY OnlyInstalled DEF TableInv, BaseInv
  <1> QED BY <1>1, TableInductive, PTL

\* While a rule is deleted no index entry that the hardware reaches leads to a rule
\* that is disabled or dead: ReorderCmds puts the index table first.
THEOREM NoIndexToDeleted == TableSpec => []IndexLeadsToRule
  <1>1. TableInv => IndexLeadsToRule
    BY IndexLeads DEF TableInv, BaseInv
  <1> QED BY <1>1, TableInductive, PTL

\* Between calls every entry in use is that of a handle, or a dead head that others
\* are chained to.
THEOREM NoEntryLeaked == TableSpec => []NothingLeaked
  <1>1. TableInv => NothingLeaked
    BY Leaked DEF TableInv, BaseInv
  <1> QED BY <1>1, TableInductive, PTL

\* Between calls prev_index of both tables leads back to the entry before.
THEOREM PrevInverse == TableSpec => []PrevIsInverse
  <1>1. TableInv => PrevIsInverse
    <2> SUFFICES ASSUME BaseInv, TablesOK, op = Idle, NEW e \in TblEntries
                 PROVE  /\ tbl[e].enabled /\ tbl[e].next # 0 => tbl[tbl[e].next].prev = e
                        /\ index[e].tbl # 0 /\ index[e].next # 0 => meta[index[e].next] = e
      BY DEF TableInv, BaseInv, PrevIsInverse
    <2>1. op.at = "idle" /\ CalmView
      BY WhenCalm DEF Idle, Calm
    <2> QED BY <2>1 DEF TablesOK, CalmView, StillView
  <1> QED BY <1>1, TableInductive, PTL

\* While no ioctl call failed no chain loops, so that the searches of
\* ipa_nati_generate_tbl_rule and ipa_nati_generate_index_rule end.
THEOREM AdditionsReturn == TableSpec => []AddReturns
  <1>1. TableInv => AddReturns
    BY OpShapes DEF TableInv, TablesOK, AddReturns
  <1> QED BY <1>1, TableInductive, PTL
=============================================================================
