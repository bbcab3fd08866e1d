------------------------------ MODULE NatTable ------------------------------
(***************************************************************************)
(* The IPv4 NAT table shared with the IPA hardware:                        *)
(* data-ipa-cfg-mgr/ipanat/src/ipa_nat_drvi.c, one table.                  *)
(*                                                                         *)
(* Rules live in a base table indexed by a hash, collisions in an          *)
(* expansion table linked through next_index.  An index table of the same  *)
(* shape, hashed by the private side, holds the rules' entries.  The       *)
(* hardware looks rules up at any time, so each store into the shared      *)
(* tables is a step.  Entries are numbered over both tables as in the      *)
(* code: below Base in the base table, from Base on in the expansion       *)
(* table; the first entry of either is unused and 0 is                     *)
(* IPA_NAT_INVALID_NAT_ENTRY.  (Names that NatApp has too carry a prefix   *)
(* here: the proofs use both modules.)                                     *)
(*                                                                         *)
(* Calls are made one at a time: ipacm makes them from one thread, apart   *)
(* from the timestamp query, which stores nothing.                         *)
(***************************************************************************)
EXTENDS Naturals, Sequences

CONSTANTS
  ClntRules,   \* client rules
  Nil,         \* no rule
  Base,        \* table_entries
  Expn,        \* expn_table_entries
  DstHash,     \* dst_hash of each rule
  SrcHash,     \* src_hash of each rule
  MaxFailures  \* bound: ioctl calls that fail when a rule is enabled

ASSUME NatAssumption ==
  /\ Nil \notin ClntRules
  /\ Base \in Nat /\ Base > 1 /\ Expn \in Nat /\ Expn > 1
  /\ DstHash \in [ClntRules -> 1 .. Base - 1]
  /\ SrcHash \in [ClntRules -> 1 .. Base - 1]
  /\ MaxFailures \in Nat

VARIABLES
  tbl,        \* ipv4_rules_addr and ipv4_expn_rules_addr
  index,      \* index_table_addr and index_table_expn_addr
  meta,       \* index_expn_table_meta: prev_index
  ids,        \* rule_id_array
  op,         \* the call in progress
  installed,  \* history: the rule each handle was returned for
  failures    \* history: failed ioctl calls

tableVars == <<tbl, index, meta, ids, op, installed, failures>>

TblEntries == 1 .. Base + Expn - 1
Links == 0 .. Base + Expn - 1
ExpnEntries == Base + 1 .. Base + Expn - 1
RuleHdls == 1 .. Base + Expn

RuleEntry ==
  [rule : ClntRules \cup {Nil}, enabled : BOOLEAN, dead : BOOLEAN,
   next : Links, prev : Links, indx : Links]
IndexEntry == [tbl : Links, next : Links]
NoRule == [rule |-> Nil, enabled |-> FALSE, dead |-> FALSE,
           next |-> 0, prev |-> 0, indx |-> 0]
NoIndex == [tbl |-> 0, next |-> 0]
Idle == [at |-> "idle"]   \* no call is in progress

TableInit ==
  /\ tbl = [e \in TblEntries |-> NoRule]
  /\ index = [e \in TblEntries |-> NoIndex]
  /\ meta = [e \in TblEntries |-> 0]
  /\ ids = [h \in RuleHdls |-> 0]
  /\ op = Idle
  /\ installed = [h \in RuleHdls |-> Nil]
  /\ failures = 0

-----------------------------------------------------------------------------
\* The chain of bucket b through the next links of table t.
Chain(t, b) ==
  LET path[n \in 0 .. Base + Expn] ==
        IF n = 0 THEN b
        ELSE IF path[n - 1] = 0 THEN 0 ELSE t[path[n - 1]].next
  IN {path[n] : n \in DOMAIN path} \ {0}

Looping(t, b) == \A e \in Chain(t, b) : t[e].next # 0
SelfLinked(t, b) == \E e \in Chain(t, b) : t[e].next = e

\* Where a rule with bucket b goes and after which entry, given the free entries:
\* its bucket when that is free, else the first of the expansion table.
Last(t, b) == CHOOSE e \in Chain(t, b) : t[e].next = 0

FirstFree(free) ==
  IF free = {} THEN 0 ELSE CHOOSE e \in free : \A f \in free : e <= f

Place(t, b, free) ==
  IF b \in free THEN [entry |-> b, prev |-> 0]
  ELSE IF Looping(t, b) THEN [entry |-> 0, prev |-> 0]
  ELSE [entry |-> FirstFree(free \cap ExpnEntries), prev |-> Last(t, b)]

\* The search for the last entry gives up at an entry linked to itself; it follows
\* a longer loop for ever.
Endless(t, b, free) == b \notin free /\ Looping(t, b) /\ ~ SelfLinked(t, b)

FreeRules == {e \in TblEntries : ~ tbl[e].enabled}
FreeIndexes == {e \in TblEntries : index[e].tbl = 0}

\* rule_id_array holds the entry within its table and a bit for the table.
RuleId(e) == IF e >= Base THEN 2 * (e - Base) + 1 ELSE 2 * e
ParseId(id) == IF id % 2 = 1 THEN Base + id \div 2 ELSE id \div 2

FreeHdls == {h \in RuleHdls : ids[h] = 0}
LastHandle == CHOOSE h \in FreeHdls : \A g \in FreeHdls : h >= g
FirstHandle == CHOOSE h \in FreeHdls : \A g \in FreeHdls : h <= g

-----------------------------------------------------------------------------
\* ipa_nati_add_ipv4_rule: the places are chosen, then written one by one.
AddGenerate(r) ==
  /\ op = Idle /\ \A h \in RuleHdls : installed[h] # r
  /\ ~ Endless(tbl, DstHash[r], FreeRules)
  /\ LET p == Place(tbl, DstHash[r], FreeRules)
         i == Place(index, SrcHash[r], FreeIndexes)
     IN /\ p.entry # 0 /\ ~ Endless(index, SrcHash[r], FreeIndexes)
        /\ i.entry # 0 /\ i.entry # i.prev
        /\ op' = [at |-> "copy", rule |-> r, entry |-> p.entry, prev |-> p.prev,
                  ientry |-> i.entry, iprev |-> i.prev]
        /\ meta' = IF i.entry >= Base THEN [meta EXCEPT ![i.entry] = i.prev] ELSE meta
  /\ UNCHANGED <<tbl, index, ids, installed, failures>>

\* The search in either table does not end: the add never returns.
AddHangs(r) ==
  /\ op = Idle /\ \A h \in RuleHdls : installed[h] # r
  /\ \/ Endless(tbl, DstHash[r], FreeRules)
     \/ /\ Place(tbl, DstHash[r], FreeRules).entry # 0
        /\ Endless(index, SrcHash[r], FreeIndexes)
  /\ op' = [at |-> "hung"]
  /\ UNCHANGED <<tbl, index, meta, ids, installed, failures>>

AddStep(from, to) ==
  /\ op.at = from
  /\ op' = [op EXCEPT !.at = to]
  /\ UNCHANGED <<meta, ids, installed>>

Fails == failures < MaxFailures /\ failures' = failures + 1

AddCopy ==
  /\ AddStep("copy", IF op.prev = 0 THEN "icopy" ELSE "link")
  /\ tbl' = [tbl EXCEPT ![op.entry] =
               [NoRule EXCEPT !.rule = op.rule, !.prev = op.prev, !.indx = op.ientry]]
  /\ UNCHANGED <<index, failures>>

AddLink ==
  /\ AddStep("link", "icopy")
  /\ tbl' = [tbl EXCEPT ![op.prev].next = op.entry]
  /\ UNCHANGED <<index, failures>>

AddIndexCopy ==
  /\ AddStep("icopy", IF op.iprev = 0 THEN "enable" ELSE "ilink")
  /\ index' = [index EXCEPT ![op.ientry] = [tbl |-> op.entry, next |-> 0]]
  /\ UNCHANGED <<tbl, failures>>

AddIndexLink ==
  /\ AddStep("ilink", "enable")
  /\ index' = [index EXCEPT ![op.iprev].next = op.ientry]
  /\ UNCHANGED <<tbl, failures>>

\* The ioctl of ipa_nati_write_next_index fails: the add goes on without the link.
AddLinkFails ==
  AddStep("link", "icopy") /\ Fails /\ UNCHANGED <<tbl, index>>

AddIndexLinkFails ==
  AddStep("ilink", "enable") /\ Fails /\ UNCHANGED <<tbl, index>>

\* The rule is enabled, its handle is the first free place of rule_id_array.
AddEnable ==
  /\ op.at = "enable"
  /\ tbl' = [tbl EXCEPT ![op.entry].enabled = TRUE]
  /\ ids' = [ids EXCEPT ![FirstHandle] = RuleId(op.entry)]
  /\ installed' = [installed EXCEPT ![FirstHandle] = op.rule]
  /\ op' = Idle
  /\ UNCHANGED <<index, meta, failures>>

\* The ioctl that enables the rule fails: the add returns with what it wrote.
AddEnableFails ==
  /\ op.at = "enable" /\ Fails
  /\ op' = Idle
  /\ UNCHANGED <<tbl, index, meta, ids, installed>>

-----------------------------------------------------------------------------
\* ipa_nati_del_ipv4_rule.

\* find_rule_pos and find_index_rule_pos.
Position(t, e) ==
  IF e < Base THEN IF t[e].next = 0 THEN "only_one" ELSE "head"
              ELSE IF t[e].next = 0 THEN "last" ELSE "middle"

\* The DMA writes that take entry e out of the index table, and rule entry e out
\* of the table.
Write(t, e, field, value) == [t |-> t, e |-> e, field |-> field, value |-> value]

IndexWrites(e) ==
  CASE Position(index, e) = "only_one" -> << Write("index", e, "tbl", 0) >>
    [] Position(index, e) = "head" ->
         << Write("index", e, "tbl", index[index[e].next].tbl),
            Write("index", e, "next", index[index[e].next].next) >>
    [] OTHER -> << Write("index", meta[e], "next", index[e].next) >>

KeepsProtocol(e) ==
  CASE Position(tbl, e) = "only_one" -> << Write("tbl", e, "enabled", FALSE) >>
    [] Position(tbl, e) = "head" -> << >>
    [] OTHER -> << Write("tbl", tbl[e].prev, "next", tbl[e].next) >>

RuleWrites(e) ==
  CASE Position(tbl, e) = "only_one" -> << Write("tbl", e, "enabled", FALSE) >>
    [] Position(tbl, e) = "head" -> << Write("tbl", e, "dead", TRUE) >>
    [] OTHER -> << Write("tbl", tbl[e].prev, "next", tbl[e].next) >>

\* ReorderCmds puts the index table's commands first.
NotReordered(e) == RuleWrites(e) \o IndexWrites(tbl[e].indx)
Commands(e) == IndexWrites(tbl[e].indx) \o RuleWrites(e)

DeleteBegin(h) ==
  /\ op = Idle /\ installed[h] # Nil
  /\ h < Base + Expn
  /\ LET e == ParseId(ids[h])
     IN /\ tbl[e].enabled
        /\ op' = [at |-> "dma", hdl |-> h, entry |-> e, ientry |-> tbl[e].indx,
                  pos |-> Position(tbl, e), ipos |-> Position(index, tbl[e].indx),
                  moved |-> index[tbl[e].indx].next,
                  writes |-> Commands(e)]
  /\ installed' = [installed EXCEPT ![h] = Nil]
  /\ UNCHANGED <<tbl, index, meta, ids, failures>>

\* The hardware makes one write of the command.
DeleteDma ==
  /\ op.at = "dma" /\ op.writes # <<>>
  /\ LET w == Head(op.writes)
     IN IF w.t = "tbl"
          THEN tbl' = [tbl EXCEPT ![w.e][w.field] = w.value] /\ UNCHANGED index
          ELSE index' = [index EXCEPT ![w.e][w.field] = w.value] /\ UNCHANGED tbl
  /\ op' = [op EXCEPT !.writes = Tail(@)]
  /\ UNCHANGED <<meta, ids, installed, failures>>

\* After the ioctl the deleted entry is reset, unless it is the head of a chain,
\* and the next one gets its prev_index.
ResetsHeads(t) == [t EXCEPT ![op.entry] = NoRule]
CleanRule(t) ==
  LET e == op.entry
      u == IF op.pos = "middle" THEN [t EXCEPT ![t[e].next].prev = t[e].prev] ELSE t
  IN IF op.pos = "head" THEN u ELSE [u EXCEPT ![e] = NoRule]

\* After an index head: the entry copied into it is reset, the one behind has it
\* as prev_index now, and the moved rule is told its new index entry.
MetaAfterHead(i, n) == IF n >= Base THEN [meta EXCEPT ![n] = i] ELSE meta

CleanIndexHead ==
  LET i == op.ientry
  IN /\ index' = [index EXCEPT ![op.moved] = NoIndex]
     /\ meta' = MetaAfterHead(i, index[i].next)
     /\ tbl' = [CleanRule(tbl) EXCEPT ![index[i].tbl].indx = i]

CleanIndexEntry ==
  LET i == op.ientry
      n == index[i].next
  IN /\ index' = [index EXCEPT ![i] = NoIndex]
     /\ meta' = IF op.ipos = "middle"
                  THEN [meta EXCEPT ![n] = meta[i], ![i] = 0] ELSE meta
     /\ tbl' = CleanRule(tbl)

DeleteClean ==
  /\ op.at = "dma" /\ op.writes = <<>>
  /\ IF op.ipos = "head" THEN CleanIndexHead ELSE CleanIndexEntry
  /\ op' = [at |-> "dead", hdl |-> op.hdl]
  /\ UNCHANGED <<ids, installed, failures>>

\* ipa_nati_del_dead_ipv4_head_nodes: a deleted head is reset when its chain is
\* empty.  The handle is given back.
KeepsDeadHeads(t) == t
WithoutDeadHeads(t) ==
  [e \in TblEntries |->
     IF e < Base /\ t[e].dead /\ t[e].next = 0 THEN NoRule ELSE t[e]]

DeleteDone ==
  /\ op.at = "dead"
  /\ tbl' = WithoutDeadHeads(tbl)
  /\ ids' = [ids EXCEPT ![op.hdl] = 0]
  /\ op' = Idle
  /\ UNCHANGED <<index, meta, installed, failures>>

-----------------------------------------------------------------------------
TableNext ==
  \/ \E r \in ClntRules : AddGenerate(r) \/ AddHangs(r)
  \/ AddCopy \/ AddLink \/ AddIndexCopy \/ AddIndexLink \/ AddEnable
  \/ AddLinkFails \/ AddIndexLinkFails \/ AddEnableFails
  \/ \E h \in RuleHdls : DeleteBegin(h)
  \/ DeleteDma \/ DeleteClean \/ DeleteDone

TableSpec == TableInit /\ [][TableNext]_tableVars

-----------------------------------------------------------------------------
TableTypeOK ==
  /\ tbl \in [TblEntries -> RuleEntry]
  /\ index \in [TblEntries -> IndexEntry]
  /\ meta \in [TblEntries -> Links]
  /\ ids \in [RuleHdls -> {id \in 0 .. 2 * (Base + Expn) :
                             id \div 2 < IF id % 2 = 1 THEN Expn ELSE Base}]
  /\ installed \in [RuleHdls -> ClntRules \cup {Nil}]
  /\ failures \in 0 .. MaxFailures
  /\ op.at \in {"idle", "copy", "link", "icopy", "ilink", "enable", "dma", "dead", "hung"}

Installed == {installed[h] : h \in RuleHdls} \ {Nil}

\* The hardware's lookups: an enabled entry of the chain holds the rule; an index
\* entry of the chain leads to one.
Matches(e, r) == tbl[e].enabled /\ ~ tbl[e].dead /\ tbl[e].rule = r
DstFinds(r) == \E e \in Chain(tbl, DstHash[r]) : Matches(e, r)
SrcFinds(r) == \E i \in Chain(index, SrcHash[r]) :
                 index[i].tbl # 0 /\ Matches(index[i].tbl, r)

\* No step of adding or deleting another rule hides an installed rule from the
\* hardware, in either direction.
RulesFound ==
  failures = 0 => \A r \in Installed : DstFinds(r) /\ SrcFinds(r)

\* Between calls the hardware finds installed rules only, in both directions.
OnlyInstalledFound ==
  failures = 0 /\ op = Idle =>
    \A r \in ClntRules : DstFinds(r) \/ SrcFinds(r) => r \in Installed

\* While a rule is deleted no index entry that the hardware reaches leads to a rule
\* already disabled or marked dead.
IndexLeadsToRule ==
  failures = 0 /\ op.at = "dma" =>
    \A b \in 1 .. Base - 1 : \A i \in Chain(index, b) :
      index[i].tbl # 0 => \E r \in ClntRules : Matches(index[i].tbl, r)

\* Between calls the handles are those of the entries in use, and deleted heads
\* stay for their chain only: no entry of either table is leaked.
NothingLeaked ==
  failures = 0 /\ op = Idle =>
    \A e \in TblEntries :
      /\ tbl[e].enabled =>
           IF tbl[e].dead THEN e < Base /\ tbl[e].next # 0
           ELSE \E h \in RuleHdls :
                  /\ ParseId(ids[h]) = e /\ installed[h] = tbl[e].rule
                  /\ index[tbl[e].indx].tbl = e
      /\ index[e].tbl # 0 => tbl[index[e].tbl].indx = e

\* Between calls prev_index is the inverse of next_index for the entries in use of
\* both tables: a deletion relinks the entry before the deleted one.
PrevIsInverse ==
  failures = 0 /\ op = Idle =>
    \A e \in TblEntries :
      /\ tbl[e].enabled /\ tbl[e].next # 0 => tbl[tbl[e].next].prev = e
      /\ index[e].tbl # 0 /\ index[e].next # 0 => meta[index[e].next] = e

\* Every handle returned is accepted by ipa_nati_parse_ipv4_rule_hdl.
HandlesAccepted ==
  \A h \in RuleHdls : installed[h] # Nil => h < Base + Expn /\ ids[h] # 0

\* "Error: Prev index:%d and next:%d index should not be same"
\* (ipa_nat_drvi.c:1272): no entry is linked to itself.  This does not hold: see
\* README section 5.
NoSelfLink == \A e \in TblEntries : tbl[e].next # e
=============================================================================
