--------------------------- MODULE SyncReqProofs ---------------------------
(***************************************************************************)
(* Safety of the synchronous requests for any number of threads, slots,    *)
(* clients, indications and retries.                                       *)
(***************************************************************************)
EXTENDS SyncReq, TLAPS

\* A slot that points to a thread's buffer describes that thread's request.
SlotDescribesCall ==
  \A s \in Slots, t \in Threads :
    slot[s].ptr = t => /\ slot[s].client = call[t].client
                       /\ slot[s].ind = call[t].ind

\* The inductive invariant.
IInv ==
  /\ TypeOK
  /\ NoWriteAfterReturn
  /\ SlotDescribesCall
  /\ AnswerMatchesRequest
  /\ SlotHasCaller
  /\ InUseFlagExact

\* loc_free_slot keeps the array well typed, points the freed slot nowhere and
\* leaves in_use exact.
LEMMA FreeSlotFacts ==
  ASSUME TypeOK, InUseFlagExact, NEW s \in Slots, FreeSlot(s)
  PROVE  /\ inUse' \in BOOLEAN
         /\ slotInUse' \in [Slots -> BOOLEAN]
         /\ slot' = [slot EXCEPT ![s] = EmptySlot]
         /\ slotInUse' = [slotInUse EXCEPT ![s] = FALSE]
         /\ InUseFlagExact'
<1>1. \A r \in Slots : slotInUse'[r] => slotInUse[r]
  BY DEF FreeSlot, TypeOK
<1>2. slotInUse' = [slotInUse EXCEPT ![s] = FALSE] /\ slotInUse' \in [Slots -> BOOLEAN]
  BY DEF FreeSlot, TypeOK
<1>3. AnyInUse(slotInUse') => AnyInUse(slotInUse)
  BY <1>1 DEF AnyInUse
<1>4. InUseFlagExact' /\ inUse' \in BOOLEAN
  BY <1>3 DEF FreeSlot, FlagAfterFree, InUseFlagExact, TypeOK, AnyInUse
<1> QED
  BY <1>2, <1>4 DEF FreeSlot, Cleared

\* Setting one of its flags keeps a slot record a slot record.
LEMMA FlagType ==
  ASSUME NEW r \in SlotRecords, NEW b \in BOOLEAN
  PROVE  /\ [r EXCEPT !.waiting = b] \in SlotRecords
         /\ [r EXCEPT !.arrived = b] \in SlotRecords
BY DEF SlotRecords

\* The cleared slot is a slot record and points nowhere.
LEMMA EmptySlotType == EmptySlot \in SlotRecords /\ EmptySlot.ptr = None
BY DEF EmptySlot, SlotRecords

\* The invariant holds initially.
LEMMA InitIInv == Init => IInv
<1> SUFFICES ASSUME Init PROVE IInv
  OBVIOUS
<1>1. slot \in [Slots -> SlotRecords] /\ \A s \in Slots : slot[s].ptr = None
  BY EmptySlotType DEF Init
<1>2. sel \in [Threads -> Slots] /\ retry \in [Threads -> 0 .. MaxRetry]
  BY SyncReqAssumption DEF Init, Slots
<1>3. got \in [Threads -> Answers \cup {None}] /\ pc \in [Threads -> PCs]
  BY DEF Init, PCs
<1>4. TypeOK
  BY <1>1, <1>2, <1>3 DEF Init, TypeOK, Statuses
<1>5. None \notin Threads
  BY SyncReqAssumption
<1> QED
  BY <1>1, <1>4, <1>5
     DEF Init, IInv, NoWriteAfterReturn, SlotDescribesCall,
         AnswerMatchesRequest, SlotHasCaller, InUseFlagExact, AnyInUse
-----------------------------------------------------------------------------
\* Steps that move one thread between two places of a call and leave the array,
\* the buffers and every call's arguments alone keep the invariant.
LEMMA LocalStep ==
  ASSUME IInv, NEW t \in Threads, NEW p \in PCs \ {"idle", "select"}, Owning(t),
         pc' = [pc EXCEPT ![t] = p],
         retry' \in [Threads -> 0 .. MaxRetry], status' \in [Threads -> Statuses],
         UNCHANGED <<inUse, slotInUse, slot, sel, call, got>>
  PROVE  IInv'
<1> USE DEF IInv
<1>1. TypeOK'
  BY DEF TypeOK
<1>2. \A u \in Threads : Owning(u)' <=> Owning(u)
  BY DEF Owning, TypeOK
<1>3. \A u \in Threads : pc'[u] # "idle" <=> pc[u] # "idle"
  BY DEF Owning, TypeOK
<1>4. NoWriteAfterReturn' /\ SlotHasCaller'
  BY <1>2, <1>3 DEF NoWriteAfterReturn, SlotHasCaller
<1> QED
  BY <1>1, <1>4
     DEF SlotDescribesCall, AnswerMatchesRequest, InUseFlagExact, AnyInUse

\* What a failed attempt does to the caller's own variables.
LEMMA AttemptFacts ==
  ASSUME TypeOK, NEW t \in Threads, NEW st \in Statuses, AttemptEnds(t, st)
  PROVE  /\ retry' \in [Threads -> 0 .. MaxRetry]
         /\ status' \in [Threads -> Statuses]
         /\ \E p \in {"send", "idle", "freeOuter"} :
              /\ pc' = [pc EXCEPT ![t] = p]
              /\ p = "idle" => st = "SUCCESS"
<1>1. status' \in [Threads -> Statuses]
  BY DEF AttemptEnds, TypeOK
<1>2. CASE st = "INTERNAL" /\ retry[t] > 0
  <2>1. retry[t] - 1 \in 0 .. MaxRetry
    BY <1>2, SyncReqAssumption DEF TypeOK
  <2>2. retry' \in [Threads -> 0 .. MaxRetry]
    BY <1>2, <2>1 DEF AttemptEnds, RetryLeft, TypeOK
  <2> QED
    BY <1>1, <1>2, <2>2 DEF AttemptEnds
<1>3. CASE ~(st = "INTERNAL" /\ retry[t] > 0)
  BY <1>1, <1>3 DEF AttemptEnds, TypeOK
<1> QED
  BY <1>2, <1>3

LEMMA SendStep ==
  ASSUME IInv, NEW t \in Threads, SendAccepted(t) \/ SendRefused(t)
  PROVE  IInv'
<1>1. Owning(t) /\ TypeOK
  BY DEF SendAccepted, SendRefused, Owning, IInv
<1>2. CASE SendAccepted(t)
  <2>1. status' \in [Threads -> Statuses] /\ retry' \in [Threads -> 0 .. MaxRetry]
    BY <1>1, <1>2 DEF SendAccepted, TypeOK, Statuses
  <2> QED
    BY <1>1, <1>2, <2>1, LocalStep, "check" \in PCs DEF SendAccepted, PCs, arrayVars
<1>3. CASE SendRefused(t)
  <2>1. PICK st \in {"INTERNAL", "FAILED"} : AttemptEnds(t, st)
    BY <1>3 DEF SendRefused
  <2>2. PICK p \in {"send", "idle", "freeOuter"} :
          /\ pc' = [pc EXCEPT ![t] = p]
          /\ p = "idle" => st = "SUCCESS"
    BY <1>1, <2>1, AttemptFacts DEF Statuses
  <2>3. retry' \in [Threads -> 0 .. MaxRetry] /\ status' \in [Threads -> Statuses]
    BY <1>1, <2>1, AttemptFacts DEF Statuses
  <2>4. p \in PCs \ {"idle", "select"}
    BY <2>2 DEF PCs
  <2> QED
    BY <1>1, <1>3, <2>2, <2>3, <2>4, LocalStep DEF SendRefused, arrayVars
<1> QED
  BY <1>2, <1>3

LEMMA CheckStep ==
  ASSUME IInv, NEW t \in Threads, CheckSlot(t)
  PROVE  IInv'
<1>1. Owning(t) /\ TypeOK
  BY DEF CheckSlot, Owning, IInv
<1>2. CASE slotInUse[sel[t]]
  <2>1. retry' \in [Threads -> 0 .. MaxRetry] /\ status' \in [Threads -> Statuses]
    BY <1>1, <1>2 DEF CheckSlot, TypeOK
  <2> QED
    BY <1>1, <1>2, <2>1, LocalStep DEF CheckSlot, arrayVars, PCs
<1>3. CASE ~slotInUse[sel[t]]
  <2>1. AttemptEnds(t, "INTERNAL") /\ "INTERNAL" \in Statuses
    BY <1>3 DEF CheckSlot, Statuses
  <2>2. PICK p \in {"send", "idle", "freeOuter"} :
          /\ pc' = [pc EXCEPT ![t] = p]
          /\ p = "idle" => "INTERNAL" = "SUCCESS"
    BY <1>1, <2>1, AttemptFacts
  <2>3. retry' \in [Threads -> 0 .. MaxRetry] /\ status' \in [Threads -> Statuses]
    BY <1>1, <2>1, AttemptFacts
  <2>4. p \in PCs \ {"idle", "select"}
    BY <2>2 DEF PCs
  <2> QED
    BY <1>1, <2>2, <2>3, <2>4, LocalStep DEF CheckSlot, arrayVars
<1> QED
  BY <1>2, <1>3

LEMMA WaitEndsStep ==
  ASSUME IInv, NEW t \in Threads, WaitEnds(t)
  PROVE  IInv'
<1>1. Owning(t) /\ TypeOK
  BY DEF WaitEnds, Owning, IInv
<1>2. PICK p \in {"timedout", "signalled"} : pc' = [pc EXCEPT ![t] = p]
  BY DEF WaitEnds
<1>3. p \in PCs \ {"idle", "select"}
  BY DEF PCs
<1> QED
  BY <1>1, <1>2, <1>3, LocalStep DEF WaitEnds, arrayVars, TypeOK
-----------------------------------------------------------------------------
\* Steps that change only the waiting and arrived flags of slots, the payload
\* buffers aside, and move threads about inside their calls.
LEMMA FlagStep ==
  ASSUME IInv,
         slot' \in [Slots -> SlotRecords], pc' \in [Threads -> PCs],
         status' \in [Threads -> Statuses],
         \A s \in Slots : /\ slot'[s].ptr = slot[s].ptr
                          /\ slot'[s].client = slot[s].client
                          /\ slot'[s].ind = slot[s].ind,
         \A u \in Threads : /\ Owning(u)' <=> Owning(u)
                            /\ pc'[u] # "idle" <=> pc[u] # "idle",
         UNCHANGED <<slotInUse, sel, call, retry>>,
         inUse' \in BOOLEAN, InUseFlagExact',
         got' \in [Threads -> Answers \cup {None}], AnswerMatchesRequest'
  PROVE  IInv'
<1> USE DEF IInv
<1>1. TypeOK'
  BY DEF TypeOK
<1>2. NoWriteAfterReturn'
  BY DEF NoWriteAfterReturn
<1>3. SlotDescribesCall'
  BY DEF SlotDescribesCall
<1>4. SlotHasCaller'
  BY DEF SlotHasCaller
<1> QED
  BY <1>1, <1>2, <1>3, <1>4

LEMMA EnterWaitStep ==
  ASSUME IInv, NEW t \in Threads, EnterWait(t)
  PROVE  IInv'
<1> DEFINE s == sel[t]
<1>1. TypeOK /\ Owning(t) /\ s \in Slots
  BY DEF EnterWait, Owning, IInv, TypeOK
<1>2. PICK p \in {"freeInner", "blocked"} : pc' = [pc EXCEPT ![t] = p]
  BY DEF EnterWait
<1>3. status' \in [Threads -> Statuses]
  BY <1>1 DEF EnterWait, TypeOK, Statuses
<1>4. slot' = slot \/ slot' = [slot EXCEPT ![s].waiting = TRUE]
  BY DEF EnterWait
<1>5. slot' \in [Slots -> SlotRecords]
  <2>1. [slot[s] EXCEPT !.waiting = TRUE] \in SlotRecords
    BY <1>1, FlagType DEF TypeOK
  <2> QED
    BY <1>1, <1>4, <2>1 DEF TypeOK
<1>6. \A r \in Slots : /\ slot'[r].ptr = slot[r].ptr
                       /\ slot'[r].client = slot[r].client
                       /\ slot'[r].ind = slot[r].ind
  BY <1>1, <1>4 DEF TypeOK, SlotRecords
<1>7. pc' \in [Threads -> PCs]
  BY <1>1, <1>2 DEF TypeOK, PCs
<1>8. \A u \in Threads : /\ Owning(u)' <=> Owning(u)
                         /\ pc'[u] # "idle" <=> pc[u] # "idle"
  BY <1>1, <1>2 DEF TypeOK, Owning
<1>9. InUseFlagExact' /\ AnswerMatchesRequest'
  BY DEF IInv, EnterWait, InUseFlagExact, AnswerMatchesRequest, AnyInUse
<1> QED
  BY <1>1, <1>3, <1>5, <1>6, <1>7, <1>8, <1>9, FlagStep DEF EnterWait, TypeOK

LEMMA ResumeStep ==
  ASSUME IInv, NEW t \in Threads, Resume(t)
  PROVE  IInv'
<1> DEFINE s == sel[t]
<1>1. TypeOK /\ Owning(t) /\ s \in Slots
  BY DEF Resume, Owning, IInv, TypeOK
<1>2. pc' = [pc EXCEPT ![t] = "freeInner"]
  BY DEF Resume
<1>3. status' \in [Threads -> Statuses]
  BY <1>1 DEF Resume, TypeOK, Statuses
<1>5. slot' \in [Slots -> SlotRecords]
  <2>1. [slot[s] EXCEPT !.waiting = FALSE] \in SlotRecords
    BY <1>1, FlagType DEF TypeOK
  <2> QED
    BY <1>1, <2>1 DEF Resume, TypeOK
<1>6. \A r \in Slots : /\ slot'[r].ptr = slot[r].ptr
                       /\ slot'[r].client = slot[r].client
                       /\ slot'[r].ind = slot[r].ind
  BY <1>1 DEF Resume, TypeOK, SlotRecords
<1>7. pc' \in [Threads -> PCs]
  BY <1>1, <1>2 DEF TypeOK, PCs
<1>8. \A u \in Threads : /\ Owning(u)' <=> Owning(u)
                         /\ pc'[u] # "idle" <=> pc[u] # "idle"
  BY <1>1, <1>2 DEF TypeOK, Owning
<1>9. InUseFlagExact' /\ AnswerMatchesRequest'
  BY DEF IInv, Resume, InUseFlagExact, AnswerMatchesRequest, AnyInUse
<1> QED
  BY <1>1, <1>3, <1>5, <1>6, <1>7, <1>8, <1>9, FlagStep DEF Resume, TypeOK

\* The callback thread writes an answer only through a slot's pointer, and the
\* slot it goes through describes the request of the buffer's owner.
LEMMA ProcessIndStep ==
  ASSUME IInv, NEW c \in Clients, NEW i \in IndIds, ProcessInd(c, i)
  PROVE  IInv'
<1>1. TypeOK
  BY DEF IInv
<1>2. PICK woken \in SUBSET {t \in Threads : pc[t] = "blocked"} :
         pc' = [t \in Threads |-> IF t \in woken THEN "signalled" ELSE pc[t]]
  BY DEF ProcessInd
<1>3. slot' \in [Slots -> SlotRecords]
  <2>1. \A s \in Slots : [slot[s] EXCEPT !.arrived = TRUE] \in SlotRecords
    BY <1>1, FlagType DEF TypeOK
  <2> QED
    BY <1>1, <2>1 DEF ProcessInd, TypeOK
<1>4. \A s \in Slots : /\ slot'[s].ptr = slot[s].ptr
                       /\ slot'[s].client = slot[s].client
                       /\ slot'[s].ind = slot[s].ind
  BY <1>1 DEF ProcessInd, TypeOK, SlotRecords
<1>5. pc' \in [Threads -> PCs]
  BY <1>1, <1>2 DEF TypeOK, PCs
<1>6. \A u \in Threads : /\ Owning(u)' <=> Owning(u)
                         /\ pc'[u] # "idle" <=> pc[u] # "idle"
  BY <1>1, <1>2 DEF TypeOK, Owning
<1>7. got' \in [Threads -> Answers \cup {None}]
  BY <1>1 DEF ProcessInd, TypeOK, Answers
<1>8. AnswerMatchesRequest'
  <2> SUFFICES ASSUME NEW t \in Threads, got'[t] # None
               PROVE  got'[t] = <<call[t].client, call[t].ind>>
    BY DEF AnswerMatchesRequest, ProcessInd
  <2>1. CASE \E s \in Hits(c, i) : slot[s].ptr = t
    <3>1. PICK s \in Slots : Matches(s, c, i) /\ slot[s].ptr = t
      BY <2>1 DEF Hits
    <3>2. slot[s].client = c /\ slot[s].ind = i
      BY <3>1 DEF Matches
    <3> QED
      BY <2>1, <3>1, <3>2 DEF ProcessInd, IInv, SlotDescribesCall
  <2>2. CASE ~ \E s \in Hits(c, i) : slot[s].ptr = t
    BY <2>2, <1>1 DEF ProcessInd, IInv, AnswerMatchesRequest, TypeOK
  <2> QED
    BY <2>1, <2>2
<1>9. InUseFlagExact' /\ inUse' \in BOOLEAN
  BY DEF ProcessInd, InUseFlagExact, AnyInUse
<1> QED
  BY <1>1, <1>3, <1>4, <1>5, <1>6, <1>7, <1>8, <1>9, FlagStep
     DEF ProcessInd, TypeOK
-----------------------------------------------------------------------------
\* A call starts with no slot pointing to its thread, so taking a slot or
\* finding none leaves every pointer with a call in progress.
LEMMA CallStep ==
  ASSUME IInv, NEW t \in Threads, NEW c \in Calls, Call(t, c) \/ CallNoSlot(t, c)
  PROVE  IInv'
<1>1. TypeOK /\ pc[t] = "idle" /\ \A s \in Slots : slot[s].ptr # t
  BY DEF Call, CallNoSlot, IInv, NoWriteAfterReturn, Owning
<1>2. call' = [call EXCEPT ![t] = c] /\ got' = [got EXCEPT ![t] = None]
  BY DEF Call, CallNoSlot
<1>3. AnswerMatchesRequest'
  BY <1>1, <1>2 DEF IInv, AnswerMatchesRequest, TypeOK
<1>4. SlotDescribesCall'
  BY <1>1, <1>2 DEF Call, CallNoSlot, arrayVars, IInv, SlotDescribesCall, TypeOK
<1>5. \A u \in Threads : u # t => (Owning(u)' <=> Owning(u))
  BY <1>1 DEF Call, CallNoSlot, Owning, TypeOK
<1>6. status' \in [Threads -> Statuses] /\ got' \in [Threads -> Answers \cup {None}]
      /\ call' \in [Threads -> Calls]
  BY <1>1, <1>2 DEF Call, CallNoSlot, TypeOK, Statuses
<1>7. CASE Call(t, c)
  <2>1. PICK s \in Slots : /\ slotInUse' = [slotInUse EXCEPT ![s] = TRUE]
                           /\ sel' = [sel EXCEPT ![t] = s]
    BY <1>7 DEF Call
  <2>2. retry' \in [Threads -> 0 .. MaxRetry]
    BY <1>1, <1>7, SyncReqAssumption DEF Call, TypeOK
  <2>3. TypeOK'
    BY <1>1, <1>6, <1>7, <2>1, <2>2 DEF Call, TypeOK, PCs
  <2>4. NoWriteAfterReturn'
    BY <1>1, <1>5, <1>7, <2>1 DEF Call, IInv, NoWriteAfterReturn, TypeOK
  <2>5. SlotHasCaller'
    <3> SUFFICES ASSUME NEW r \in Slots, slotInUse'[r]
                 PROVE  \E u \in Threads : pc'[u] # "idle" /\ sel'[u] = r
      BY DEF SlotHasCaller
    <3>1. CASE r = s
      BY <1>1, <1>7, <2>1, <3>1 DEF Call, TypeOK
    <3>2. CASE r # s
      <4>1. PICK u \in Threads : pc[u] # "idle" /\ sel[u] = r
        BY <1>1, <2>1, <3>2 DEF IInv, SlotHasCaller, TypeOK
      <4> QED
        BY <1>1, <1>7, <2>1, <4>1 DEF Call, TypeOK
    <3> QED
      BY <3>1, <3>2
  <2>6. InUseFlagExact'
    BY <1>1, <1>7, <2>1 DEF Call, InUseFlagExact, AnyInUse, TypeOK
  <2> QED
    BY <1>3, <1>4, <2>3, <2>4, <2>5, <2>6 DEF IInv
<1>8. CASE CallNoSlot(t, c)
  <2>1. TypeOK'
    BY <1>1, <1>6, <1>8 DEF CallNoSlot, arrayVars, TypeOK
  <2>2. NoWriteAfterReturn' /\ SlotHasCaller' /\ InUseFlagExact'
    BY <1>8 DEF CallNoSlot, arrayVars, IInv, NoWriteAfterReturn, Owning,
                SlotHasCaller, InUseFlagExact, AnyInUse
  <2> QED
    BY <1>3, <1>4, <2>1, <2>2 DEF IInv
<1> QED
  BY <1>7, <1>8

\* Writing a slot takes it from whoever it pointed to and gives it to t.
LEMMA SelectStep ==
  ASSUME IInv, NEW t \in Threads, Select(t)
  PROVE  IInv'
<1> DEFINE s == sel[t]
           d == [client |-> call[t].client, ind |-> call[t].ind,
                 waiting |-> FALSE, arrived |-> FALSE,
                 ptr |-> IF call[t].buf THEN t ELSE None]
<1>1. TypeOK /\ s \in Slots /\ call[t] \in Calls
      /\ \A r \in Slots : slot[r].ptr # t
  BY DEF Select, IInv, TypeOK, NoWriteAfterReturn, Owning
<1>2. d \in SlotRecords
  BY <1>1 DEF SlotRecords, Calls
<1>3. slot' = [slot EXCEPT ![s] = d] /\ pc' = [pc EXCEPT ![t] = "send"]
  BY DEF Select
<1>4. TypeOK'
  <2>1. UNCHANGED <<inUse, slotInUse, sel, call, retry, status, got>>
    BY DEF Select
  <2> HIDE DEF d
  <2>2. slot' \in [Slots -> SlotRecords] /\ pc' \in [Threads -> PCs]
    BY <1>1, <1>2, <1>3 DEF TypeOK, PCs
  <2> QED
    BY <1>1, <2>1, <2>2 DEF TypeOK
<1>5. \A r \in Slots, u \in Threads :
         slot'[r].ptr = u => \/ u = t /\ r = s
                             \/ u # t /\ r # s /\ slot[r].ptr = u
  BY <1>1, <1>3, SyncReqAssumption DEF TypeOK
<1>6. \A u \in Threads : /\ Owning(u) => Owning(u)'
                         /\ pc'[u] # "idle" <=> pc[u] # "idle"
  BY <1>1, <1>3 DEF Select, Owning, TypeOK
<1>7. Owning(t)'
  BY <1>1, <1>3 DEF Owning, TypeOK
<1>8. NoWriteAfterReturn'
  BY <1>5, <1>6, <1>7 DEF Select, IInv, NoWriteAfterReturn
<1>9. slot'[s].client = call[t].client /\ slot'[s].ind = call[t].ind
  BY <1>1, <1>3 DEF TypeOK
<1>10. \A r \in Slots : r # s => slot'[r] = slot[r]
  BY <1>1, <1>3 DEF TypeOK
<1>11. SlotDescribesCall'
  <2> HIDE DEF d
  <2> SUFFICES ASSUME NEW r \in Slots, NEW u \in Threads, slot'[r].ptr = u
               PROVE  slot'[r].client = call[u].client /\ slot'[r].ind = call[u].ind
    BY DEF SlotDescribesCall, Select
  <2>1. CASE u = t /\ r = s
    BY <1>9, <2>1
  <2>2. CASE u # t /\ r # s /\ slot[r].ptr = u
    BY <1>10, <2>2 DEF IInv, SlotDescribesCall
  <2> QED
    BY <1>5, <2>1, <2>2
<1>12. SlotHasCaller' /\ AnswerMatchesRequest' /\ InUseFlagExact'
  BY <1>6 DEF Select, IInv, SlotHasCaller, AnswerMatchesRequest,
              InUseFlagExact, AnyInUse
<1> QED
  BY <1>4, <1>8, <1>11, <1>12 DEF IInv

\* Freeing the slot of a call that owns it, whatever place the call moves to:
\* the only slot that could point to the thread's buffer points nowhere now,
\* and the only slot the thread accounted for is free.
LEMMA FreeStep ==
  ASSUME IInv, NEW t \in Threads, NEW p \in PCs \ {"select"}, Owning(t),
         FreeSlot(sel[t]), pc' = [pc EXCEPT ![t] = p],
         retry' \in [Threads -> 0 .. MaxRetry], status' \in [Threads -> Statuses],
         UNCHANGED <<sel, call, got>>
  PROVE  IInv'
<1> DEFINE s == sel[t]
<1>1. TypeOK /\ InUseFlagExact /\ s \in Slots
  BY DEF IInv, TypeOK
<1>2. /\ inUse' \in BOOLEAN
      /\ slotInUse' \in [Slots -> BOOLEAN]
      /\ slot' = [slot EXCEPT ![s] = EmptySlot]
      /\ slotInUse' = [slotInUse EXCEPT ![s] = FALSE]
      /\ InUseFlagExact'
  BY <1>1, FreeSlotFacts
<1>3. TypeOK'
  BY <1>1, <1>2, EmptySlotType DEF TypeOK
<1>4. \A r \in Slots : /\ r # s => slot'[r] = slot[r] /\ slotInUse'[r] = slotInUse[r]
                       /\ r = s => slot'[r].ptr = None /\ ~slotInUse'[r]
  BY <1>1, <1>2, EmptySlotType DEF TypeOK
<1>5. \A u \in Threads : u # t => pc'[u] = pc[u]
  BY <1>1 DEF TypeOK
<1>6. NoWriteAfterReturn'
  BY <1>4, <1>5, SyncReqAssumption DEF IInv, NoWriteAfterReturn, Owning
<1>7. SlotDescribesCall'
  BY <1>4, SyncReqAssumption DEF IInv, SlotDescribesCall
<1>8. SlotHasCaller'
  BY <1>4, <1>5 DEF IInv, SlotHasCaller
<1> QED
  BY <1>2, <1>3, <1>6, <1>7, <1>8 DEF IInv, AnswerMatchesRequest

LEMMA FreeInnerStep ==
  ASSUME IInv, NEW t \in Threads, FreeInner(t)
  PROVE  IInv'
<1>1. TypeOK /\ Owning(t) /\ status[t] \in Statuses /\ AttemptEnds(t, status[t])
  BY DEF FreeInner, Owning, IInv, TypeOK
<1>2. retry' \in [Threads -> 0 .. MaxRetry] /\ status' \in [Threads -> Statuses]
  BY <1>1, AttemptFacts
<1>3. PICK p \in {"send", "idle", "freeOuter"} : pc' = [pc EXCEPT ![t] = p]
  BY <1>1, AttemptFacts
<1>4. p \in PCs \ {"select"}
  BY DEF PCs
<1> QED
  BY <1>1, <1>2, <1>3, <1>4, FreeStep DEF FreeInner

LEMMA FreeOuterStep ==
  ASSUME IInv, NEW t \in Threads, FreeOuter(t)
  PROVE  IInv'
<1>1. TypeOK /\ Owning(t) /\ FreeSlot(sel[t])
  BY DEF FreeOuter, FreesOnFailure, Owning, IInv
<1>2. "idle" \in PCs \ {"select"}
  BY DEF PCs
<1> QED
  BY <1>1, <1>2, FreeStep DEF FreeOuter, TypeOK
-----------------------------------------------------------------------------
\* Every step keeps the invariant.
LEMMA NextStep == IInv /\ [Next]_vars => IInv'
<1> SUFFICES ASSUME IInv, [Next]_vars PROVE IInv'
  OBVIOUS
<1>1. ASSUME NEW t \in Threads, NEW c \in Calls, Call(t, c) \/ CallNoSlot(t, c)
      PROVE  IInv'
  BY <1>1, CallStep
<1>2. ASSUME NEW t \in Threads, ThreadStep(t) PROVE IInv'
  BY <1>2, SelectStep, SendStep, CheckStep, EnterWaitStep, WaitEndsStep,
     ResumeStep, FreeInnerStep, FreeOuterStep DEF ThreadStep
<1>3. ASSUME NEW c \in Clients, NEW i \in IndIds, ProcessInd(c, i) PROVE IInv'
  BY <1>3, ProcessIndStep
<1>4. CASE UNCHANGED vars
  BY <1>4 DEF vars, IInv, TypeOK, NoWriteAfterReturn, Owning, SlotDescribesCall,
              AnswerMatchesRequest, SlotHasCaller, InUseFlagExact, AnyInUse
<1> QED
  BY <1>1, <1>2, <1>3, <1>4 DEF Next

\* The invariant holds in every reachable state.
THEOREM Invariance == Spec => []IInv
BY InitIInv, NextStep, PTL DEF Spec

\* The array, the slots and the callers' variables keep their types.
THEOREM TypeCorrect == Spec => []TypeOK
<1>1. IInv => TypeOK
  BY DEF IInv
<1> QED
  BY <1>1, Invariance, PTL

\* loc_sync_process_ind never writes into the buffer of a call that returned.
THEOREM NoLateWrite == Spec => []NoWriteAfterReturn
<1>1. IInv => NoWriteAfterReturn
  BY DEF IInv
<1> QED
  BY <1>1, Invariance, PTL

\* What is copied into a caller's buffer answers the caller's own request.
THEOREM NoCrossTalk == Spec => []AnswerMatchesRequest
<1>1. IInv => AnswerMatchesRequest
  BY DEF IInv
<1> QED
  BY <1>1, Invariance, PTL

\* No slot is leaked and the global in_use flag is exact.
THEOREM NoSlotLeak == Spec => [](SlotHasCaller /\ InUseFlagExact)
<1>1. IInv => SlotHasCaller /\ InUseFlagExact
  BY DEF IInv
<1> QED
  BY <1>1, Invariance, PTL
=============================================================================
