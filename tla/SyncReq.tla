------------------------------ MODULE SyncReq ------------------------------
(***************************************************************************)
(* Synchronous QMI requests of the location API, version 2:                *)
(* gps/loc_api/loc_api_v02/loc_api_sync_req.c.                             *)
(*                                                                         *)
(* A caller of loc_sync_send_req allocates one of NumSlots slots, writes   *)
(* into it which indication it waits for and where the payload goes, sends *)
(* the request and waits on the slot's condition variable.  The QMI        *)
(* callback thread runs loc_sync_process_ind for every indication.         *)
(*                                                                         *)
(* A step is a region executed under a mutex (loc_sync_call_mutex, or the  *)
(* slot's sync_req_lock), an unlocked read of shared state, or a call of   *)
(* the modem.  loc_sync_process_ind holds loc_sync_call_mutex across its   *)
(* whole scan and is one step: the slot locks it takes in turn are never   *)
(* held by a thread that needs loc_sync_call_mutex.                        *)
(***************************************************************************)
EXTENDS Integers

CONSTANTS
  Threads,     \* threads that call loc_sync_send_req
  Clients,     \* QMI client handles
  IndIds,      \* ids of response indications
  NumSlots,    \* LOC_SYNC_REQ_BUFFER_SIZE
  MaxRetry,    \* initial sendReqRetryRem
  None         \* NULL, LOC_CLIENT_INVALID_HANDLE_VALUE, id 0

ASSUME SyncReqAssumption ==
  /\ NumSlots \in Nat \ {0}
  /\ MaxRetry \in Nat
  /\ None \notin Threads \cup Clients \cup IndIds \cup (Clients \X IndIds)

Slots == 0 .. NumSlots - 1

VARIABLES
  inUse,       \* loc_sync_array.in_use
  slotInUse,   \* loc_sync_array.slot_in_use
  slot,        \* loc_sync_array.slots
  pc,          \* where each thread is in loc_sync_send_req
  sel,         \* its select_id
  call,        \* its arguments: client handle, ind id, payload buffer or not
  retry,       \* its sendReqRetryRem
  status,      \* its status, or what the last call returned
  got          \* what its payload buffer holds: the answer that was copied

vars == <<inUse, slotInUse, slot, pc, sel, call, retry, status, got>>
arrayVars == <<inUse, slotInUse, slot>>

EmptySlot == [client |-> None, ind |-> None, waiting |-> FALSE,
              arrived |-> FALSE, ptr |-> None]

SlotRecords == [client : Clients \cup {None}, ind : IndIds \cup {None},
                waiting : BOOLEAN, arrived : BOOLEAN, ptr : Threads \cup {None}]

Calls == [client : Clients, ind : IndIds, buf : BOOLEAN]

Answers == Clients \X IndIds

\* Statuses: INTERNAL stands for the three the loop retries (ENGINE_BUSY,
\* PHONE_OFFLINE, INTERNAL), FAILED for the ones it does not.
Statuses == {"SUCCESS", "INTERNAL", "FAILED", "TIMEOUT"}

PCs == {"idle", "select", "send", "check", "enter", "blocked", "signalled",
        "timedout", "freeInner", "freeOuter"}

TypeOK ==
  /\ inUse \in BOOLEAN
  /\ slotInUse \in [Slots -> BOOLEAN]
  /\ slot \in [Slots -> SlotRecords]
  /\ pc \in [Threads -> PCs]
  /\ sel \in [Threads -> Slots]
  /\ call \in [Threads -> Calls]
  /\ retry \in [Threads -> 0 .. MaxRetry]
  /\ status \in [Threads -> Statuses]
  /\ got \in [Threads -> Answers \cup {None}]

-----------------------------------------------------------------------------
\* loc_sync_req_init; no call has been made (status is that of no call yet).
Init ==
  /\ inUse = FALSE
  /\ slotInUse = [s \in Slots |-> FALSE]
  /\ slot = [s \in Slots |-> EmptySlot]
  /\ pc = [t \in Threads |-> "idle"]
  /\ sel = [t \in Threads |-> 0]
  /\ call \in [Threads -> Calls]
  /\ retry = [t \in Threads |-> MaxRetry]
  /\ status = [t \in Threads |-> "FAILED"]
  /\ got = [t \in Threads |-> None]

\* What loc_free_slot leaves in a slot.
KeepsPointer(r) == [EmptySlot EXCEPT !.ptr = r.ptr]
Cleared(r) == EmptySlot

AnyInUse(f) == \E s \in Slots : f[s]

\* in_use once loc_free_slot left the flags of the slots as they are in f.
FlagAfterFree(f) == IF AnyInUse(f) THEN inUse ELSE FALSE

\* loc_free_slot: whoever the slot belongs to now, under the global mutex only.
FreeSlot(s) ==
  /\ slotInUse' = [slotInUse EXCEPT ![s] = FALSE]
  /\ slot' = [slot EXCEPT ![s] = Cleared(slot[s])]
  /\ inUse' = FlagAfterFree(slotInUse')

\* The slot loc_alloc_slot picks: the free one of lowest index.
IsLowestFree(s) ==
  /\ ~slotInUse[s]
  /\ \A r \in Slots : r < s => slotInUse[r]

\* Entry of loc_sync_send_req and loc_alloc_slot.
Call(t, c) ==
  /\ pc[t] = "idle"
  /\ call' = [call EXCEPT ![t] = c]
  /\ got' = [got EXCEPT ![t] = None]
  /\ retry' = [retry EXCEPT ![t] = MaxRetry]
  /\ status' = [status EXCEPT ![t] = "SUCCESS"]
  /\ \E s \in Slots :
       /\ IsLowestFree(s)
       /\ slotInUse' = [slotInUse EXCEPT ![s] = TRUE]
       /\ sel' = [sel EXCEPT ![t] = s]
  /\ inUse' = TRUE
  /\ pc' = [pc EXCEPT ![t] = "select"]
  /\ UNCHANGED slot

\* No slot is free: loc_sync_select_ind returns -ENOMEM, the body of
\* "if (select_id >= 0)" is skipped and the initial status is returned.
CallNoSlot(t, c) ==
  /\ pc[t] = "idle"
  /\ \A s \in Slots : slotInUse[s]
  /\ call' = [call EXCEPT ![t] = c]
  /\ got' = [got EXCEPT ![t] = None]
  /\ status' = [status EXCEPT ![t] = "SUCCESS"]
  /\ UNCHANGED <<arrayVars, pc, sel, retry>>

\* loc_sync_select_ind after the allocation, under the slot lock.
Select(t) ==
  /\ pc[t] = "select"
  /\ slot' = [slot EXCEPT ![sel[t]] =
                [client |-> call[t].client, ind |-> call[t].ind,
                 waiting |-> FALSE, arrived |-> FALSE,
                 ptr |-> IF call[t].buf THEN t ELSE None]]
  /\ pc' = [pc EXCEPT ![t] = "send"]
  /\ UNCHANGED <<inUse, slotInUse, sel, call, retry, status, got>>

\* The sendReqRetryRem left when the loop goes round once more.
Unlimited(n) == n
RetryLeft(n) == n - 1

\* End of an attempt with status st: the condition of the do-while loop, then
\* loc_free_slot for every status but SUCCESS.
AttemptEnds(t, st) ==
  /\ status' = [status EXCEPT ![t] = st]
  /\ IF st = "INTERNAL" /\ retry[t] > 0
       THEN /\ retry' = [retry EXCEPT ![t] = RetryLeft(@)]
            /\ pc' = [pc EXCEPT ![t] = "send"]
       ELSE /\ pc' = [pc EXCEPT ![t] = IF st = "SUCCESS" THEN "idle"
                                                         ELSE "freeOuter"]
            /\ UNCHANGED retry

\* locClientSendReq (a synchronous QMI message, answered or not).
SendAccepted(t) ==
  /\ pc[t] = "send"
  /\ status' = [status EXCEPT ![t] = "SUCCESS"]
  /\ pc' = [pc EXCEPT ![t] = "check"]
  /\ UNCHANGED <<arrayVars, sel, call, retry, got>>

SendRefused(t) ==
  /\ pc[t] = "send"
  /\ \E st \in {"INTERNAL", "FAILED"} : AttemptEnds(t, st)
  /\ UNCHANGED <<arrayVars, sel, call, got>>

\* loc_sync_wait_for_ind: the test of slot_in_use, made without a lock.
CheckSlot(t) ==
  /\ pc[t] = "check"
  /\ IF slotInUse[sel[t]]
       THEN pc' = [pc EXCEPT ![t] = "enter"] /\ UNCHANGED <<retry, status>>
       ELSE AttemptEnds(t, "INTERNAL")                      \* -EINVAL
  /\ UNCHANGED <<arrayVars, sel, call, got>>

\* loc_sync_wait_for_ind under the slot lock, up to pthread_cond_timedwait.
EnterWait(t) ==
  /\ pc[t] = "enter"
  /\ LET s == sel[t] IN
       \/ /\ slot[s].arrived
          /\ pc' = [pc EXCEPT ![t] = "freeInner"]
          /\ UNCHANGED <<slot, status>>
       \/ /\ ~slot[s].arrived /\ slot[s].waiting            \* -EBUSY
          /\ status' = [status EXCEPT ![t] = "INTERNAL"]
          /\ pc' = [pc EXCEPT ![t] = "freeInner"]
          /\ UNCHANGED slot
       \/ /\ ~slot[s].arrived /\ ~slot[s].waiting
          /\ slot' = [slot EXCEPT ![s].waiting = TRUE]
          /\ pc' = [pc EXCEPT ![t] = "blocked"]
          /\ UNCHANGED status
  /\ UNCHANGED <<inUse, slotInUse, sel, call, retry, got>>

\* The wait ends without a signal: the time is up, or the condition variable
\* wakes spuriously (no loop around the wait tells the two from a signal).
WaitEnds(t) ==
  /\ pc[t] = "blocked"
  /\ \E p \in {"timedout", "signalled"} : pc' = [pc EXCEPT ![t] = p]
  /\ UNCHANGED <<arrayVars, sel, call, retry, status, got>>

\* pthread_cond_timedwait returns with the slot lock held.
Resume(t) ==
  /\ pc[t] \in {"signalled", "timedout"}
  /\ slot' = [slot EXCEPT ![sel[t]].waiting = FALSE]
  /\ status' = [status EXCEPT ![t] = IF pc[t] = "timedout" THEN "TIMEOUT"
                                                            ELSE "SUCCESS"]
  /\ pc' = [pc EXCEPT ![t] = "freeInner"]
  /\ UNCHANGED <<inUse, slotInUse, sel, call, retry, got>>

\* loc_free_slot at the end of loc_sync_wait_for_ind, whatever the outcome.
FreeInner(t) ==
  /\ pc[t] = "freeInner"
  /\ FreeSlot(sel[t])
  /\ AttemptEnds(t, status[t])
  /\ UNCHANGED <<sel, call, got>>

\* loc_free_slot at the end of loc_sync_send_req, for every failure.
LeaksOnFailure(t) == UNCHANGED arrayVars
FreesOnFailure(t) == FreeSlot(sel[t])

FreeOuter(t) ==
  /\ pc[t] = "freeOuter"
  /\ FreesOnFailure(t)
  /\ pc' = [pc EXCEPT ![t] = "idle"]
  /\ UNCHANGED <<sel, call, retry, status, got>>

-----------------------------------------------------------------------------
\* The slots loc_sync_process_ind finds a match in; an indication has a payload.
IgnoresClient(s, c, i) ==
  slotInUse[s] /\ slot[s].ind = i /\ ~slot[s].arrived
Matches(s, c, i) ==
  slotInUse[s] /\ slot[s].client = c /\ slot[s].ind = i /\ ~slot[s].arrived

\* The scan stops after the first match whose payload was copied.
Hits(c, i) ==
  {s \in Slots : /\ Matches(s, c, i)
                 /\ \A r \in Slots : r < s /\ Matches(r, c, i)
                                       => slot[r].ptr = None}

BlockedOn(s) == {t \in Threads : pc[t] = "blocked" /\ sel[t] = s}

\* loc_sync_process_ind: pthread_cond_signal wakes one of the threads blocked
\* on the condition variable of each slot that is waiting, if there is one.
\* in_use is only ever cleared: it is TRUE when the scan starts.
ProcessInd(c, i) ==
  /\ inUse
  /\ \E woken \in SUBSET {t \in Threads : pc[t] = "blocked"} :
       /\ \A t \in woken : sel[t] \in Hits(c, i) /\ slot[sel[t]].waiting
       /\ \A s \in Hits(c, i) :
            slot[s].waiting /\ BlockedOn(s) # {} =>
              \E t \in woken : BlockedOn(s) \cap woken = {t}
       /\ pc' = [t \in Threads |-> IF t \in woken THEN "signalled" ELSE pc[t]]
  /\ slot' = [s \in Slots |->
                IF s \in Hits(c, i) /\ ~slot[s].waiting
                  THEN [slot[s] EXCEPT !.arrived = TRUE] ELSE slot[s]]
  /\ got' = [t \in Threads |->
               IF \E s \in Hits(c, i) : slot[s].ptr = t THEN <<c, i>> ELSE got[t]]
  /\ inUse' = AnyInUse(slotInUse)
  /\ UNCHANGED <<slotInUse, sel, call, retry, status>>

-----------------------------------------------------------------------------
ThreadStep(t) ==
  \/ Select(t) \/ SendAccepted(t) \/ SendRefused(t) \/ CheckSlot(t)
  \/ EnterWait(t) \/ WaitEnds(t) \/ Resume(t) \/ FreeInner(t) \/ FreeOuter(t)

Next ==
  \/ \E t \in Threads, c \in Calls : Call(t, c) \/ CallNoSlot(t, c)
  \/ \E t \in Threads : ThreadStep(t)
  \/ \E c \in Clients, i \in IndIds : ProcessInd(c, i)

Spec == Init /\ [][Next]_vars

\* A call in progress is scheduled, the modem's synchronous message and the
\* timed wait both end.  Nothing obliges an indication to come.
FairSpec == Spec /\ \A t \in Threads : WF_vars(ThreadStep(t))

-----------------------------------------------------------------------------
Owning(t) == pc[t] \notin {"idle", "select"}

\* loc_sync_process_ind copies into a caller's stack buffer.  A slot that still
\* points to a thread's buffer belongs to a call of that thread in progress:
\* no answer is ever written into the frame of a call that returned, however
\* often the slot was freed and taken in between.
NoWriteAfterReturn ==
  \A s \in Slots, t \in Threads : slot[s].ptr = t => Owning(t) /\ sel[t] = s

\* An answer copied into a caller's buffer answers that caller's request: the
\* right client handle and the right indication, also when slots are shared.
AnswerMatchesRequest ==
  \A t \in Threads :
    got[t] # None => got[t] = <<call[t].client, call[t].ind>>

\* No slot leaks: one that is in use is the slot of some call in progress, so
\* the eight slots cannot run out for good.
SlotHasCaller ==
  \A s \in Slots :
    slotInUse[s] => \E t \in Threads : pc[t] # "idle" /\ sel[t] = s

\* The flag loc_sync_process_ind returns early on is never stale: while a slot
\* is in use no indication is dropped because of it.
InUseFlagExact == inUse <=> AnyInUse(slotInUse)

\* Every call returns: the wait is timed and the retries are counted.
CallReturns == \A t \in Threads : pc[t] # "idle" ~> pc[t] = "idle"

\* "Thread safe synchronous request" (loc_api_sync_req.h:77): the slot a call
\* waits in stays its own until it frees it.  This does not hold: see README
\* section 5.
ThreadSafe ==
  \A t \in Threads :
    pc[t] \in {"select", "enter", "blocked", "signalled"} => slotInUse[sel[t]]
=============================================================================
