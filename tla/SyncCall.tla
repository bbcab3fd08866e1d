------------------------------ MODULE SyncCall ------------------------------
(***************************************************************************)
(* Synchronous ioctls of the RPC location API:                             *)
(* gps/loc_api/libloc_api-rpc-50001/libloc_api-rpc-glue/src/               *)
(* loc_api_sync_call.c.                                                    *)
(*                                                                         *)
(* A slot carries its own lock.  Every region of loc_api_sync_ioctl under  *)
(* it is one step, so is one slot of the callback's scan; the lock is free *)
(* between steps.  That the callback thread holds a lock while it looks at *)
(* a slot shows only in the trylock of loc_lock_a_slot, which skips it.    *)
(***************************************************************************)
EXTENDS Naturals, FiniteSets

CONSTANTS
  Threads,     \* threads that call loc_api_sync_ioctl
  Clients,     \* RPC client handles
  Ioctls,      \* ioctl types
  Requests,    \* handle and ioctl type of the calls that are made
  NumSlots,    \* LOC_SYNC_CALL_SLOTS_MAX
  MaxEvents,   \* bound: callbacks of the modem
  None

Slots == 0 .. NumSlots - 1

\* A callback: the handle, the event mask, in which RPC_LOC_EVENT_IOCTL_REPORT
\* is told from every other event, and the type its payload has as a report.
Contents ==
  [client : Clients, mask : (SUBSET {"report", "other"}) \ {{}}, type : Ioctls]

ASSUME SyncCallAssumption ==
  /\ Requests \subseteq Clients \X Ioctls
  /\ NumSlots \in Nat \ {0} /\ MaxEvents \in Nat
  /\ None \notin Nat /\ None \notin Requests /\ None \notin Contents

VARIABLES
  inUse, signalSent,  \* flags of each slot
  want,       \* the callback a slot waits for: its handle and ioctl type
  payload,    \* loc_cb_received_payload: the callback it was copied from
  pc,         \* where a thread is in loc_api_sync_ioctl
  select,     \* the slot it probes, then the one it has
  req,        \* its handle and ioctl type
  cb,         \* the callback being processed: contents, number, next slot
  events,     \* history: callbacks so far; the last one is number events
  owed,       \* history: slots that waited for cb when its scan began
  outcome     \* what a thread's last call returned, None for an error

slotVars == <<inUse, signalSent, want, payload>>
vars == <<slotVars, pc, select, req, cb, events, owed, outcome>>

NoCb == [what |-> None, n |-> 0, i |-> 0]

TypeOK ==
  /\ inUse \in [Slots -> BOOLEAN] /\ signalSent \in [Slots -> BOOLEAN]
  /\ want \in [Slots -> Requests \cup {None}]
  /\ \A s \in Slots : inUse[s] => want[s] # None
  /\ payload \in [Slots -> 0 .. MaxEvents]
  /\ pc \in [Threads -> {"idle", "probe", "ioctl", "locked", "wait"}]
  /\ select \in [Threads -> 0 .. NumSlots]
  /\ req \in [Threads -> Requests \cup {None}]
  /\ cb \in [what : Contents \cup {None}, n : 0 .. MaxEvents, i : 0 .. NumSlots]
  /\ events \in 0 .. MaxEvents
  /\ owed \subseteq Slots
  /\ outcome \in [Threads -> {None} \cup (Requests \X (1 .. MaxEvents))]

\* loc_api_sync_call_init
Init ==
  /\ inUse = [s \in Slots |-> FALSE] /\ signalSent = [s \in Slots |-> FALSE]
  /\ want = [s \in Slots |-> None] /\ payload = [s \in Slots |-> 0]
  /\ pc = [t \in Threads |-> "idle"]
  /\ select = [t \in Threads |-> 0]
  /\ req = [t \in Threads |-> None]
  /\ cb = NoCb /\ events = 0 /\ owed = {}
  /\ outcome = [t \in Threads |-> None]

-----------------------------------------------------------------------------
\* A thread calls loc_api_sync_ioctl.
Call(t, r) ==
  /\ pc[t] = "idle"
  /\ req' = [req EXCEPT ![t] = r]
  /\ select' = [select EXCEPT ![t] = 0]
  /\ outcome' = [outcome EXCEPT ![t] = None]
  /\ pc' = [pc EXCEPT ![t] = "probe"]
  /\ UNCHANGED <<slotVars, cb, events, owed>>

\* loc_set_slot_in_use(1) on a slot that was free.
NothingSent(s) == [signalSent EXCEPT ![s] = FALSE]

\* loc_api_save_callback.  loc_api_sync_ioctl passes it no event and no type
\* is zero, so that the mask waited for is always RPC_LOC_EVENT_IOCTL_REPORT.
Saved(s, r) == [want EXCEPT ![s] = r]

IsFree(s) == ~inUse[s]

\* loc_lock_a_slot finds slot select[t] free; loc_set_slot_in_use and
\* loc_api_save_callback follow under the same lock.
Claim(t) ==
  /\ pc[t] = "probe" /\ select[t] \in Slots
  /\ LET s == select[t] IN
       /\ IsFree(s)
       /\ inUse' = [inUse EXCEPT ![s] = TRUE]
       /\ signalSent' = NothingSent(s)
       /\ want' = Saved(s, req[t])
  /\ pc' = [pc EXCEPT ![t] = "ioctl"]
  /\ UNCHANGED <<payload, select, req, cb, events, owed, outcome>>

\* The slot is in use, or EBUSY: the callback thread is looking at it.
Skip(t) ==
  /\ pc[t] = "probe" /\ select[t] \in Slots
  /\ inUse[select[t]] \/ (cb.n # 0 /\ cb.i = select[t])
  /\ select' = [select EXCEPT ![t] = @ + 1]
  /\ UNCHANGED <<slotVars, pc, req, cb, events, owed, outcome>>

NoSlot(t) ==
  /\ pc[t] = "probe" /\ select[t] = NumSlots
  /\ pc' = [pc EXCEPT ![t] = "idle"]
  /\ req' = [req EXCEPT ![t] = None]
  /\ select' = [select EXCEPT ![t] = 0]
  /\ UNCHANGED <<slotVars, cb, events, owed, outcome>>

\* The end of loc_api_sync_ioctl: result o, in_use = 0, unlock.
Released(s) == [inUse EXCEPT ![s] = FALSE]

Leave(t, o) ==
  /\ inUse' = Released(select[t])
  /\ owed' = owed \ {select[t]}
  /\ outcome' = [outcome EXCEPT ![t] = o]
  /\ pc' = [pc EXCEPT ![t] = "idle"]
  /\ req' = [req EXCEPT ![t] = None]
  /\ select' = [select EXCEPT ![t] = 0]
  /\ UNCHANGED <<signalSent, want, payload, cb, events>>

\* loc_ioctl, called without the slot lock.
IoctlAccepted(t) ==
  /\ pc[t] = "ioctl"
  /\ pc' = [pc EXCEPT ![t] = "locked"]
  /\ UNCHANGED <<slotVars, select, req, cb, events, owed, outcome>>

IoctlRefused(t) == pc[t] = "ioctl" /\ Leave(t, None)

\* loc_api_wait_callback from its entry to the wait, and from a wake-up on: the
\* payload is taken when signal_sent is set.
Arrived(t) ==
  /\ pc[t] \in {"locked", "wait"} /\ signalSent[select[t]]
  /\ Leave(t, <<req[t], payload[select[t]]>>)

Wait(t) ==
  /\ pc[t] = "locked" /\ ~signalSent[select[t]]
  /\ pc' = [pc EXCEPT ![t] = "wait"]
  /\ UNCHANGED <<slotVars, select, req, cb, events, owed, outcome>>

\* ETIMEDOUT wins over a callback that came just before.
WaitsForever(t) == FALSE
Expires(t) == pc[t] = "wait"

TimedOut(t) == Expires(t) /\ Leave(t, None)

-----------------------------------------------------------------------------
\* The modem's callback thread: loc_api_callback_process_sync_call.
\* loc_match_callback, for a slot that waits for an ioctl of this type: only a
\* callback that carries nothing but a report is held against the type.
MatchCallback(type, c) ==
  /\ "report" \in c.mask
  /\ c.mask # {"report"} \/ c.type = type

IgnoresHandle(s, c) ==
  inUse[s] /\ ~signalSent[s] /\ MatchCallback(want[s][2], c)
Matches(s, c) ==
  /\ inUse[s] /\ ~signalSent[s]
  /\ want[s][1] = c.client
  /\ MatchCallback(want[s][2], c)

Callback(c) ==
  /\ cb.n = 0 /\ events < MaxEvents
  /\ events' = events + 1
  /\ cb' = [what |-> c, n |-> events + 1, i |-> 0]
  /\ owed' = {s \in Slots : Matches(s, c)}
  /\ UNCHANGED <<slotVars, pc, select, req, outcome>>

\* The scan goes on after a slot that did not take the callback, and ends at
\* one that did.
AfterMatch(c) == NoCb

SkipsTwo(c) == [c EXCEPT !.i = @ + 2]
NextSlot(c) == [c EXCEPT !.i = @ + 1]

Scan ==
  /\ cb.n # 0 /\ cb.i \in Slots
  /\ LET s == cb.i IN
       IF Matches(s, cb.what)
         THEN /\ payload' = [payload EXCEPT ![s] = cb.n]
              /\ signalSent' = [signalSent EXCEPT ![s] = TRUE]
              /\ owed' = {}
              /\ cb' = AfterMatch(cb)
         ELSE /\ cb' = NextSlot(cb)
              /\ UNCHANGED <<payload, signalSent, owed>>
  /\ UNCHANGED <<inUse, want, pc, select, req, events, outcome>>

ScanEnds ==
  /\ cb.n # 0 /\ cb.i = NumSlots
  /\ cb' = NoCb
  /\ owed' = {}
  /\ UNCHANGED <<slotVars, pc, select, req, events, outcome>>

-----------------------------------------------------------------------------
ThreadStep(t) ==
  \/ Claim(t) \/ Skip(t) \/ NoSlot(t) \/ IoctlAccepted(t) \/ IoctlRefused(t)
  \/ Arrived(t) \/ Wait(t) \/ TimedOut(t)

Next ==
  \/ \E t \in Threads : ThreadStep(t) \/ \E r \in Requests : Call(t, r)
  \/ (\E c \in Contents : Callback(c)) \/ Scan \/ ScanEnds

Spec == Init /\ [][Next]_vars

\* Threads are scheduled, loc_ioctl returns, the wait is timed.  The callback
\* thread is scheduled too, but need not ever be given a callback.
FairSpec ==
  Spec /\ WF_vars(Scan \/ ScanEnds) /\ \A t \in Threads : WF_vars(ThreadStep(t))

-----------------------------------------------------------------------------
HasSlot(t) == pc[t] \in {"ioctl", "locked", "wait"}

\* A slot belongs to one call at a time, and is in use as long as it does,
\* although the lock is dropped during the RPC.
SlotExclusive ==
  /\ \A t, u \in Threads :
       HasSlot(t) /\ HasSlot(u) /\ select[t] = select[u] => t = u
  /\ \A s \in Slots : inUse[s] <=> \E t \in Threads : HasSlot(t) /\ select[t] = s

\* A callback is not lost: a scan that ends without a taker finds no slot that
\* waited for the callback from its start.
NoMissedAnswer == cb.n # 0 /\ cb.i = NumSlots => owed = {}

\* Every call returns, with or without a callback.
CallReturns == \A t \in Threads : pc[t] # "idle" ~> pc[t] = "idle"

\* A callback was issued for the ioctls of its client, if it carries a report,
\* and for those of one type if it carries nothing else.
IssuedFor(c, r) ==
  /\ c.client = r[1]
  /\ "report" \in c.mask
  /\ c.mask = {"report"} => c.type = r[2]

\* The calls, slots apart: pending until their slot was signalled.
Service == INSTANCE SyncService WITH
  Callbacks <- Contents,
  Suits <- {p \in Contents \X Requests : IssuedFor(p[1], p[2])},
  state <- [t \in Threads |->
              IF pc[t] = "idle" THEN "idle"
              ELSE IF HasSlot(t) /\ signalSent[select[t]] THEN "answered"
              ELSE "pending"],
  request <- req,
  answer <- [t \in Threads |->
               IF HasSlot(t) /\ signalSent[select[t]] THEN payload[select[t]]
                                                      ELSE None],
  count <- events,
  callback <- cb.what

\* The slots implement the service: a callback ends at most one call, one that
\* is pending while it is delivered and whose client and ioctl it was issued
\* for, also when slots are reused by calls of other clients and types.
ServiceSpec == Service!Init /\ [][Service!Next]_(Service!vars)
=============================================================================
