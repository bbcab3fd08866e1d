--------------------------- MODULE SyncCallProofs ---------------------------
(***************************************************************************)
(* Proofs about SyncCall: that slots are never shared, that no callback is *)
(* missed, and that the slots implement SyncService.                       *)
(***************************************************************************)
EXTENDS SyncCall, TLAPS

\* A call that is not idle has a request and no outcome yet, and the slot it
\* has waits for that request.
CallsOK ==
  \A t \in Threads :
    /\ pc[t] # "idle" => req[t] \in Requests /\ outcome[t] = None
    /\ pc[t] = "idle" => req[t] = None
    /\ HasSlot(t) => select[t] \in Slots /\ want[select[t]] = req[t]

\* The callback being processed is the last one.
CallbackOK ==
  /\ cb.n # 0 => cb.what \in Contents /\ cb.n = events
  /\ cb.n = 0 => cb.what = None

\* A slot that was signalled holds the number of a callback.
PayloadOK == \A s \in Slots : inUse[s] /\ signalSent[s] => payload[s] # 0

\* The slots owed the callback still wait for it, and the scan has not passed
\* them.
OwedOK ==
  \A s \in owed : cb.n # 0 /\ Matches(s, cb.what) /\ cb.i <= s

IInv ==
  /\ TypeOK /\ SlotExclusive /\ CallsOK /\ CallbackOK /\ PayloadOK /\ OwedOK

\* How slots and threads may change without a slot changing hands.
LEMMA SlotFacts ==
  ASSUME IInv
  PROVE  /\ \A t, u \in Threads :
              HasSlot(t) /\ HasSlot(u) /\ select[t] = select[u] => t = u
         /\ \A t \in Threads : HasSlot(t) => inUse[select[t]]
         /\ \A s \in Slots : inUse[s] => \E t \in Threads : HasSlot(t) /\ select[t] = s
         /\ \A s \in owed : cb.n # 0 /\ cb.i <= s
         /\ Slots \subseteq Nat /\ NumSlots \in Nat /\ NumSlots \notin Slots
         /\ \A s \in Slots : s < NumSlots
BY SyncCallAssumption DEF IInv, SlotExclusive, OwedOK, CallsOK, Slots

LEMMA InitIInv == Init => IInv
<1> SUFFICES ASSUME Init PROVE IInv
  OBVIOUS
<1> USE SyncCallAssumption DEF Init
<1>1. TypeOK
  BY DEF TypeOK, NoCb, Slots
<1>2. SlotExclusive /\ CallsOK
  BY DEF SlotExclusive, CallsOK, HasSlot
<1>3. CallbackOK /\ PayloadOK /\ OwedOK
  BY DEF CallbackOK, PayloadOK, OwedOK, NoCb
<1> QED
  BY <1>1, <1>2, <1>3 DEF IInv

LEMMA CallIInv ==
  ASSUME IInv, NEW t \in Threads, NEW r \in Requests, Call(t, r)
  PROVE  IInv'
<1> USE DEF Call, slotVars
<1>1. TypeOK'
  BY SyncCallAssumption DEF IInv, TypeOK
<1>2. \A u \in Threads : /\ HasSlot(u)' <=> HasSlot(u)
                         /\ HasSlot(u) => select'[u] = select[u]
  BY DEF IInv, TypeOK, HasSlot
<1>3. SlotExclusive'
  BY <1>2 DEF IInv, SlotExclusive
<1>4. CallsOK'
  BY <1>2 DEF IInv, TypeOK, CallsOK, HasSlot
<1>5. CallbackOK' /\ PayloadOK' /\ OwedOK'
  BY DEF IInv, CallbackOK, PayloadOK, OwedOK, Matches, MatchCallback
<1> QED
  BY <1>1, <1>3, <1>4, <1>5 DEF IInv

LEMMA ClaimIInv ==
  ASSUME IInv, NEW t \in Threads, Claim(t)
  PROVE  IInv'
<1> DEFINE s == select[t]
<1>0. /\ pc[t] = "probe" /\ s \in Slots /\ ~inUse[s]
      /\ inUse' = [inUse EXCEPT ![s] = TRUE]
      /\ signalSent' = [signalSent EXCEPT ![s] = FALSE]
      /\ want' = [want EXCEPT ![s] = req[t]]
      /\ pc' = [pc EXCEPT ![t] = "ioctl"]
      /\ UNCHANGED <<payload, select, req, cb, events, owed, outcome>>
  BY DEF Claim, IsFree, NothingSent, Saved
<1>1. TypeOK /\ CallsOK /\ req[t] \in Requests
  BY <1>0 DEF IInv, CallsOK
<1>2. \A u \in Threads : HasSlot(u) => select[u] # s
  BY <1>0, SlotFacts
<1>3. \A u \in Threads : HasSlot(u)' <=> HasSlot(u) \/ u = t
  BY <1>0, <1>1 DEF TypeOK, HasSlot
<1>4. TypeOK'
  <2>1. \A v \in Slots : inUse'[v] => want'[v] # None
    BY <1>0, <1>1, SyncCallAssumption DEF TypeOK
  <2> QED
    BY <1>0, <1>1, <2>1 DEF TypeOK
<1>5. SlotExclusive'
  <2>1. \A u, v \in Threads :
           HasSlot(u)' /\ HasSlot(v)' /\ select'[u] = select'[v] => u = v
    BY <1>0, <1>2, <1>3, SlotFacts
  <2>2. \A v \in Slots : inUse'[v] <=> inUse[v] \/ v = s
    BY <1>0, <1>1 DEF TypeOK
  <2>3. \A v \in Slots :
           inUse'[v] <=> \E u \in Threads : HasSlot(u)' /\ select'[u] = v
    BY <1>0, <1>3, <2>2 DEF IInv, SlotExclusive
  <2> QED
    BY <2>1, <2>3 DEF SlotExclusive
<1>6. CallsOK'
  <2>1. \A u \in Threads : HasSlot(u)' => select'[u] \in Slots /\ want'[select'[u]] = req'[u]
    BY <1>0, <1>1, <1>2, <1>3 DEF CallsOK, TypeOK
  <2> QED
    BY <1>0, <1>1, <2>1 DEF CallsOK, TypeOK
<1>7. CallbackOK' /\ PayloadOK'
  BY <1>0, <1>1 DEF IInv, CallbackOK, PayloadOK, TypeOK
<1>8. OwedOK'
  BY <1>0, <1>1 DEF IInv, OwedOK, Matches, MatchCallback, TypeOK
<1> QED
  BY <1>4, <1>5, <1>6, <1>7, <1>8 DEF IInv

LEMMA ProbeIInv ==
  ASSUME IInv, NEW t \in Threads, Skip(t) \/ NoSlot(t)
  PROVE  IInv'
<1>1. /\ pc[t] = "probe" /\ pc' \in {pc, [pc EXCEPT ![t] = "idle"]}
      /\ UNCHANGED <<inUse, signalSent, want, payload, cb, events, owed,
                     outcome>>
      /\ pc'[t] = "idle" => req' = [req EXCEPT ![t] = None]
      /\ pc'[t] # "idle" => req' = req
      /\ \A u \in Threads \ {t} : select'[u] = select[u]
  BY DEF Skip, NoSlot, slotVars, IInv, TypeOK
<1>2. TypeOK'
  <2>1. select' \in [Threads -> 0 .. NumSlots]
    <3>1. select \in [Threads -> 0 .. NumSlots] /\ NumSlots \in Nat
      BY SyncCallAssumption DEF IInv, TypeOK
    <3>2. \A i \in Slots : i + 1 \in 0 .. NumSlots
      BY <3>1 DEF Slots
    <3>3. CASE Skip(t)
      <4>1. select' = [select EXCEPT ![t] = select[t] + 1] /\ select[t] \in Slots
        BY <3>3 DEF Skip
      <4> QED
        BY <3>1, <3>2, <4>1
    <3>4. CASE NoSlot(t)
      BY <3>1, <3>4 DEF NoSlot
    <3> QED
      BY <3>3, <3>4
  <2>2. pc' \in [Threads -> {"idle", "probe", "ioctl", "locked", "wait"}]
    BY <1>1 DEF IInv, TypeOK
  <2>3. req' \in [Threads -> Requests \cup {None}]
    BY <1>1 DEF IInv, TypeOK
  <2> QED
    BY <1>1, <2>1, <2>2, <2>3 DEF IInv, TypeOK
<1>3. \A u \in Threads : /\ HasSlot(u)' <=> HasSlot(u)
                         /\ HasSlot(u) => select'[u] = select[u]
  BY <1>1 DEF IInv, TypeOK, HasSlot
<1>4. SlotExclusive'
  BY <1>1, <1>3 DEF IInv, SlotExclusive
<1>5. CallsOK'
  BY <1>1, <1>3 DEF IInv, TypeOK, CallsOK, HasSlot
<1>6. CallbackOK' /\ PayloadOK' /\ OwedOK'
  BY <1>1 DEF IInv, CallbackOK, PayloadOK, OwedOK, Matches, MatchCallback
<1> QED
  BY <1>2, <1>4, <1>5, <1>6 DEF IInv

\* The steps that keep the slot.
LEMMA KeepIInv ==
  ASSUME IInv, NEW t \in Threads, IoctlAccepted(t) \/ Wait(t)
  PROVE  IInv'
<1>1. /\ HasSlot(t) /\ pc' \in {[pc EXCEPT ![t] = "locked"], [pc EXCEPT ![t] = "wait"]}
      /\ UNCHANGED <<inUse, signalSent, want, payload, select, req, cb, events,
                     owed, outcome>>
  BY DEF IoctlAccepted, Wait, slotVars, HasSlot
<1>2. TypeOK'
  BY <1>1 DEF IInv, TypeOK
<1>3. \A u \in Threads : HasSlot(u)' <=> HasSlot(u)
  BY <1>1 DEF IInv, TypeOK, HasSlot
<1>4. SlotExclusive'
  BY <1>1, <1>3 DEF IInv, SlotExclusive
<1>5. CallsOK'
  BY <1>1, <1>3 DEF IInv, TypeOK, CallsOK, HasSlot
<1>6. CallbackOK' /\ PayloadOK' /\ OwedOK'
  BY <1>1 DEF IInv, CallbackOK, PayloadOK, OwedOK, Matches, MatchCallback
<1> QED
  BY <1>2, <1>4, <1>5, <1>6 DEF IInv

LEMMA LeaveIInv ==
  ASSUME IInv, NEW t \in Threads, HasSlot(t),
         NEW o \in {None} \cup (Requests \X (1 .. MaxEvents)), Leave(t, o)
  PROVE  IInv'
<1> DEFINE s == select[t]
<1>0. /\ inUse' = [inUse EXCEPT ![s] = FALSE]
      /\ owed' = owed \ {s} /\ outcome' = [outcome EXCEPT ![t] = o]
      /\ pc' = [pc EXCEPT ![t] = "idle"] /\ req' = [req EXCEPT ![t] = None]
      /\ select' = [select EXCEPT ![t] = 0]
      /\ UNCHANGED <<signalSent, want, payload, cb, events>>
  BY DEF Leave, Released
<1>1. TypeOK /\ CallsOK /\ s \in Slots
  BY DEF IInv, CallsOK
<1>2. \A u \in Threads : /\ HasSlot(u)' <=> HasSlot(u) /\ u # t
                         /\ HasSlot(u)' => select'[u] = select[u] /\ select[u] # s
  <2>1. \A u \in Threads : HasSlot(u)' <=> HasSlot(u) /\ u # t
    BY <1>0, <1>1 DEF TypeOK, HasSlot
  <2> QED
    BY <1>0, <1>1, <2>1, SlotFacts DEF TypeOK
<1>3. TypeOK'
  BY <1>0, <1>1, SyncCallAssumption DEF TypeOK
<1>4. SlotExclusive'
  <2>1. \A u, v \in Threads :
           HasSlot(u)' /\ HasSlot(v)' /\ select'[u] = select'[v] => u = v
    BY <1>2, SlotFacts
  <2>2. \A v \in Slots : inUse'[v] <=> inUse[v] /\ v # s
    BY <1>0, <1>1 DEF TypeOK
  <2>3. \A v \in Slots :
           inUse'[v] <=> \E u \in Threads : HasSlot(u)' /\ select'[u] = v
    BY <1>2, <2>2 DEF IInv, SlotExclusive
  <2> QED
    BY <2>1, <2>3 DEF SlotExclusive
<1>5. CallsOK'
  BY <1>0, <1>1, <1>2 DEF TypeOK, CallsOK
<1>6. CallbackOK' /\ PayloadOK'
  BY <1>0, <1>1 DEF IInv, CallbackOK, PayloadOK, TypeOK
<1>7. OwedOK'
  BY <1>0, <1>1 DEF IInv, OwedOK, Matches, MatchCallback, TypeOK
<1> QED
  BY <1>3, <1>4, <1>5, <1>6, <1>7 DEF IInv

LEMMA EndIInv ==
  ASSUME IInv, NEW t \in Threads, IoctlRefused(t) \/ Arrived(t) \/ TimedOut(t)
  PROVE  IInv'
<1>1. HasSlot(t)
  BY DEF IoctlRefused, Arrived, TimedOut, Expires, HasSlot
<1>2. CASE IoctlRefused(t) \/ TimedOut(t)
  BY <1>1, <1>2, LeaveIInv DEF IoctlRefused, TimedOut
<1>3. CASE Arrived(t)
  <2>1. select[t] \in Slots /\ req[t] \in Requests /\ inUse[select[t]]
    BY <1>1, SlotFacts DEF IInv, CallsOK, HasSlot
  <2>2. payload[select[t]] \in 1 .. MaxEvents
    BY <1>3, <2>1, SyncCallAssumption DEF Arrived, IInv, TypeOK, PayloadOK
  <2> QED
    BY <1>1, <1>3, <2>1, <2>2, LeaveIInv DEF Arrived
<1> QED
  BY <1>2, <1>3

LEMMA CallbackIInv ==
  ASSUME IInv, NEW c \in Contents, Callback(c)
  PROVE  IInv'
<1>0. /\ cb.n = 0 /\ events < MaxEvents /\ events' = events + 1
      /\ cb' = [what |-> c, n |-> events + 1, i |-> 0]
      /\ owed' = {s \in Slots : Matches(s, c)}
      /\ UNCHANGED <<inUse, signalSent, want, payload, pc, select, req, outcome>>
  BY DEF Callback, slotVars
<1>1. TypeOK'
  BY <1>0, SyncCallAssumption DEF IInv, TypeOK
<1>2. SlotExclusive' /\ CallsOK' /\ PayloadOK'
  BY <1>0 DEF IInv, SlotExclusive, CallsOK, PayloadOK, HasSlot
<1>3. CallbackOK'
  BY <1>0 DEF IInv, TypeOK, CallbackOK
<1>4. OwedOK'
  BY <1>0, SlotFacts DEF IInv, TypeOK, OwedOK, Matches, MatchCallback, Slots
<1> QED
  BY <1>1, <1>2, <1>3, <1>4 DEF IInv

LEMMA ScanIInv ==
  ASSUME IInv, Scan
  PROVE  IInv'
<1> DEFINE s == cb.i
<1>0. /\ cb.n # 0 /\ s \in Slots
      /\ UNCHANGED <<inUse, want, pc, select, req, events, outcome>>
  BY DEF Scan
<1>1. TypeOK /\ CallbackOK /\ cb.n \in 1 .. MaxEvents /\ cb.n = events
      /\ cb.what \in Contents
  BY <1>0, SyncCallAssumption DEF IInv, TypeOK, CallbackOK
<1>2. SlotExclusive' /\ CallsOK'
  BY <1>0 DEF IInv, SlotExclusive, CallsOK, HasSlot
<1>3. CASE Matches(s, cb.what)
  <2>0. /\ payload' = [payload EXCEPT ![s] = cb.n]
        /\ signalSent' = [signalSent EXCEPT ![s] = TRUE]
        /\ owed' = {} /\ cb' = NoCb
    BY <1>3 DEF Scan, AfterMatch
  <2>1. TypeOK'
    BY <1>0, <1>1, <2>0, SyncCallAssumption DEF TypeOK, NoCb
  <2>2. CallbackOK' /\ OwedOK'
    BY <1>0, <1>1, <2>0 DEF CallbackOK, OwedOK, NoCb, TypeOK
  <2>3. PayloadOK'
    BY <1>0, <1>1, <2>0 DEF IInv, PayloadOK, TypeOK
  <2> QED
    BY <1>2, <2>1, <2>2, <2>3 DEF IInv
<1>4. CASE ~Matches(s, cb.what)
  <2>0. /\ cb' = [cb EXCEPT !.i = s + 1]
        /\ UNCHANGED <<payload, signalSent, owed>>
    BY <1>4 DEF Scan, NextSlot
  <2>1. s + 1 \in 0 .. NumSlots /\ s \in Nat
    BY <1>0, SyncCallAssumption DEF Slots
  <2>2. cb' \in [what : Contents \cup {None}, n : 0 .. MaxEvents, i : 0 .. NumSlots]
    BY <1>1, <2>0, <2>1 DEF TypeOK
  <2>3. cb'.n = cb.n /\ cb'.what = cb.what /\ cb'.i = s + 1
    BY <1>1, <2>0 DEF TypeOK
  <2>4. TypeOK'
    BY <1>0, <1>1, <2>0, <2>2 DEF TypeOK
  <2>5. CallbackOK' /\ PayloadOK'
    BY <1>0, <2>0, <2>3 DEF IInv, CallbackOK, PayloadOK
  <2>6. OwedOK'
    <3> SUFFICES ASSUME NEW v \in owed
                 PROVE  cb'.n # 0 /\ Matches(v, cb.what) /\ s + 1 <= v
      BY <1>0, <2>0, <2>3 DEF OwedOK, Matches, MatchCallback
    <3>1. Matches(v, cb.what) /\ s <= v /\ v \in Nat
      BY <1>1, SlotFacts DEF IInv, OwedOK, TypeOK
    <3> QED
      BY <1>0, <1>4, <2>1, <2>3, <3>1
  <2> QED
    BY <1>2, <2>4, <2>5, <2>6 DEF IInv
<1> QED
  BY <1>3, <1>4

LEMMA ScanEndsIInv ==
  ASSUME IInv, ScanEnds
  PROVE  IInv'
<1> USE DEF ScanEnds, slotVars
<1>1. TypeOK'
  BY SyncCallAssumption DEF IInv, TypeOK, NoCb
<1>2. SlotExclusive' /\ CallsOK' /\ PayloadOK'
  BY DEF IInv, SlotExclusive, CallsOK, PayloadOK, HasSlot
<1>3. CallbackOK' /\ OwedOK'
  BY DEF IInv, CallbackOK, OwedOK, NoCb
<1> QED
  BY <1>1, <1>2, <1>3 DEF IInv

LEMMA NextIInv == IInv /\ [Next]_vars => IInv'
<1> SUFFICES ASSUME IInv, [Next]_vars PROVE IInv'
  OBVIOUS
<1>1. CASE \E t \in Threads : ThreadStep(t)
  BY <1>1, ClaimIInv, ProbeIInv, KeepIInv, EndIInv DEF ThreadStep
<1>2. CASE \E t \in Threads, r \in Requests : Call(t, r)
  BY <1>2, CallIInv
<1>3. CASE \E c \in Contents : Callback(c)
  BY <1>3, CallbackIInv
<1>4. CASE Scan \/ ScanEnds
  BY <1>4, ScanIInv, ScanEndsIInv
<1>5. CASE UNCHANGED vars
  <2> USE <1>5 DEF vars, slotVars
  <2>1. TypeOK' /\ SlotExclusive' /\ CallsOK'
    BY DEF IInv, TypeOK, SlotExclusive, CallsOK, HasSlot
  <2>2. CallbackOK' /\ PayloadOK' /\ OwedOK'
    BY DEF IInv, CallbackOK, PayloadOK, OwedOK, Matches, MatchCallback
  <2> QED
    BY <2>1, <2>2 DEF IInv
<1> QED
  BY <1>1, <1>2, <1>3, <1>4, <1>5 DEF Next

\* The invariant holds of every reachable state.
THEOREM Inductive == Spec => []IInv
<1> QED
  BY InitIInv, NextIInv, PTL DEF Spec

\* Slots, calls and callbacks keep their types (TypeOK), for any number of
\* threads, clients, ioctl types, slots and callbacks.
THEOREM TypeCorrect == Spec => []TypeOK
<1>1. IInv => TypeOK
  BY DEF IInv
<1> QED
  BY <1>1, Inductive, PTL

\* No slot belongs to two calls, although its lock is dropped during the RPC,
\* and none stays in use without one (SlotExclusive).
THEOREM SlotsAreExclusive == Spec => []SlotExclusive
<1>1. IInv => SlotExclusive
  BY DEF IInv
<1> QED
  BY <1>1, Inductive, PTL

\* A scan without a taker finds no slot that waited for its callback from the
\* start (NoMissedAnswer).
THEOREM NothingMissed == Spec => []NoMissedAnswer
<1>1. IInv => NoMissedAnswer
  <2> SUFFICES ASSUME IInv, cb.n # 0, cb.i = NumSlots PROVE owed = {}
    BY DEF NoMissedAnswer
  <2>1. \A s \in owed : s \in Slots /\ NumSlots <= s
    BY DEF IInv, TypeOK, OwedOK
  <2> QED
    BY <2>1, SyncCallAssumption DEF Slots
<1> QED
  BY <1>1, Inductive, PTL

-----------------------------------------------------------------------------
(* SyncCall implements SyncService *)

Answered(t) == HasSlot(t) /\ signalSent[select[t]]

\* The mapped variables, and what the mapping makes of the actions.
mappedState ==
  [t \in Threads |-> IF pc[t] = "idle" THEN "idle"
                     ELSE IF Answered(t) THEN "answered" ELSE "pending"]
mappedAnswer ==
  [t \in Threads |-> IF Answered(t) THEN payload[select[t]] ELSE None]

stateOf(t) ==
  IF pc[t] = "idle" THEN "idle" ELSE IF Answered(t) THEN "answered" ELSE "pending"
answerOf(t) == IF Answered(t) THEN payload[select[t]] ELSE None

LEMMA MapInit ==
  Service!Init <=>
    /\ mappedState = [t \in Threads |-> "idle"]
    /\ req = [t \in Threads |-> None]
    /\ mappedAnswer = [t \in Threads |-> None]
    /\ events = 0 /\ cb.what = None
    /\ outcome = [t \in Threads |-> None]
BY DEF Service!Init, mappedState, mappedAnswer, Answered

LEMMA MapVars ==
  Service!vars = << <<mappedState, req, mappedAnswer, outcome>>, events, cb.what>>
BY DEF Service!vars, Service!callVars, mappedState, mappedAnswer, Answered

LEMMA MapBegin ==
  ASSUME NEW t \in Threads, NEW r \in Requests,
         mappedState[t] = "idle",
         mappedState' = [mappedState EXCEPT ![t] = "pending"],
         req' = [req EXCEPT ![t] = r],
         mappedAnswer' = [mappedAnswer EXCEPT ![t] = None],
         outcome' = [outcome EXCEPT ![t] = None],
         UNCHANGED <<events, cb>>
  PROVE  Service!Begin(t, r)
BY DEF Service!Begin, mappedState, mappedAnswer, Answered

LEMMA MapDeliver ==
  ASSUME NEW c \in Contents, cb.what = None, cb'.what = c, events' = events + 1,
         mappedState' = mappedState, mappedAnswer' = mappedAnswer,
         UNCHANGED <<req, outcome>>
  PROVE  Service!Deliver(c)
BY DEF Service!Deliver, Service!callVars, mappedState, mappedAnswer, Answered

LEMMA MapAnswer ==
  ASSUME NEW t \in Threads,
         mappedState[t] = "pending", cb.what # None,
         <<cb.what, req[t]>> \in {p \in Contents \X Requests : IssuedFor(p[1], p[2])},
         mappedState' = [mappedState EXCEPT ![t] = "answered"],
         mappedAnswer' = [mappedAnswer EXCEPT ![t] = events],
         cb'.what = None, UNCHANGED <<req, outcome, events>>
  PROVE  Service!Answer(t)
BY DEF Service!Answer, mappedState, mappedAnswer, Answered

LEMMA MapDrop ==
  ASSUME cb.what # None, cb'.what = None,
         mappedState' = mappedState, mappedAnswer' = mappedAnswer,
         UNCHANGED <<req, outcome, events>>
  PROVE  Service!Drop
BY DEF Service!Drop, Service!callVars, mappedState, mappedAnswer, Answered

LEMMA MapReturn ==
  ASSUME NEW t \in Threads,
         mappedState[t] = "answered",
         outcome' = [outcome EXCEPT ![t] = <<req[t], mappedAnswer[t]>>],
         mappedState' = [mappedState EXCEPT ![t] = "idle"],
         req' = [req EXCEPT ![t] = None],
         mappedAnswer' = [mappedAnswer EXCEPT ![t] = None],
         UNCHANGED <<events, cb>>
  PROVE  Service!Return(t)
BY DEF Service!Return, mappedState, mappedAnswer, Answered

LEMMA MapFail ==
  ASSUME NEW t \in Threads,
         outcome' = [outcome EXCEPT ![t] = None],
         mappedState' = [mappedState EXCEPT ![t] = "idle"],
         req' = [req EXCEPT ![t] = None],
         mappedAnswer' = [mappedAnswer EXCEPT ![t] = None],
         UNCHANGED <<events, cb>>
  PROVE  Service!Fail(t)
BY DEF Service!Fail, mappedState, mappedAnswer, Answered

\* The calls of the threads other than t look the same after the step.
OthersKeep(T) ==
  \A u \in Threads \ T :
    /\ pc'[u] = "idle" <=> pc[u] = "idle"
    /\ Answered(u)' <=> Answered(u)
    /\ Answered(u) => payload'[select'[u]] = payload[select[u]]

LEMMA Moved ==
  ASSUME NEW t \in Threads, OthersKeep({t})
  PROVE  /\ mappedState' = [mappedState EXCEPT ![t] = stateOf(t)']
         /\ mappedAnswer' = [mappedAnswer EXCEPT ![t] = answerOf(t)']
BY DEF OthersKeep, mappedState, mappedAnswer, stateOf, answerOf

LEMMA Unmoved ==
  ASSUME OthersKeep({})
  PROVE  mappedState' = mappedState /\ mappedAnswer' = mappedAnswer
BY DEF OthersKeep, mappedState, mappedAnswer

LEMMA InitRefines == Init => Service!Init
BY MapInit DEF Init, NoCb, mappedState, mappedAnswer, Answered, HasSlot

LEMMA CallRefines ==
  ASSUME IInv, NEW t \in Threads, NEW r \in Requests, Call(t, r)
  PROVE  Service!Begin(t, r)
<1> USE DEF Call, slotVars
<1>1. OthersKeep({t}) /\ stateOf(t)' = "pending" /\ answerOf(t)' = None
  BY DEF IInv, TypeOK, OthersKeep, stateOf, answerOf, Answered, HasSlot
<1>2. mappedState[t] = "idle"
  BY DEF mappedState
<1> QED
  BY <1>1, <1>2, Moved, MapBegin

LEMMA EndRefines ==
  ASSUME IInv, NEW t \in Threads, HasSlot(t), NEW o, Leave(t, o)
  PROVE  /\ OthersKeep({t}) /\ stateOf(t)' = "idle" /\ answerOf(t)' = None
         /\ req' = [req EXCEPT ![t] = None] /\ outcome' = [outcome EXCEPT ![t] = o]
         /\ UNCHANGED <<events, cb>>
BY DEF Leave, IInv, TypeOK, OthersKeep, stateOf, answerOf, Answered, HasSlot

LEMMA FailRefines ==
  ASSUME IInv, NEW t \in Threads, NoSlot(t) \/ IoctlRefused(t) \/ TimedOut(t)
  PROVE  Service!Fail(t)
<1>1. CASE NoSlot(t)
  <2>1. OthersKeep({t}) /\ stateOf(t)' = "idle" /\ answerOf(t)' = None
    BY <1>1 DEF NoSlot, slotVars, IInv, TypeOK, OthersKeep, stateOf, answerOf,
                Answered, HasSlot
  <2>2. outcome' = [outcome EXCEPT ![t] = None]
    BY <1>1 DEF NoSlot, IInv, TypeOK, CallsOK
  <2> QED
    BY <1>1, <2>1, <2>2, Moved, MapFail DEF NoSlot
<1>2. CASE IoctlRefused(t) \/ TimedOut(t)
  <2>1. HasSlot(t) /\ Leave(t, None)
    BY <1>2 DEF IoctlRefused, TimedOut, Expires, HasSlot
  <2> QED
    BY <2>1, EndRefines, Moved, MapFail
<1> QED
  BY <1>1, <1>2

LEMMA ArrivedRefines ==
  ASSUME IInv, NEW t \in Threads, Arrived(t)
  PROVE  Service!Return(t)
<1>1. Answered(t) /\ HasSlot(t) /\ Leave(t, <<req[t], payload[select[t]]>>)
  BY DEF Arrived, Answered, HasSlot
<1>2. mappedState[t] = "answered" /\ mappedAnswer[t] = payload[select[t]]
  BY <1>1 DEF mappedState, mappedAnswer, HasSlot
<1> QED
  BY <1>1, <1>2, EndRefines, Moved, MapReturn

\* The callback that the scan hands to a slot was issued for its call.
LEMMA MatchSuits ==
  ASSUME IInv, NEW t \in Threads, HasSlot(t), cb.n # 0, Matches(select[t], cb.what)
  PROVE  <<cb.what, req[t]>> \in {p \in Contents \X Requests : IssuedFor(p[1], p[2])}
<1>1. want[select[t]] = req[t] /\ req[t] \in Requests /\ cb.what \in Contents
  BY DEF IInv, CallsOK, CallbackOK, HasSlot
<1> QED
  BY <1>1 DEF Matches, MatchCallback, IssuedFor

LEMMA ScanRefines ==
  ASSUME IInv, Scan, Matches(cb.i, cb.what)
  PROVE  \E t \in Threads : Service!Answer(t)
<1> DEFINE s == cb.i
<1>0. /\ cb.n # 0 /\ s \in Slots /\ inUse[s] /\ ~signalSent[s]
      /\ payload' = [payload EXCEPT ![s] = cb.n]
      /\ signalSent' = [signalSent EXCEPT ![s] = TRUE]
      /\ cb' = NoCb
      /\ UNCHANGED <<inUse, want, pc, select, req, events, outcome>>
  BY DEF Scan, Matches, AfterMatch
<1>1. PICK t \in Threads : HasSlot(t) /\ select[t] = s
  BY <1>0, SlotFacts
<1>2. /\ <<cb.what, req[t]>> \in {p \in Contents \X Requests : IssuedFor(p[1], p[2])}
      /\ cb.n = events
  BY <1>0, <1>1, MatchSuits DEF IInv, CallbackOK
<1>3. \A u \in Threads : HasSlot(u) /\ u # t => select[u] # s /\ select[u] \in Slots
  BY <1>1, SlotFacts DEF IInv, CallsOK
<1>4. OthersKeep({t})
  BY <1>0, <1>3 DEF OthersKeep, Answered, HasSlot, IInv, TypeOK
<1>5. stateOf(t)' = "answered" /\ answerOf(t)' = cb.n
  BY <1>0, <1>1 DEF stateOf, answerOf, Answered, HasSlot, IInv, TypeOK
<1>6. mappedState[t] = "pending"
  BY <1>0, <1>1 DEF mappedState, Answered, HasSlot
<1>7. /\ mappedState' = [mappedState EXCEPT ![t] = "answered"]
      /\ mappedAnswer' = [mappedAnswer EXCEPT ![t] = events]
  BY <1>2, <1>4, <1>5, Moved
<1>8. cb.what # None /\ cb'.what = None
  BY <1>0, SyncCallAssumption DEF IInv, CallbackOK, NoCb
<1> QED
  BY <1>0, <1>2, <1>6, <1>7, <1>8, MapAnswer

LEMMA CallbackRefines ==
  ASSUME IInv, NEW c \in Contents, Callback(c)
  PROVE  Service!Deliver(c)
<1>1. /\ cb.n = 0 /\ events' = events + 1 /\ cb'.what = c
      /\ UNCHANGED <<signalSent, payload, pc, select, req, outcome>>
  BY DEF Callback, slotVars
<1>2. OthersKeep({})
  BY <1>1 DEF OthersKeep, Answered, HasSlot
<1>3. cb.what = None
  BY <1>1 DEF IInv, CallbackOK
<1> QED
  BY <1>1, <1>2, <1>3, Unmoved, MapDeliver

LEMMA ScanEndsRefines ==
  ASSUME IInv, ScanEnds
  PROVE  Service!Drop
<1>1. /\ cb.n # 0 /\ cb'.what = None
      /\ UNCHANGED <<signalSent, payload, pc, select, req, events, outcome>>
  BY DEF ScanEnds, slotVars, NoCb
<1>2. OthersKeep({})
  BY <1>1 DEF OthersKeep, Answered, HasSlot
<1>3. cb.what # None
  BY <1>1, SyncCallAssumption DEF IInv, CallbackOK
<1> QED
  BY <1>1, <1>2, <1>3, Unmoved, MapDrop

\* The remaining steps show nothing of the call to the service.
LEMMA Stutters ==
  ASSUME IInv,
         \/ \E t \in Threads : Claim(t) \/ Skip(t) \/ IoctlAccepted(t) \/ Wait(t)
         \/ (Scan /\ ~Matches(cb.i, cb.what))
         \/ UNCHANGED vars
  PROVE  UNCHANGED Service!vars
<1> DEFINE rest == <<req, outcome, events, cb.what>>
<1>1. ASSUME NEW t \in Threads, Claim(t)
      PROVE  OthersKeep({}) /\ UNCHANGED rest
  <2>0. /\ pc[t] = "probe" /\ select[t] \in Slots /\ ~inUse[select[t]]
        /\ signalSent' = [signalSent EXCEPT ![select[t]] = FALSE]
        /\ pc' = [pc EXCEPT ![t] = "ioctl"]
        /\ UNCHANGED <<payload, select, req, outcome, events, cb>>
    BY <1>1 DEF Claim, IsFree, NothingSent
  <2>1. \A u \in Threads : HasSlot(u) => select[u] # select[t] /\ select[u] \in Slots
    BY <2>0, SlotFacts DEF IInv, CallsOK
  <2>2. \A u \in Threads : Answered(u)' <=> Answered(u)
    BY <2>0, <2>1 DEF Answered, HasSlot, IInv, TypeOK
  <2> QED
    BY <2>0, <2>2 DEF OthersKeep, IInv, TypeOK
<1>2. ASSUME NEW t \in Threads, Skip(t)
      PROVE  OthersKeep({}) /\ UNCHANGED rest
  BY <1>2 DEF Skip, slotVars, OthersKeep, Answered, HasSlot, IInv, TypeOK
<1>3. ASSUME NEW t \in Threads, IoctlAccepted(t) \/ Wait(t)
      PROVE  OthersKeep({}) /\ UNCHANGED rest
  BY <1>3 DEF IoctlAccepted, Wait, slotVars, OthersKeep, Answered, HasSlot, IInv,
              TypeOK
<1>4. ASSUME (Scan /\ ~Matches(cb.i, cb.what)) \/ UNCHANGED vars
      PROVE  OthersKeep({}) /\ UNCHANGED rest
  <2>1. UNCHANGED <<signalSent, payload, pc, select, req, outcome, events>>
    BY <1>4 DEF Scan, vars, slotVars
  <2>2. cb'.what = cb.what
    BY <1>4 DEF Scan, NextSlot, vars, IInv, TypeOK
  <2> QED
    BY <2>1, <2>2 DEF OthersKeep, Answered, HasSlot
<1>5. OthersKeep({}) /\ UNCHANGED rest
  BY <1>1, <1>2, <1>3, <1>4
<1>6. mappedState' = mappedState /\ mappedAnswer' = mappedAnswer
  BY <1>5, Unmoved
<1>7. Service!vars = << <<mappedState, req, mappedAnswer, outcome>>, events, cb.what>>
  BY MapVars
<1>8. Service!vars' =
        << <<mappedState', req', mappedAnswer', outcome'>>, events', cb'.what>>
  BY DEF Service!vars, Service!callVars, mappedState, mappedAnswer, Answered
<1> QED
  BY <1>5, <1>6, <1>7, <1>8

LEMMA NextRefines == IInv /\ [Next]_vars => [Service!Next]_(Service!vars)
<1> SUFFICES ASSUME IInv, [Next]_vars
             PROVE  Service!Next \/ UNCHANGED Service!vars
  OBVIOUS
<1>1. CASE \E t \in Threads, r \in Requests : Call(t, r)
  BY <1>1, CallRefines DEF Service!Next
<1>2. CASE \E t \in Threads : NoSlot(t) \/ IoctlRefused(t) \/ TimedOut(t)
  BY <1>2, FailRefines DEF Service!Next
<1>3. CASE \E t \in Threads : Arrived(t)
  BY <1>3, ArrivedRefines DEF Service!Next
<1>4. CASE Scan /\ Matches(cb.i, cb.what)
  BY <1>4, ScanRefines DEF Service!Next
<1>5. CASE \E c \in Contents : Callback(c)
  BY <1>5, CallbackRefines DEF Service!Next
<1>6. CASE ScanEnds
  BY <1>6, ScanEndsRefines DEF Service!Next
<1>7. CASE \/ \E t \in Threads : Claim(t) \/ Skip(t) \/ IoctlAccepted(t) \/ Wait(t)
           \/ Scan /\ ~Matches(cb.i, cb.what)
           \/ UNCHANGED vars
  BY <1>7, Stutters
<1> QED
  BY <1>1, <1>2, <1>3, <1>4, <1>5, <1>6, <1>7 DEF Next, ThreadStep

\* The slots implement the service, for any number of threads, clients, ioctl
\* types, slots and callbacks: a callback ends at most one call, one that is
\* pending while it is delivered and whose client and ioctl it was issued for
\* (ServiceSpec).
THEOREM SlotsImplementService == Spec => ServiceSpec
<1> QED
  BY InitRefines, NextRefines, Inductive, PTL DEF Spec, ServiceSpec
=============================================================================
