---------------------------- MODULE SyncService ----------------------------
(***************************************************************************)
(* What a synchronous call over asynchronous callbacks promises, whatever  *)
(* holds the calls.  Callbacks are delivered one at a time.  A call ends   *)
(* with a callback that was issued for it and was being delivered while    *)
(* the call was pending, or it fails; a callback ends at most one call.    *)
(***************************************************************************)
EXTENDS Naturals

CONSTANTS
  Threads, Requests,
  Callbacks,  \* what a callback may carry
  Suits,      \* pairs of a callback and a request it was issued for
  None

VARIABLES
  state,     \* of each thread's call
  request,   \* what it asked for
  answer,    \* number of the callback that answered it, or None
  count,     \* callbacks so far
  callback,  \* the one being delivered, number count, or None
  outcome    \* what the last call returned: <<request, number>> or None

callVars == <<state, request, answer, outcome>>
vars == <<callVars, count, callback>>

Init ==
  /\ state = [t \in Threads |-> "idle"]
  /\ request = [t \in Threads |-> None]
  /\ answer = [t \in Threads |-> None]
  /\ count = 0 /\ callback = None
  /\ outcome = [t \in Threads |-> None]

Begin(t, r) ==
  /\ state[t] = "idle"
  /\ state' = [state EXCEPT ![t] = "pending"]
  /\ request' = [request EXCEPT ![t] = r]
  /\ answer' = [answer EXCEPT ![t] = None]
  /\ outcome' = [outcome EXCEPT ![t] = None]
  /\ UNCHANGED <<count, callback>>

Deliver(c) ==
  /\ callback = None
  /\ callback' = c
  /\ count' = count + 1
  /\ UNCHANGED callVars

\* The callback answers one pending call, of those it was issued for.
Answer(t) ==
  /\ state[t] = "pending" /\ callback # None
  /\ <<callback, request[t]>> \in Suits
  /\ state' = [state EXCEPT ![t] = "answered"]
  /\ answer' = [answer EXCEPT ![t] = count]
  /\ callback' = None
  /\ UNCHANGED <<request, outcome, count>>

\* The callback answers no call.
Drop ==
  /\ callback # None
  /\ callback' = None
  /\ UNCHANGED <<callVars, count>>

Return(t) ==
  /\ state[t] = "answered"
  /\ outcome' = [outcome EXCEPT ![t] = <<request[t], answer[t]>>]
  /\ state' = [state EXCEPT ![t] = "idle"]
  /\ request' = [request EXCEPT ![t] = None]
  /\ answer' = [answer EXCEPT ![t] = None]
  /\ UNCHANGED <<count, callback>>

\* Refused, out of slots or timed out; a time-out may lose an answer.
Fail(t) ==
  /\ outcome' = [outcome EXCEPT ![t] = None]
  /\ state' = [state EXCEPT ![t] = "idle"]
  /\ request' = [request EXCEPT ![t] = None]
  /\ answer' = [answer EXCEPT ![t] = None]
  /\ UNCHANGED <<count, callback>>

Next ==
  \/ \E t \in Threads :
       \/ \E r \in Requests : Begin(t, r)
       \/ Answer(t) \/ Return(t) \/ Fail(t)
  \/ \E c \in Callbacks : Deliver(c)
  \/ Drop

Spec == Init /\ [][Next]_vars
=============================================================================
