-------------------------------- MODULE Agps --------------------------------
(***************************************************************************)
(* The AGPS resource state machine:                                        *)
(* gps/loc_api/libloc_api_50001/loc_eng_agps.cpp and .h.                   *)
(*                                                                         *)
(* AgpsStateMachine asks the Android framework (AFW) for a network         *)
(* interface (NIF) on behalf of its subscribers and tells them whether     *)
(* they have it.  Every method runs in MsgTask, one at a time.  The        *)
(* framework is external: it takes requests in the order of agps_cb and    *)
(* answers through messages to MsgTask, in order, so that answers to       *)
(* earlier requests arrive after the machine has moved on.                 *)
(*                                                                         *)
(* Subscribers of class WIFISubscriber wait for the close to complete,     *)
(* those of class BITSubscriber and ATLSubscriber do not.  No machine is   *)
(* built with mEnforceSingleSubscriber.                                    *)
(***************************************************************************)
EXTENDS Naturals, Sequences

CONSTANTS
  Subscribers,   \* IDs of subscribers
  WaitForClose,  \* those whose waitForCloseComplete() is true
  MaxQueue,      \* bound: commands and answers under way
  MaxRestarts    \* bound: modem restarts

ASSUME AgpsAssumption ==
  WaitForClose \subseteq Subscribers /\ MaxQueue \in Nat /\ MaxRestarts \in Nat

VARIABLES
  state,       \* mStatePtr
  active,      \* mSubscribers: those that are not isInactive()
  inactive,    \* mSubscribers: those that are
  commands,    \* agps_cb calls the framework has not handled
  answers,     \* events the framework has queued for MsgTask
  nif,         \* the framework's interface: "open" or "closed"
  told,        \* history: what each subscriber was notified of last
  command,     \* history: the last command given
  restarts,    \* history: modem restarts
  dropped      \* history: the list was flushed and nobody subscribed since

vars == <<state, active, inactive, commands, answers, nif, told, command,
          restarts, dropped>>
externalVars == <<nif, restarts>>

States == {"RELEASED", "PENDING", "ACQUIRED", "RELEASING"}
Commands == {"REQUEST", "RELEASE"}
Answers == {"GRANTED", "DENIED", "RELEASED"}

TypeOK ==
  /\ state \in States
  /\ active \subseteq Subscribers /\ inactive \subseteq WaitForClose
  /\ active \cap inactive = {}
  /\ commands \in Seq(Commands) /\ answers \in Seq(Answers)
  /\ nif \in {"open", "closed"}
  /\ told \in [Subscribers -> Answers \cup {"UNSUBSCRIBE", "none"}]
  /\ command \in Commands
  /\ restarts \in 0 .. MaxRestarts
  /\ dropped \in BOOLEAN

Init ==
  /\ state = "RELEASED" /\ active = {} /\ inactive = {}
  /\ commands = <<>> /\ answers = <<>> /\ nif = "closed"
  /\ told = [i \in Subscribers |-> "none"]
  /\ command = "RELEASE" /\ restarts = 0 /\ dropped = FALSE

-----------------------------------------------------------------------------
\* notifySubscribers: everyone in group is told event.
Told(group, event) ==
  [i \in Subscribers |-> IF i \in group THEN event ELSE told[i]]

\* sendRsrcRequest calls agps_cb when a release finds no active subscriber, or
\* a request finds one.
Sends(cmd, act) == (act = {}) <=> (cmd = "RELEASE")

SendRsrcRequest(cmd, act) ==
  IF Sends(cmd, act)
    THEN commands' = Append(commands, cmd) /\ command' = cmd
    ELSE UNCHANGED <<commands, command>>

\* addSubscriber: in the list unless it holds an equal one, whatever its state.
WithSubscriber(i) == IF i \in inactive THEN active ELSE active \cup {i}

\* subscribeRsrc: RSRC_SUBSCRIBE in each state.
Subscribe(i) ==
  /\ Len(commands) < MaxQueue
  /\ active' = WithSubscriber(i)
  /\ \/ /\ state = "RELEASED"
        /\ SendRsrcRequest("REQUEST", active')
        /\ state' = "PENDING"
        /\ UNCHANGED told
     \/ /\ state \in {"PENDING", "RELEASING"}
        /\ UNCHANGED <<state, commands, command, told>>
     \/ /\ state = "ACQUIRED"
        /\ told' = Told({i}, "GRANTED")
        /\ UNCHANGED <<state, commands, command>>
  /\ dropped' = (dropped /\ active' = {})
  /\ UNCHANGED <<externalVars, inactive, answers>>

\* The state after RSRC_UNSUBSCRIBE left act and inact in the list.
StaysHeld(act, inact) == IF act \cup inact = {} THEN "RELEASED" ELSE state
AfterUnsubscribe(act, inact) ==
  IF act \cup inact = {} THEN "RELEASED"
  ELSE IF act = {} THEN "RELEASING" ELSE state

\* unsubscribeRsrc: the subscriber found in the list becomes inactive, or is
\* told and deleted.
Unsubscribe(i) ==
  /\ Len(commands) < MaxQueue
  /\ i \in active \cup inactive
  /\ active' = active \ {i}
  /\ inactive' = IF i \in WaitForClose THEN inactive \cup {i} ELSE inactive
  /\ told' = IF i \in WaitForClose THEN told ELSE Told({i}, "UNSUBSCRIBE")
  /\ state' = AfterUnsubscribe(active', inactive')
  /\ IF state # "RELEASING" /\ state' # state
       THEN SendRsrcRequest("RELEASE", active')
       ELSE UNCHANGED <<commands, command>>
  /\ UNCHANGED <<externalVars, answers, dropped>>

-----------------------------------------------------------------------------
\* onRsrcEvent in each state, for the framework's next answer.

\* Answers the state expects none of: no state change.
IgnoresLoss(e) ==
  \/ state \in {"RELEASED", "ACQUIRED"}
  \/ state = "PENDING" /\ e = "RELEASED"
  \/ state = "RELEASING" /\ e = "GRANTED"
Ignored(e) ==
  \/ state = "RELEASED"
  \/ state = "PENDING" /\ e = "RELEASED"
  \/ state = "ACQUIRED" /\ e \in {"GRANTED", "DENIED"}
  \/ state = "RELEASING" /\ e = "GRANTED"

IgnoreEvent(e) ==
  /\ Ignored(e)
  /\ UNCHANGED <<state, active, inactive, told, commands, command>>

Granted(e) ==
  /\ state = "PENDING" /\ e = "GRANTED"
  /\ state' = "ACQUIRED"
  /\ told' = Told(active, "GRANTED")
  /\ UNCHANGED <<active, inactive, commands, command>>

\* DENIED in PENDING, or a forced release in ACQUIRED: all are told and deleted.
Lost(e) ==
  /\ \/ state = "PENDING" /\ e = "DENIED"
     \/ state = "ACQUIRED" /\ e = "RELEASED"
  /\ state' = "RELEASED"
  /\ told' = Told(active \cup inactive, e)
  /\ active' = {} /\ inactive' = {}
  /\ UNCHANGED <<commands, command>>

\* The state after the inactive subscribers were told of the release.
NeverAsksAgain(act) == "RELEASED"
AfterRelease(act) == IF act = {} THEN "RELEASED" ELSE "PENDING"

ReleaseDone(e) ==
  /\ state = "RELEASING" /\ e \in {"DENIED", "RELEASED"}
  /\ state' = AfterRelease(active)
  /\ told' = Told(inactive, e)
  /\ inactive' = {}
  /\ IF active # {} THEN SendRsrcRequest("REQUEST", active)
                    ELSE UNCHANGED <<commands, command>>
  /\ UNCHANGED active

OnRsrcEvent ==
  /\ answers # <<>>
  /\ answers' = Tail(answers)
  /\ \/ IgnoreEvent(Head(answers)) \/ Granted(Head(answers))
     \/ Lost(Head(answers)) \/ ReleaseDone(Head(answers))
  /\ UNCHANGED <<externalVars, dropped>>

\* loc_eng_handle_engine_up: dropAllSubscribers, with no event to the state.
EngineUp ==
  /\ restarts < MaxRestarts
  /\ restarts' = restarts + 1
  /\ told' = Told(active \cup inactive, "none")
  /\ active' = {} /\ inactive' = {}
  /\ dropped' = TRUE
  /\ UNCHANGED <<state, commands, answers, nif, command>>

-----------------------------------------------------------------------------
\* The framework, as loc_eng_agps_open, loc_eng_agps_open_failed and
\* loc_eng_agps_closed show it.
Answer(cmd, result, a) ==
  /\ commands # <<>> /\ Head(commands) = cmd /\ Len(answers) < MaxQueue
  /\ commands' = Tail(commands)
  /\ nif' = result
  /\ answers' = Append(answers, a)
  /\ UNCHANGED <<state, active, inactive, told, command, restarts, dropped>>

Framework ==
  \/ Answer("REQUEST", "open", "GRANTED")
  \/ nif = "closed" /\ Answer("REQUEST", "closed", "DENIED")
  \/ \E a \in {"RELEASED", "DENIED"} :
       (nif = "open" => a = "RELEASED") /\ Answer("RELEASE", "closed", a)

ConnectionLost ==
  /\ nif = "open" /\ Len(answers) < MaxQueue
  /\ nif' = "closed"
  /\ answers' = Append(answers, "RELEASED")
  /\ UNCHANGED <<state, active, inactive, told, commands, command, restarts,
                 dropped>>

-----------------------------------------------------------------------------
Next ==
  \/ \E i \in Subscribers : Subscribe(i) \/ Unsubscribe(i)
  \/ OnRsrcEvent \/ EngineUp
  \/ Framework \/ ConnectionLost

Spec == Init /\ [][Next]_vars

\* MsgTask handles its messages and the framework answers every command.
FairSpec == Spec /\ WF_vars(OnRsrcEvent) /\ WF_vars(Framework)

-----------------------------------------------------------------------------
\* "subscriber list not empty!!!" (loc_eng_agps.cpp:275) never happens: the
\* released state keeps no subscriber.
ReleasedIsEmpty == state = "RELEASED" => active \cup inactive = {}

\* The framework's interface is open, or an answer that takes it away is queued
\* behind place n.
OpenOrLost(n) ==
  nif = "open" \/ \E m \in DOMAIN answers : m > n /\ answers[m] = "RELEASED"

\* An active subscriber was told GRANTED last exactly when the machine is in
\* ACQUIRED, and then the interface is really there, or its loss is on its way:
\* a GRANTED meant for an earlier request, taken for the answer to the current
\* one, may name an interface that is closed by then, but never for good.
GrantIsTold == \A i \in active : told[i] = "GRANTED" <=> state = "ACQUIRED"
GrantIsTruth == GrantIsTold /\ (state = "ACQUIRED" => OpenOrLost(0))

\* So it is for every GRANTED under way.
GrantsHold ==
  \A n \in DOMAIN answers : answers[n] = "GRANTED" => OpenOrLost(n)

\* A subscriber that was told GRANTED stays in the list until it is told
\* otherwise.
GrantIsListed ==
  \A i \in Subscribers : told[i] = "GRANTED" => i \in active \cup inactive

\* The resource is asked for, or held, for an active subscriber only; a modem
\* restart may leave it without one until the next subscription.
HeldForSomeone ==
  state \in {"PENDING", "ACQUIRED"} /\ ~dropped => active # {}

\* The framework's last command is the one the state stands for.
CommandFitsState ==
  /\ state \in {"PENDING", "ACQUIRED"} => command = "REQUEST"
  /\ state = "RELEASING" => command = "RELEASE"

\* Every subscription is answered: it leads to the resource or to a notification
\* that removes the subscriber.
SubscriberServed ==
  \A i \in Subscribers : i \in active ~> i \notin active \/ state = "ACQUIRED"

\* "tell connecivity service we can release NIF" (loc_eng_agps.cpp:356): when the
\* machine is released and nothing is under way the framework holds no interface.
\* This does not hold: see README section 5.
ReleasedIsClosed ==
  state = "RELEASED" /\ commands = <<>> /\ answers = <<>> => nif = "closed"
=============================================================================
