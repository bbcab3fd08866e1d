--------------------------- MODULE MsgTaskProofs ---------------------------
(***************************************************************************)
(* Safety of the two machines that run in MsgTask: of the AGPS machine for *)
(* any set of subscribers, any number of commands and answers under way    *)
(* and any number of modem restarts (IInv), and of the timer service for   *)
(* any clients, timers and delays (TimerInv).                              *)
(***************************************************************************)
EXTENDS Agps, LocTimer, TLAPS


-----------------------------------------------------------------------------
(* The AGPS machine *)

\* The inductive invariant.  What a subscriber was told (GrantIsTruth) is kept
\* only because nobody outside the list was told GRANTED (GrantIsListed), and a
\* subscription in RELEASED sends a request only because no closing subscriber
\* is left in the list (ReleasedIsEmpty).  That the interface is there, or its
\* loss queued, rests on the same of each GRANTED under way (GrantsHold).
IInv ==
  /\ TypeOK
  /\ ReleasedIsEmpty
  /\ GrantIsTruth /\ GrantsHold
  /\ GrantIsListed
  /\ HeldForSomeone
  /\ CommandFitsState

\* Steps that leave answers and interface alone, and do not reach ACQUIRED.
LEMMA InterfaceKept ==
  ASSUME IInv, UNCHANGED <<answers, nif>>, state' = "ACQUIRED" => state = "ACQUIRED",
         GrantIsTold'
  PROVE  GrantIsTruth' /\ GrantsHold'
BY DEF IInv, GrantIsTruth, GrantsHold, OpenOrLost

\* The framework's steps: closing the interface queues the loss, and no GRANTED
\* is queued but with the interface open.
LEMMA AnswerQueued ==
  ASSUME IInv, NEW a \in Answers, answers' = Append(answers, a), state' = state,
         nif' \in {"open", "closed"}, nif' = "closed" => a # "GRANTED",
         nif = "open" => nif' = "open" \/ a = "RELEASED",
         GrantIsTold'
  PROVE  GrantIsTruth' /\ GrantsHold'
<1>1. /\ answers \in Seq(Answers) /\ Len(answers) \in Nat /\ nif \in {"open", "closed"}
      /\ DOMAIN answers = 1 .. Len(answers) /\ DOMAIN answers' = 1 .. Len(answers) + 1
      /\ \A m \in DOMAIN answers : answers'[m] = answers[m]
      /\ answers'[Len(answers) + 1] = a
  BY DEF IInv, TypeOK
<1>2. \A n \in 0 .. Len(answers) : OpenOrLost(n) => OpenOrLost(n)'
  BY <1>1 DEF OpenOrLost
<1>3. GrantIsTruth'
  BY <1>1, <1>2 DEF IInv, GrantIsTruth
<1>4. GrantsHold'
  <2> SUFFICES ASSUME NEW n \in 1 .. Len(answers) + 1, answers'[n] = "GRANTED"
               PROVE  OpenOrLost(n)'
    BY <1>1 DEF GrantsHold
  <2>1. CASE n \in DOMAIN answers
    BY <1>1, <1>2, <2>1 DEF IInv, GrantsHold
  <2>2. CASE n = Len(answers) + 1
    <3>1. nif' # "closed"
      BY <1>1, <2>2
    <3> QED
      BY <3>1 DEF OpenOrLost
  <2> QED
    BY <1>1, <2>1, <2>2
<1> QED
  BY <1>3, <1>4

\* The machine takes an answer: it reaches ACQUIRED with a GRANTED only, and
\* leaves it with the loss.
LEMMA AnswerTaken ==
  ASSUME IInv, answers # <<>>, answers' = Tail(answers), nif' = nif,
         state' = "ACQUIRED" =>
           Head(answers) = "GRANTED" \/ (state = "ACQUIRED" /\ Head(answers) # "RELEASED"),
         GrantIsTold'
  PROVE  GrantIsTruth' /\ GrantsHold'
<1>1. /\ answers \in Seq(Answers) /\ Len(answers) \in Nat \ {0}
      /\ DOMAIN answers = 1 .. Len(answers) /\ DOMAIN answers' = 1 .. Len(answers) - 1
      /\ \A m \in DOMAIN answers' : answers'[m] = answers[m + 1]
      /\ Head(answers) = answers[1]
  BY DEF IInv, TypeOK
<1>2. \A n \in 1 .. Len(answers) : OpenOrLost(n) => OpenOrLost(n - 1)'
  <2> SUFFICES ASSUME NEW n \in 1 .. Len(answers), NEW m \in DOMAIN answers, m > n,
                      answers[m] = "RELEASED"
               PROVE  OpenOrLost(n - 1)'
    BY DEF OpenOrLost
  <2>1. m - 1 \in DOMAIN answers' /\ m - 1 > n - 1 /\ (m - 1) + 1 = m
    BY <1>1
  <2> QED
    BY <1>1, <2>1 DEF OpenOrLost
<1>3. GrantsHold'
  <2> SUFFICES ASSUME NEW n \in DOMAIN answers', answers'[n] = "GRANTED"
               PROVE  OpenOrLost(n)'
    BY DEF GrantsHold
  <2>1. n + 1 \in 1 .. Len(answers) /\ answers[n + 1] = "GRANTED" /\ (n + 1) - 1 = n
    BY <1>1
  <2> QED
    BY <1>1, <1>2, <2>1 DEF IInv, GrantsHold
<1>4. ASSUME state' = "ACQUIRED" PROVE OpenOrLost(0)'
  <2>1. CASE Head(answers) = "GRANTED"
    <3>1. OpenOrLost(1) /\ 1 \in 1 .. Len(answers) /\ 1 - 1 = 0
      BY <1>1, <2>1 DEF IInv, GrantsHold
    <3> QED
      BY <1>2, <3>1
  <2>2. CASE state = "ACQUIRED" /\ Head(answers) # "RELEASED"
    <3>1. OpenOrLost(0)
      BY <2>2 DEF IInv, GrantIsTruth
    <3>2. OpenOrLost(1) /\ 1 \in 1 .. Len(answers) /\ 1 - 1 = 0
      BY <1>1, <2>2, <3>1 DEF OpenOrLost
    <3> QED
      BY <1>2, <3>2
  <2> QED
    BY <1>4, <2>1, <2>2
<1> QED
  BY <1>3, <1>4 DEF GrantIsTruth

\* sendRsrcRequest keeps the queue well typed; the command it gives is the last.
LEMMA SendFacts ==
  ASSUME TypeOK, NEW cmd \in Commands, NEW act, SendRsrcRequest(cmd, act)
  PROVE  /\ commands' \in Seq(Commands) /\ command' \in Commands
         /\ command' = IF Sends(cmd, act) THEN cmd ELSE command
<1>1. CASE Sends(cmd, act)
  BY <1>1 DEF SendRsrcRequest, TypeOK
<1>2. CASE ~ Sends(cmd, act)
  BY <1>2 DEF SendRsrcRequest, TypeOK
<1> QED
  BY <1>1, <1>2

\* notifySubscribers tells the members of the group, and only them.
LEMMA ToldFacts ==
  ASSUME TypeOK, NEW group, NEW e \in Answers \cup {"UNSUBSCRIBE", "none"}
  PROVE  /\ Told(group, e) \in [Subscribers -> Answers \cup {"UNSUBSCRIBE", "none"}]
         /\ \A i \in Subscribers :
              Told(group, e)[i] = IF i \in group THEN e ELSE told[i]
BY DEF Told, TypeOK

\* The invariant holds initially.
LEMMA InitIInv == Init => IInv
<1> SUFFICES ASSUME Init PROVE IInv
  OBVIOUS
<1>1. commands \in Seq(Commands) /\ answers \in Seq(Answers)
  BY DEF Init
<1>2. told \in [Subscribers -> Answers \cup {"UNSUBSCRIBE", "none"}]
  BY DEF Init
<1>3. restarts \in 0 .. MaxRestarts
  BY AgpsAssumption DEF Init
<1>4. TypeOK
  BY <1>1, <1>2, <1>3, Zenon DEF Init, TypeOK, States, Commands
<1> QED
  BY <1>4 DEF Init, IInv, ReleasedIsEmpty, GrantIsTruth, GrantIsTold, GrantsHold,
              GrantIsListed, HeldForSomeone, CommandFitsState
-----------------------------------------------------------------------------
\* A subscription keeps the invariant.
LEMMA SubscribeStep ==
  ASSUME IInv, NEW i \in Subscribers, Subscribe(i)
  PROVE  IInv'
<1> USE DEF IInv
<1>1. /\ active \subseteq active' /\ active' \subseteq active \cup {i}
      /\ i \in active' \cup inactive /\ active' \cap inactive = {}
      /\ inactive' = inactive /\ UNCHANGED <<answers, nif>>
  BY DEF Subscribe, WithSubscriber, externalVars, TypeOK
<1>2. CASE state = "RELEASED"
  <2>1. active' = {i} /\ inactive = {} /\ state' = "PENDING" /\ told' = told
    BY <1>1, <1>2 DEF Subscribe, ReleasedIsEmpty
  <2>2. SendRsrcRequest("REQUEST", active')
    BY <1>2 DEF Subscribe
  <2>3. commands' \in Seq(Commands) /\ command' = "REQUEST"
    BY <2>1, <2>2, SendFacts DEF Sends, Commands
  <2>4. told[i] # "GRANTED"
    BY <1>2, <2>1 DEF GrantIsListed, ReleasedIsEmpty
  <2>5. TypeOK'
    BY <1>1, <2>1, <2>3 DEF Subscribe, externalVars, TypeOK, States, Commands
  <2>6. GrantIsTold'
    BY <2>1, <2>4 DEF GrantIsTold
  <2>7. GrantIsTruth' /\ GrantsHold'
    BY <1>1, <2>1, <2>6, InterfaceKept
  <2> QED
    BY <1>1, <1>2, <2>1, <2>3, <2>5, <2>7
       DEF Subscribe, externalVars, ReleasedIsEmpty, GrantIsListed, HeldForSomeone,
           CommandFitsState
<1>3. CASE state \in {"PENDING", "RELEASING"}
  <2>1. UNCHANGED <<state, commands, command, told>>
    BY <1>3 DEF Subscribe
  <2>2. TypeOK'
    BY <1>1, <2>1 DEF Subscribe, externalVars, TypeOK
  <2>3. GrantIsTold'
    BY <1>1, <1>3, <2>1 DEF GrantIsTruth, GrantIsTold, GrantIsListed
  <2>4. GrantIsTruth' /\ GrantsHold'
    BY <1>1, <2>1, <2>3, InterfaceKept
  <2> QED
    BY <1>1, <1>3, <2>1, <2>2, <2>4
       DEF Subscribe, ReleasedIsEmpty, GrantIsListed, HeldForSomeone,
           CommandFitsState
<1>4. CASE state = "ACQUIRED"
  <2>1. told' = Told({i}, "GRANTED") /\ UNCHANGED <<state, commands, command>>
    BY <1>4 DEF Subscribe
  <2>2. /\ told' \in [Subscribers -> Answers \cup {"UNSUBSCRIBE", "none"}]
        /\ \A j \in Subscribers : told'[j] = IF j = i THEN "GRANTED" ELSE told[j]
    BY <2>1, ToldFacts DEF Answers
  <2>3. TypeOK'
    BY <1>1, <2>1, <2>2 DEF Subscribe, externalVars, TypeOK
  <2>4. GrantIsTold' /\ GrantIsListed'
    BY <1>1, <1>4, <2>1, <2>2, <2>3 DEF GrantIsTruth, GrantIsTold, GrantIsListed, TypeOK
  <2>5. GrantIsTruth' /\ GrantsHold'
    BY <1>1, <2>1, <2>4, InterfaceKept
  <2> QED
    BY <1>1, <1>4, <2>1, <2>3, <2>4, <2>5
       DEF Subscribe, ReleasedIsEmpty, HeldForSomeone, CommandFitsState
<1> QED
  BY <1>2, <1>3, <1>4 DEF TypeOK, States

\* An unsubscription keeps the invariant.
LEMMA UnsubscribeStep ==
  ASSUME IInv, NEW i \in Subscribers, Unsubscribe(i)
  PROVE  IInv'
<1> USE DEF IInv
<1>1. state # "RELEASED" /\ UNCHANGED <<externalVars, answers, dropped>>
  BY DEF Unsubscribe, ReleasedIsEmpty
<1>2. /\ active' = active \ {i} /\ inactive' \subseteq inactive \cup {i}
      /\ inactive \subseteq inactive' /\ inactive' \subseteq WaitForClose
      /\ (i \in WaitForClose => i \in inactive')
  BY DEF Unsubscribe, TypeOK
<1>3. /\ told' \in [Subscribers -> Answers \cup {"UNSUBSCRIBE", "none"}]
      /\ \A j \in Subscribers : j # i => told'[j] = told[j]
      /\ told'[i] = "GRANTED" => i \in WaitForClose
  BY ToldFacts DEF Unsubscribe, TypeOK, Answers
<1>4. /\ state' \in {state, "RELEASED", "RELEASING"}
      /\ state' = "RELEASED" <=> active' \cup inactive' = {}
      /\ state' \in {"PENDING", "ACQUIRED"} => state' = state /\ active' # {}
      /\ state' \in {"RELEASED", "RELEASING"} /\ state' # state => active' = {}
  BY <1>1 DEF Unsubscribe, AfterUnsubscribe, TypeOK, States
<1>5. /\ commands' \in Seq(Commands) /\ command' \in Commands
      /\ IF state # "RELEASING" /\ state' # state THEN command' = "RELEASE"
                                                 ELSE command' = command
  <2>1. CASE state # "RELEASING" /\ state' # state
    <3>1. SendRsrcRequest("RELEASE", active') /\ active' = {}
      BY <1>4, <2>1 DEF Unsubscribe, TypeOK, States
    <3> QED
      BY <2>1, <3>1, SendFacts DEF Sends, Commands
  <2>2. CASE ~ (state # "RELEASING" /\ state' # state)
    BY <2>2 DEF Unsubscribe, TypeOK
  <2> QED
    BY <2>1, <2>2
<1>6. TypeOK'
  BY <1>1, <1>2, <1>3, <1>4, <1>5 DEF TypeOK, States, externalVars
<1>7. ReleasedIsEmpty' /\ HeldForSomeone'
  BY <1>4 DEF ReleasedIsEmpty, HeldForSomeone
<1>8. GrantIsTruth' /\ GrantsHold'
  <2>1. GrantIsTold'
    BY <1>2, <1>3, <1>4 DEF GrantIsTruth, GrantIsTold, TypeOK, States
  <2> QED
    BY <1>1, <1>4, <2>1, InterfaceKept DEF externalVars
<1>9. GrantIsListed'
  BY <1>2, <1>3 DEF GrantIsListed
<1>10. CommandFitsState'
  BY <1>4, <1>5 DEF CommandFitsState, TypeOK, States
<1> QED
  BY <1>6, <1>7, <1>8, <1>9, <1>10
-----------------------------------------------------------------------------
\* An answer of the framework keeps the invariant.
LEMMA OnRsrcEventStep ==
  ASSUME IInv, OnRsrcEvent
  PROVE  IInv'
<1> USE DEF IInv
<1> DEFINE e == Head(answers)
<1>1. e \in Answers /\ answers' \in Seq(Answers)
  BY DEF OnRsrcEvent, TypeOK
<1>2. /\ UNCHANGED <<externalVars, dropped>> /\ nif' = nif
      /\ answers # <<>> /\ answers' = Tail(answers)
  BY DEF OnRsrcEvent, externalVars
<1>3. CASE IgnoreEvent(e)
  <2>1. /\ UNCHANGED <<state, active, inactive, told, commands, command>>
        /\ state = "ACQUIRED" => e # "RELEASED"
    BY <1>3 DEF IgnoreEvent, Ignored
  <2>2. GrantIsTold'
    BY <2>1 DEF GrantIsTruth, GrantIsTold
  <2>3. GrantIsTruth' /\ GrantsHold'
    BY <1>2, <2>1, <2>2, AnswerTaken
  <2> QED
    BY <1>1, <1>2, <2>1, <2>3
       DEF externalVars, TypeOK, ReleasedIsEmpty, GrantIsListed, HeldForSomeone,
           CommandFitsState
<1>4. CASE Granted(e)
  <2>1. /\ state = "PENDING" /\ state' = "ACQUIRED" /\ e = "GRANTED"
        /\ UNCHANGED <<active, inactive, commands, command>>
    BY <1>4 DEF Granted
  <2>2. /\ told' \in [Subscribers -> Answers \cup {"UNSUBSCRIBE", "none"}]
        /\ \A j \in Subscribers :
             told'[j] = IF j \in active THEN "GRANTED" ELSE told[j]
    BY <1>4, ToldFacts DEF Granted, Answers
  <2>3. TypeOK'
    BY <1>1, <1>2, <2>1, <2>2 DEF TypeOK, States, externalVars
  <2>4. GrantIsTold'
    BY <2>1, <2>2 DEF GrantIsTold, TypeOK
  <2>5. GrantIsTruth' /\ GrantsHold'
    BY <1>2, <2>1, <2>4, AnswerTaken
  <2> QED
    BY <1>2, <2>1, <2>2, <2>3, <2>5
       DEF ReleasedIsEmpty, GrantIsListed, HeldForSomeone, CommandFitsState, TypeOK
<1>5. CASE Lost(e)
  <2>1. /\ state' = "RELEASED" /\ active' = {} /\ inactive' = {}
        /\ UNCHANGED <<commands, command>> /\ e \in {"DENIED", "RELEASED"}
    BY <1>5 DEF Lost
  <2>2. /\ told' \in [Subscribers -> Answers \cup {"UNSUBSCRIBE", "none"}]
        /\ \A j \in Subscribers :
             told'[j] = IF j \in active \cup inactive THEN e ELSE told[j]
    BY <1>1, <1>5, ToldFacts DEF Lost
  <2>3. TypeOK'
    BY <1>1, <1>2, <2>1, <2>2 DEF TypeOK, States, externalVars
  <2>4. GrantIsTold'
    BY <2>1 DEF GrantIsTold
  <2>5. GrantIsTruth' /\ GrantsHold'
    BY <1>2, <2>1, <2>4, AnswerTaken
  <2> QED
    BY <2>1, <2>2, <2>3, <2>5
       DEF ReleasedIsEmpty, GrantIsListed, HeldForSomeone, CommandFitsState
<1>6. CASE ReleaseDone(e)
  <2>1. /\ state = "RELEASING" /\ e \in {"DENIED", "RELEASED"}
        /\ inactive' = {} /\ active' = active
        /\ state' = AfterRelease(active)
    BY <1>6 DEF ReleaseDone
  <2>2. /\ told' \in [Subscribers -> Answers \cup {"UNSUBSCRIBE", "none"}]
        /\ \A j \in Subscribers :
             told'[j] = IF j \in inactive THEN e ELSE told[j]
    BY <1>1, <1>6, ToldFacts DEF ReleaseDone
  <2>3. /\ commands' \in Seq(Commands) /\ command' \in Commands
        /\ active # {} => command' = "REQUEST"
    <3>1. CASE active = {}
      BY <1>6, <3>1 DEF ReleaseDone, TypeOK
    <3>2. CASE active # {}
      <4>1. SendRsrcRequest("REQUEST", active)
        BY <1>6, <3>2 DEF ReleaseDone
      <4> QED
        BY <3>2, <4>1, SendFacts DEF Sends, Commands
    <3> QED
      BY <3>1, <3>2
  <2>4. /\ active = {} => state' = "RELEASED"
        /\ active # {} => state' = "PENDING"
    BY <2>1 DEF AfterRelease
  <2>5. TypeOK'
    BY <1>1, <1>2, <2>1, <2>2, <2>3, <2>4 DEF TypeOK, States, externalVars
  <2>6. GrantIsTold' /\ GrantIsListed'
    BY <2>1, <2>2, <2>4 DEF GrantIsTruth, GrantIsTold, GrantIsListed, TypeOK
  <2>7. GrantIsTruth' /\ GrantsHold'
    BY <1>2, <2>4, <2>6, AnswerTaken
  <2> QED
    BY <2>1, <2>3, <2>4, <2>5, <2>6, <2>7
       DEF ReleasedIsEmpty, HeldForSomeone, CommandFitsState
<1> QED
  BY <1>3, <1>4, <1>5, <1>6 DEF OnRsrcEvent

\* A modem restart keeps the invariant.
LEMMA EngineUpStep ==
  ASSUME IInv, EngineUp
  PROVE  IInv'
<1> USE DEF IInv
<1>1. /\ told' \in [Subscribers -> Answers \cup {"UNSUBSCRIBE", "none"}]
      /\ \A j \in Subscribers :
           told'[j] = IF j \in active \cup inactive THEN "none" ELSE told[j]
  BY ToldFacts DEF EngineUp
<1>2. restarts' \in 0 .. MaxRestarts
  BY AgpsAssumption DEF EngineUp, TypeOK
<1>3. TypeOK'
  BY <1>1, <1>2, Zenon DEF EngineUp, TypeOK
<1>4. GrantIsTruth' /\ GrantsHold'
  <2>1. GrantIsTold' /\ UNCHANGED <<answers, nif, state>>
    BY DEF EngineUp, GrantIsTold
  <2> QED
    BY <2>1, InterfaceKept
<1> QED
  BY <1>1, <1>3, <1>4 DEF EngineUp, ReleasedIsEmpty, GrantIsListed, HeldForSomeone,
                          CommandFitsState

\* The framework's steps keep the invariant: they touch no state of the machine.
LEMMA FrameworkStep ==
  ASSUME IInv, Framework \/ ConnectionLost
  PROVE  IInv'
<1> USE DEF IInv
<1>1. ASSUME NEW cmd, NEW result \in {"open", "closed"}, NEW a \in Answers,
             Answer(cmd, result, a)
      PROVE  /\ commands' \in Seq(Commands) /\ answers' \in Seq(Answers)
             /\ nif' \in {"open", "closed"}
  BY <1>1 DEF Answer, TypeOK
<1>2. /\ commands' \in Seq(Commands) /\ answers' \in Seq(Answers)
      /\ nif' \in {"open", "closed"}
  <2>1. CASE Framework
    BY <1>1, <2>1 DEF Framework, Answers
  <2>2. CASE ConnectionLost
    BY <2>2 DEF ConnectionLost, TypeOK, Answers
  <2> QED
    BY <2>1, <2>2
<1>3. UNCHANGED <<state, active, inactive, told, command, restarts, dropped>>
  BY DEF Framework, ConnectionLost, Answer
<1>4. GrantIsTruth' /\ GrantsHold'
  <2>1. GrantIsTold'
    BY <1>3 DEF GrantIsTruth, GrantIsTold
  <2>2. PICK a \in Answers :
          /\ answers' = Append(answers, a)
          /\ nif' = "closed" => a # "GRANTED"
          /\ nif = "open" => nif' = "open" \/ a = "RELEASED"
    <3>1. CASE Framework
      BY <3>1 DEF Framework, Answer, Answers
    <3>2. CASE ConnectionLost
      BY <3>2 DEF ConnectionLost, Answers
    <3> QED
      BY <3>1, <3>2
  <2> QED
    BY <1>2, <1>3, <2>1, <2>2, AnswerQueued
<1> QED
  BY <1>2, <1>3, <1>4 DEF TypeOK, ReleasedIsEmpty, GrantIsListed, HeldForSomeone,
                          CommandFitsState
-----------------------------------------------------------------------------
\* Every step keeps the invariant.
LEMMA NextStep == IInv /\ [Next]_vars => IInv'
<1> SUFFICES ASSUME IInv, [Next]_vars PROVE IInv'
  OBVIOUS
<1>1. CASE UNCHANGED vars
  <2>1. GrantIsTruth' /\ GrantsHold'
    <3>1. GrantIsTold'
      BY <1>1 DEF vars, IInv, GrantIsTruth, GrantIsTold
    <3> QED
      BY <1>1, <3>1, InterfaceKept DEF vars
  <2> QED
    BY <1>1, <2>1 DEF vars, IInv, TypeOK, ReleasedIsEmpty, GrantIsListed,
                      HeldForSomeone, CommandFitsState
<1> QED
  BY <1>1, SubscribeStep, UnsubscribeStep, OnRsrcEventStep, EngineUpStep,
     FrameworkStep DEF Next

\* The invariant holds in every reachable state.
THEOREM Invariance == Spec => []IInv
BY InitIInv, NextStep, PTL DEF Spec

\* The machine's state, lists and queues keep their types, and no subscriber is
\* both active and closing.
THEOREM TypeCorrect == Spec => []TypeOK
<1>1. IInv => TypeOK
  BY DEF IInv
<1> QED
  BY <1>1, Invariance, PTL

\* The "subscriber list not empty!!!" error of AgpsReleasedState never happens.
THEOREM NoLeftover == Spec => []ReleasedIsEmpty
<1>1. IInv => ReleasedIsEmpty
  BY DEF IInv
<1> QED
  BY <1>1, Invariance, PTL

\* What subscribers were told last agrees with the machine's state and with the
\* framework's interface, which is open for those told GRANTED or has its loss
\* queued; and whoever was told GRANTED is still in the list to be told of it.
THEOREM SubscribersKnow == Spec => [](GrantIsTruth /\ GrantIsListed)
<1>1. IInv => GrantIsTruth /\ GrantIsListed
  BY DEF IInv
<1> QED
  BY <1>1, Invariance, PTL

\* The interface is asked for only on behalf of an active subscriber, and the
\* last command given is the one the state stands for.
THEOREM CommandsFit == Spec => [](HeldForSomeone /\ CommandFitsState)
<1>1. IInv => HeldForSomeone /\ CommandFitsState
  BY DEF IInv
<1> QED
  BY <1>1, Invariance, PTL

-----------------------------------------------------------------------------
(* The timer service *)

PushOf(d) == [kind |-> "push", d |-> d]
RemoveOf(d) == [kind |-> "remove", d |-> d]
Posted(m) == \E n \in 1..Len(msgs) : msgs[n] = m

\* A client and the delegate of its timer point to each other.
OwnersOK ==
  /\ \A c \in Clients : timer[c] # None =>
       timer[c] \in live /\ mclient[timer[c]] = c /\ outcome[timer[c]] = "none"
  /\ \A d \in Delegates : mclient[d] # None => timer[mclient[d]] = d
  /\ live \subseteq 1..created
  /\ \A d \in Delegates : d > created =>
       outcome[d] = "none" /\ deletes[d] = 0 /\ mclient[d] = None
  /\ \A d \in live : deletes[d] = 0

\* The removal of a delegate is posted once, when its client lets go of it, and
\* is the last message about it.
MessagesLive == \A n \in 1..Len(msgs) : msgs[n].kind # "expire" => msgs[n].d \in live
RemovalPosted == \A d \in live : Posted(RemoveOf(d)) <=> mclient[d] = None
RemovalLast ==
  \A m, n \in 1..Len(msgs) :
    msgs[m].kind = "remove" /\ msgs[n].kind # "expire" /\ msgs[n].d = msgs[m].d
      => n <= m
MessagesOK == MessagesLive /\ RemovalPosted /\ RemovalLast

\* An expiry is under way, or about to be.
Expiry == [kind |-> "expire"]
Expiring == poll # "wait" \/ Posted(Expiry) \/ task.at \in {"popped", "stop"}

\* The timerfd serves the timers of the heap.
ArmedOK ==
  /\ heap \subseteq live
  /\ task.at = "popped" => task.d \in live
  /\ heap # {} => \/ Expiring \/ task.at = "arm"
                  \/ polled /\ armed # None /\ \A d \in heap : armed <= due[d]
  /\ task.at = "arm" => Expiring \/ polled

TimerInv == TimerTypeOK /\ OwnersOK /\ MessagesOK /\ ArmedOK

-----------------------------------------------------------------------------
\* Messages

LEMMA MessageIs ==
  ASSUME NEW m \in Messages
  PROVE  \/ m = Expiry /\ m.kind = "expire"
         \/ m.kind = "push" /\ m.d \in Delegates /\ m = PushOf(m.d)
         \/ m.kind = "remove" /\ m.d \in Delegates /\ m = RemoveOf(m.d)
  BY DEF Messages, Expiry, PushOf, RemoveOf

LEMMA MessageKinds ==
  ASSUME NEW d \in Delegates
  PROVE  /\ Expiry \in Messages /\ PushOf(d) \in Messages /\ RemoveOf(d) \in Messages
         /\ Expiry.kind = "expire"
         /\ PushOf(d).kind = "push" /\ PushOf(d).d = d
         /\ RemoveOf(d).kind = "remove" /\ RemoveOf(d).d = d
  BY DEF Messages, Expiry, PushOf, RemoveOf

LEMMA MessageAppended ==
  ASSUME msgs \in Seq(Messages), NEW e \in Messages, msgs' = Append(msgs, e)
  PROVE  /\ msgs' \in Seq(Messages) /\ Len(msgs) \in Nat /\ Len(msgs') = Len(msgs) + 1
         /\ \A n \in 1..Len(msgs) : msgs'[n] = msgs[n]
         /\ msgs'[Len(msgs) + 1] = e
         /\ \A m : Posted(m)' <=> Posted(m) \/ m = e
  <1>1. /\ msgs' \in Seq(Messages) /\ Len(msgs) \in Nat /\ Len(msgs') = Len(msgs) + 1
        /\ \A n \in 1..Len(msgs) : msgs'[n] = msgs[n]
        /\ msgs'[Len(msgs) + 1] = e
    OBVIOUS
  <1>2. \A m : Posted(m)' <=> Posted(m) \/ m = e
    BY <1>1 DEF Posted
  <1> QED BY <1>1, <1>2

LEMMA MessageTaken ==
  ASSUME msgs \in Seq(Messages), msgs # <<>>, msgs' = Tail(msgs)
  PROVE  /\ msgs' \in Seq(Messages) /\ Len(msgs) \in Nat \ {0} /\ Len(msgs') = Len(msgs) - 1
         /\ \A n \in 1..Len(msgs') : n + 1 \in 1..Len(msgs) /\ msgs'[n] = msgs[n + 1]
         /\ Head(msgs) = msgs[1] /\ Head(msgs) \in Messages
         /\ \A m : Posted(m) <=> Posted(m)' \/ m = Head(msgs)
  <1>1. /\ msgs' \in Seq(Messages) /\ Len(msgs) \in Nat \ {0} /\ Len(msgs') = Len(msgs) - 1
        /\ \A n \in 1..Len(msgs') : n + 1 \in 1..Len(msgs) /\ msgs'[n] = msgs[n + 1]
        /\ Head(msgs) = msgs[1] /\ Head(msgs) \in Messages
    OBVIOUS
  <1>2. ASSUME NEW m PROVE Posted(m) <=> Posted(m)' \/ m = Head(msgs)
    <2>1. ASSUME NEW n \in 1..Len(msgs), msgs[n] = m, m # Head(msgs)
          PROVE  Posted(m)'
      <3>1. n - 1 \in 1..Len(msgs') /\ (n - 1) + 1 = n
        BY <1>1, <2>1
      <3>2. msgs'[n - 1] = m
        BY <1>1, <2>1, <3>1
      <3> QED BY <3>1, <3>2 DEF Posted
    <2>2. Posted(m)' => Posted(m)
      BY <1>1 DEF Posted
    <2>3. m = Head(msgs) => Posted(m)
      BY <1>1 DEF Posted
    <2> QED BY <2>1, <2>2, <2>3 DEF Posted
  <1> QED BY <1>1, <1>2

\* A message about a delegate that is not yet to be removed is appended.
LEMMA AboutAppended ==
  ASSUME TimerTypeOK, MessagesLive, RemovalLast, live \subseteq live',
         NEW d \in Delegates, NEW e \in {PushOf(d), RemoveOf(d)},
         ~Posted(RemoveOf(d)), d \in live', msgs' = Append(msgs, e)
  PROVE  MessagesLive' /\ RemovalLast'
  <1> DEFINE N == Len(msgs)
  <1>1. /\ e \in Messages /\ e.kind \in {"push", "remove"} /\ e.d = d
    BY MessageKinds
  <1>2. /\ msgs \in Seq(Messages) /\ N \in Nat /\ Len(msgs') = N + 1
        /\ \A n \in 1..N : msgs'[n] = msgs[n]
        /\ msgs'[N + 1] = e
    BY <1>1, MessageAppended DEF TimerTypeOK
  <1>3. \A n \in 1..(N + 1) : n \in 1..N \/ n = N + 1
    BY <1>2
  <1>4. \A m \in 1..N : ~(msgs[m].kind = "remove" /\ msgs[m].d = d)
    <2> SUFFICES ASSUME NEW m \in 1..N, msgs[m].kind = "remove", msgs[m].d = d
                 PROVE  FALSE
      OBVIOUS
    <2>1. msgs[m] \in Messages
      BY <1>2
    <2>2. msgs[m] = RemoveOf(d)
      BY <2>1, MessageIs
    <2> QED BY <2>2 DEF Posted
  <1> HIDE DEF N
  <1>5. MessagesLive'
    BY <1>1, <1>2, <1>3 DEF MessagesLive, N
  <1>6. RemovalLast'
    <2> SUFFICES ASSUME NEW m \in 1..(N + 1), NEW n \in 1..(N + 1),
                        msgs'[m].kind = "remove", msgs'[n].kind # "expire",
                        msgs'[n].d = msgs'[m].d
                 PROVE  n <= m
      BY <1>2 DEF RemovalLast
    <2>1. CASE m = N + 1
      BY <1>2, <2>1
    <2>2. CASE m \in 1..N /\ n \in 1..N
      BY <1>2, <2>2 DEF RemovalLast, N
    <2>3. CASE m \in 1..N /\ n = N + 1
      BY <1>1, <1>2, <1>4, <2>3
    <2> QED BY <1>3, <2>1, <2>2, <2>3
  <1> QED BY <1>5, <1>6

LEMMA ExpiryAppended ==
  ASSUME TimerTypeOK, MessagesOK, UNCHANGED <<live, mclient>>, msgs' = Append(msgs, Expiry)
  PROVE  MessagesOK'
  <1> DEFINE N == Len(msgs)
  <1>1. Expiry \in Messages /\ Expiry.kind = "expire"
    BY DEF Messages, Expiry
  <1>2. /\ msgs \in Seq(Messages) /\ N \in Nat /\ Len(msgs') = N + 1
        /\ \A n \in 1..N : msgs'[n] = msgs[n]
        /\ msgs'[N + 1] = Expiry
        /\ \A m : Posted(m)' <=> Posted(m) \/ m = Expiry
    BY <1>1, MessageAppended DEF TimerTypeOK
  <1>3. \A n \in 1..(N + 1) : n \in 1..N \/ n = N + 1
    BY <1>2
  <1>4. RemovalPosted'
    <2>1. \A d \in live : RemoveOf(d) # Expiry
      BY <1>1 DEF RemoveOf, Expiry
    <2> QED BY <1>2, <2>1 DEF MessagesOK, RemovalPosted, RemoveOf
  <1> HIDE DEF N
  <1>5. MessagesLive' /\ RemovalLast'
    BY <1>1, <1>2, <1>3 DEF MessagesOK, MessagesLive, RemovalLast, N
  <1> QED BY <1>4, <1>5 DEF MessagesOK

\* The first message is taken; nothing about it is left if it was a removal.
LEMMA TailKeeps ==
  ASSUME TimerTypeOK, MessagesOK, msgs # <<>>, msgs' = Tail(msgs)
  PROVE  /\ RemovalLast'
         /\ \A n \in 1..Len(msgs') :
              msgs'[n].kind # "expire" =>
                /\ msgs'[n].d \in live
                /\ Head(msgs).kind = "remove" => msgs'[n].d # Head(msgs).d
  <1>1. /\ Len(msgs) \in Nat \ {0} /\ Len(msgs') = Len(msgs) - 1
        /\ \A n \in 1..Len(msgs') : n + 1 \in 1..Len(msgs) /\ msgs'[n] = msgs[n + 1]
        /\ Head(msgs) = msgs[1]
    BY MessageTaken DEF TimerTypeOK
  <1>2. RemovalLast'
    BY <1>1 DEF MessagesOK, RemovalLast
  <1>3. ASSUME NEW n \in 1..Len(msgs'), msgs'[n].kind # "expire"
        PROVE  /\ msgs'[n].d \in live
               /\ Head(msgs).kind = "remove" => msgs'[n].d # Head(msgs).d
    <2>1. n + 1 \in 1..Len(msgs) /\ 1 \in 1..Len(msgs) /\ msgs'[n] = msgs[n + 1] /\ ~(n + 1 <= 1)
      BY <1>1, <1>3
    <2> QED BY <1>1, <1>3, <2>1 DEF MessagesOK, MessagesLive, RemovalLast
  <1> QED BY <1>2, <1>3

\* Taking a message that is no removal
LEMMA OtherTaken ==
  ASSUME TimerTypeOK, MessagesOK, msgs # <<>>, msgs' = Tail(msgs),
         Head(msgs).kind # "remove", UNCHANGED <<live, mclient>>
  PROVE  MessagesOK'
  <1>1. RemovalLast' /\ MessagesLive'
    BY TailKeeps DEF MessagesLive
  <1>2. \A m : Posted(m) <=> Posted(m)' \/ m = Head(msgs)
    BY MessageTaken DEF TimerTypeOK
  <1>3. \A d \in live : RemoveOf(d) # Head(msgs)
    BY DEF RemoveOf
  <1>4. RemovalPosted'
    BY <1>2, <1>3 DEF MessagesOK, RemovalPosted, RemoveOf
  <1> QED BY <1>1, <1>4 DEF MessagesOK

-----------------------------------------------------------------------------
\* Clients and the message task

LEMMA TaskFacts ==
  /\ \A t \in Tasks : /\ t.at = "popped" => t.d \in Delegates /\ t.stamp \in 0..MaxTime
                      /\ t.at = "stop" => t.c \in Clients /\ t.stamp \in 0..MaxTime
  /\ Idle \in Tasks /\ Idle.at = "idle"
  /\ [at |-> "arm"] \in Tasks /\ [at |-> "arm"].at = "arm"
  /\ \A d \in Delegates, stamp \in 0..MaxTime :
       [at |-> "popped", d |-> d, stamp |-> stamp] \in Tasks
  /\ \A c \in Clients, stamp \in 0..MaxTime :
       [at |-> "stop", c |-> c, stamp |-> stamp] \in Tasks
  BY DEF Tasks, Idle

\* LocTimer::stop, of the client or of the timer that expires
LEMMA StopTimerFacts ==
  ASSUME TimerTypeOK, OwnersOK, MessagesOK, NEW c \in Clients,
         NEW how \in {"stopped", "fired"}, StopTimer(c, how), UNCHANGED <<live, deletes>>
  PROVE  /\ msgs' \in Seq(Messages) /\ timer' \in [Clients -> Delegates \cup {None}]
         /\ mclient' \in [Delegates -> Clients \cup {None}]
         /\ outcome' \in [Delegates -> {"none", "stopped", "fired"}]
         /\ UNCHANGED <<created, due>>
         /\ OwnersOK' /\ MessagesOK'
         /\ Posted(Expiry)' <=> Posted(Expiry)
         /\ \A d \in Delegates : outcome[d] # "none" => outcome'[d] = outcome[d]
  <1>1. PICK d \in Delegates : timer[c] = d /\ d \in live /\ mclient[d] = c /\ outcome[d] = "none"
    BY DEF StopTimer, OwnersOK, TimerTypeOK
  <1>2. /\ timer' = [timer EXCEPT ![c] = None] /\ mclient' = [mclient EXCEPT ![d] = None]
        /\ msgs' = Append(msgs, RemoveOf(d)) /\ outcome' = [outcome EXCEPT ![d] = how]
        /\ UNCHANGED <<created, due>>
    BY <1>1 DEF StopTimer, WithoutTimer, RemoveOf
  <1>3. /\ timer' \in [Clients -> Delegates \cup {None}]
        /\ mclient' \in [Delegates -> Clients \cup {None}]
        /\ outcome' \in [Delegates -> {"none", "stopped", "fired"}]
    BY <1>2 DEF TimerTypeOK
  <1>4. /\ RemoveOf(d) \in Messages /\ msgs' \in Seq(Messages)
        /\ \A m : Posted(m)' <=> Posted(m) \/ m = RemoveOf(d)
    BY <1>2, MessageKinds, MessageAppended DEF TimerTypeOK
  <1>5. Posted(Expiry)' <=> Posted(Expiry)
    BY <1>4 DEF Expiry, RemoveOf
  <1>6. \A b \in Clients : b # c => timer[b] # d
    BY <1>1, LocTimerAssumption DEF OwnersOK
  <1>7. \A e \in Delegates : e # d => mclient[e] # c
    BY <1>1, LocTimerAssumption DEF OwnersOK
  <1>8. OwnersOK'
    <2>1. \A b \in Clients : timer'[b] # None =>
            b # c /\ timer'[b] = timer[b] /\ timer[b] # d /\ timer[b] \in Delegates
      BY <1>2, <1>6 DEF TimerTypeOK
    <2>2. \A e \in Delegates : mclient'[e] # None =>
            e # d /\ mclient'[e] = mclient[e] /\ mclient[e] # c /\ mclient[e] \in Clients
      BY <1>2, <1>7 DEF TimerTypeOK
    <2>3. \A b \in Clients : timer'[b] # None =>
            timer'[b] \in live' /\ mclient'[timer'[b]] = b /\ outcome'[timer'[b]] = "none"
      BY <1>2, <2>1 DEF OwnersOK, TimerTypeOK
    <2>4. \A e \in Delegates : mclient'[e] # None => timer'[mclient'[e]] = e
      BY <1>2, <2>2 DEF OwnersOK, TimerTypeOK
    <2>5. d <= created
      BY <1>1 DEF OwnersOK, TimerTypeOK
    <2>6. \A e \in Delegates : e > created' =>
            outcome'[e] = "none" /\ deletes'[e] = 0 /\ mclient'[e] = None
      BY <1>2, <2>5 DEF OwnersOK, TimerTypeOK, Delegates
    <2> QED BY <1>2, <2>3, <2>4, <2>6 DEF OwnersOK
  <1>9. MessagesOK'
    <2>1. ~Posted(RemoveOf(d))
      BY <1>1, LocTimerAssumption DEF MessagesOK, RemovalPosted
    <2>2. MessagesLive' /\ RemovalLast'
      BY <1>1, <1>2, <2>1, AboutAppended DEF MessagesOK
    <2>3. RemovalPosted'
      <3>1. ASSUME NEW e \in live, e # d PROVE Posted(RemoveOf(e))' <=> mclient'[e] = None
        <4>1. RemoveOf(e) # RemoveOf(d)
          BY <3>1 DEF RemoveOf
        <4>2. mclient'[e] = mclient[e]
          BY <1>2, <3>1 DEF TimerTypeOK
        <4>3. Posted(RemoveOf(e))' <=> Posted(RemoveOf(e))
          BY <1>4, <4>1 DEF RemoveOf
        <4> QED BY <3>1, <4>2, <4>3 DEF MessagesOK, RemovalPosted
      <3>2. Posted(RemoveOf(d))' /\ mclient'[d] = None
        BY <1>2, <1>4 DEF TimerTypeOK, RemoveOf
      <3> QED BY <3>1, <3>2 DEF RemovalPosted
    <2> QED BY <2>2, <2>3 DEF MessagesOK
  <1>10. \A e \in Delegates : outcome[e] # "none" => outcome'[e] = outcome[e]
    BY <1>1, <1>2 DEF TimerTypeOK
  <1> QED BY <1>2, <1>3, <1>4, <1>5, <1>8, <1>9, <1>10

\* Parts of the invariant that a step does not touch
LEMMA OwnersKept ==
  ASSUME OwnersOK, UNCHANGED <<clientVars, live, deletes>>
  PROVE  OwnersOK'
  BY DEF OwnersOK, clientVars

LEMMA MessagesKept ==
  ASSUME MessagesOK, UNCHANGED <<msgs, live, mclient>>
  PROVE  MessagesOK' /\ (Posted(Expiry)' <=> Posted(Expiry))
  BY DEF MessagesOK, MessagesLive, RemovalPosted, RemovalLast, Posted, RemoveOf, Expiry

LEMMA StartStep ==
  ASSUME TimerInv, NEW c \in Clients, NEW delay \in Delays, Start(c, delay)
  PROVE  TimerInv'
  <1> DEFINE d == created + 1
  <1>0. TimerTypeOK /\ OwnersOK /\ MessagesOK /\ ArmedOK
    BY DEF TimerInv
  <1>1. /\ timer[c] = None /\ created < MaxStarts /\ now + delay <= MaxTime
        /\ created' = d /\ timer' = [timer EXCEPT ![c] = d]
        /\ mclient' = [mclient EXCEPT ![d] = c] /\ due' = [due EXCEPT ![d] = now + delay]
        /\ live' = live \cup {d} /\ msgs' = Append(msgs, PushOf(d))
        /\ UNCHANGED <<now, heap, task, outcome, deletes, armed, polled, poll>>
    BY DEF Start, fdVars, PushOf
  <1>2. /\ d \in Delegates /\ created \in Nat /\ now + delay \in 0..MaxTime /\ d \in 0..MaxStarts
        /\ d \notin live
    BY <1>0, <1>1, LocTimerAssumption DEF TimerTypeOK, Delegates, OwnersOK
  <1>3. \A e \in live : e \in Delegates /\ e # d
    BY <1>0, <1>2 DEF TimerTypeOK
  <1> HIDE DEF d
  <1>4. /\ msgs' \in Seq(Messages)
        /\ \A m : Posted(m)' <=> Posted(m) \/ m = PushOf(d)
    BY <1>0, <1>1, <1>2, MessageKinds, MessageAppended DEF TimerTypeOK
  <1>5. ~Posted(RemoveOf(d))
    <2> SUFFICES ASSUME NEW n \in 1..Len(msgs), msgs[n] = RemoveOf(d) PROVE FALSE
      BY DEF Posted
    <2>1. d \in live
      BY <1>0, <1>2, MessageKinds DEF MessagesOK, MessagesLive
    <2> QED BY <1>2, <2>1
  <1>6. TimerTypeOK'
    BY <1>0, <1>1, <1>2, <1>4 DEF TimerTypeOK
  <1>7. OwnersOK'
    <2>1. \A b \in Clients : timer'[b] # None =>
            timer'[b] \in live' /\ mclient'[timer'[b]] = b /\ outcome'[timer'[b]] = "none"
      <3>1. outcome[d] = "none"
        BY <1>0, <1>2 DEF OwnersOK, TimerTypeOK, d
      <3>2. \A b \in Clients : b # c => timer'[b] = timer[b]
        BY <1>0, <1>1 DEF TimerTypeOK
      <3>3. timer'[c] = d /\ mclient'[d] = c
        BY <1>0, <1>1, <1>2 DEF TimerTypeOK
      <3>4. \A e \in Delegates : e # d => mclient'[e] = mclient[e]
        BY <1>0, <1>1 DEF TimerTypeOK
      <3> QED BY <1>0, <1>1, <1>3, <3>1, <3>2, <3>3, <3>4 DEF OwnersOK
    <2>2. \A e \in Delegates : mclient'[e] # None => timer'[mclient'[e]] = e
      <3> TAKE e \in Delegates
      <3>1. CASE e = d
        BY <1>0, <1>1, <1>2, <3>1 DEF TimerTypeOK
      <3>2. CASE e # d /\ mclient'[e] # None
        <4>1. mclient'[e] = mclient[e] /\ mclient[e] \in Clients /\ timer[mclient[e]] = e
          BY <1>0, <1>1, <3>2 DEF TimerTypeOK, OwnersOK
        <4>2. mclient[e] # c
          BY <1>1, <4>1, LocTimerAssumption, <1>0 DEF TimerTypeOK, Delegates
        <4> QED BY <1>0, <1>1, <4>1, <4>2 DEF TimerTypeOK
      <3> QED BY <3>1, <3>2
    <2>3. \A e \in Delegates : e > created' =>
            outcome'[e] = "none" /\ deletes'[e] = 0 /\ mclient'[e] = None
      <3>1. \A e \in Delegates : e > d => e > created /\ e # d
        BY <1>2 DEF Delegates, d
      <3> QED BY <1>0, <1>1, <3>1 DEF OwnersOK, TimerTypeOK
    <2>4. live' \subseteq 1..created'
      BY <1>0, <1>1, <1>2 DEF OwnersOK, d
    <2>5. \A e \in live' : deletes'[e] = 0
      <3>1. deletes[d] = 0
        BY <1>0, <1>2 DEF OwnersOK, d
      <3> QED BY <1>0, <1>1, <3>1 DEF OwnersOK
    <2> QED BY <2>1, <2>2, <2>3, <2>4, <2>5 DEF OwnersOK
  <1>8. MessagesOK'
    <2>1. MessagesLive' /\ RemovalLast'
      BY <1>0, <1>1, <1>2, <1>5, AboutAppended DEF MessagesOK
    <2>2. RemovalPosted'
      <3> SUFFICES ASSUME NEW e \in live'
                   PROVE  Posted(RemoveOf(e))' <=> mclient'[e] = None
        BY DEF RemovalPosted
      <3>1. Posted(RemoveOf(e))' <=> Posted(RemoveOf(e))
        <4>1. RemoveOf(e) # PushOf(d)
          BY DEF RemoveOf, PushOf
        <4> QED BY <1>4, <4>1 DEF RemoveOf
      <3>2. CASE e = d
        <4>1. mclient'[d] = c /\ c # None
          BY <1>0, <1>1, <1>2, LocTimerAssumption DEF TimerTypeOK
        <4> QED BY <1>5, <3>1, <3>2, <4>1
      <3>3. CASE e # d
        <4>1. e \in live /\ mclient'[e] = mclient[e]
          BY <1>0, <1>1, <3>3 DEF TimerTypeOK
        <4> QED BY <1>0, <3>1, <4>1 DEF MessagesOK, RemovalPosted
      <3> QED BY <3>2, <3>3
    <2> QED BY <2>1, <2>2 DEF MessagesOK
  <1>9. ArmedOK'
    <2>1. Expiring' <=> Expiring
      <3>1. Expiry # PushOf(d)
        BY DEF Expiry, PushOf
      <3> QED BY <1>1, <1>4, <3>1 DEF Expiring, Expiry
    <2>2. \A e \in heap : e \in live /\ due'[e] = due[e]
      BY <1>0, <1>1, <1>3 DEF ArmedOK, TimerTypeOK
    <2> QED BY <1>0, <1>1, <2>1, <2>2 DEF ArmedOK
  <1> QED BY <1>6, <1>7, <1>8, <1>9 DEF TimerInv

LEMMA StopStep ==
  ASSUME TimerInv, NEW c \in Clients, Stop(c)
  PROVE  TimerInv'
  <1>0. TimerTypeOK /\ OwnersOK /\ MessagesOK /\ ArmedOK
    BY DEF TimerInv
  <1>1. /\ StopTimer(c, "stopped")
        /\ UNCHANGED <<now, live, heap, task, deletes, armed, polled, poll>>
    BY DEF Stop, fdVars
  <1>2. /\ msgs' \in Seq(Messages) /\ timer' \in [Clients -> Delegates \cup {None}]
        /\ mclient' \in [Delegates -> Clients \cup {None}]
        /\ outcome' \in [Delegates -> {"none", "stopped", "fired"}]
        /\ UNCHANGED <<created, due>> /\ OwnersOK' /\ MessagesOK'
        /\ Posted(Expiry)' <=> Posted(Expiry)
    BY <1>0, <1>1, StopTimerFacts
  <1>3. TimerTypeOK'
    BY <1>0, <1>1, <1>2 DEF TimerTypeOK
  <1>4. ArmedOK'
    BY <1>0, <1>1, <1>2 DEF ArmedOK, Expiring
  <1> QED BY <1>2, <1>3, <1>4 DEF TimerInv

\* The next pop, or the fd armed for the top that is not due
LEMMA PopNextFacts ==
  ASSUME TimerTypeOK, NEW stamp \in 0..MaxTime, PopNext(stamp)
  PROVE  /\ heap' \subseteq heap /\ task' \in Tasks /\ polled' \in BOOLEAN
         /\ heap' # {} => task'.at \in {"popped", "stop", "arm"}
         /\ task'.at = "arm" => polled'
         /\ task'.at = "popped" => task'.d \in heap
  <1>1. ASSUME NEW d \in heap, Pop(d, stamp)
        PROVE  /\ heap' \subseteq heap /\ task' \in Tasks /\ polled' \in BOOLEAN
               /\ task'.at = "popped" /\ task'.d \in heap
    BY <1>1, TaskFacts DEF Pop, TimerTypeOK
  <1>2. CASE UpdateSoonest(heap, TRUE) /\ heap' = heap
    BY <1>2, TaskFacts DEF UpdateSoonest, TimerTypeOK
  <1> QED BY <1>1, <1>2 DEF PopNext, Tops

LEMMA PushStep ==
  ASSUME TimerInv, ProcPush
  PROVE  TimerInv'
  <1>0. TimerTypeOK /\ OwnersOK /\ MessagesOK /\ ArmedOK
    BY DEF TimerInv
  <1>d. PICK d : d = Head(msgs).d
    OBVIOUS
  <1>1. /\ task = Idle /\ msgs # <<>> /\ msgs' = Tail(msgs) /\ Head(msgs).kind = "push"
        /\ heap' = heap \cup {d} /\ UpdateSoonest(heap', Soonest(d))
        /\ UNCHANGED <<now, live, deletes, created, timer, mclient, due, outcome, armed, poll>>
    BY <1>d DEF ProcPush, Receive, clientVars
  <1>2. /\ msgs' \in Seq(Messages) /\ Head(msgs) = msgs[1] /\ 1 \in 1..Len(msgs)
        /\ Head(msgs) \in Messages /\ \A m : Posted(m) <=> Posted(m)' \/ m = Head(msgs)
    BY <1>0, <1>1, MessageTaken DEF TimerTypeOK
  <1>3. d \in live /\ d \in Delegates
    BY <1>0, <1>1, <1>2, <1>d, MessageIs DEF MessagesOK, MessagesLive, TimerTypeOK
  <1>4. Posted(Expiry) <=> Posted(Expiry)'
    <2>1. Expiry # Head(msgs)
      BY <1>1 DEF Expiry
    <2> QED BY <1>2, <2>1 DEF Expiry
  <1>5. /\ task' \in Tasks /\ polled' \in BOOLEAN
        /\ Soonest(d) => task'.at = "arm" /\ polled'
        /\ ~Soonest(d) => task'.at = "idle" /\ polled' = polled
    BY <1>0, <1>1, TaskFacts DEF UpdateSoonest, TimerTypeOK
  <1>6. TimerTypeOK'
    BY <1>0, <1>1, <1>2, <1>3, <1>5 DEF TimerTypeOK
  <1>7. OwnersOK' /\ MessagesOK'
    BY <1>0, <1>1, OwnersKept, OtherTaken DEF clientVars
  <1>8. ArmedOK'
    <2>1. Expiring => Expiring'
      BY <1>1, <1>4, TaskFacts DEF Expiring
    <2>2. CASE Soonest(d)
      BY <1>0, <1>1, <1>3, <1>5, <2>2 DEF ArmedOK
    <2>3. CASE ~Soonest(d)
      <3>1. PICK e \in heap : ~(due[d] < due[e])
        BY <2>3 DEF Soonest
      <3>2. \A x \in Delegates : due[x] \in Nat
        BY <1>0 DEF TimerTypeOK
      <3>3. e \in Delegates
        BY <1>0 DEF TimerTypeOK
      <3>4. \/ Expiring
            \/ polled /\ armed # None /\ armed \in Nat /\ \A x \in heap : armed <= due[x]
        BY <1>0, <1>1, <3>1, TaskFacts DEF ArmedOK, TimerTypeOK
      <3>5. armed \in Nat /\ (\A x \in heap : armed <= due[x]) => armed <= due[d]
        BY <1>3, <3>1, <3>2, <3>3
      <3> QED BY <1>0, <1>1, <1>3, <1>5, <2>1, <2>3, <3>4, <3>5 DEF ArmedOK
    <2> QED BY <2>2, <2>3
  <1> QED BY <1>6, <1>7, <1>8 DEF TimerInv

LEMMA RemoveStep ==
  ASSUME TimerInv, ProcRemove
  PROVE  TimerInv'
  <1>0. TimerTypeOK /\ OwnersOK /\ MessagesOK /\ ArmedOK
    BY DEF TimerInv
  <1>d. PICK d : d = Head(msgs).d
    OBVIOUS
  <1>1. /\ task = Idle /\ msgs # <<>> /\ msgs' = Tail(msgs) /\ Head(msgs).kind = "remove"
        /\ heap' = heap \ {d} /\ live' = live \ {d}
        /\ deletes' = [deletes EXCEPT ![d] = @ + 1]
        /\ UNCHANGED <<now, created, timer, mclient, due, outcome, armed, poll>>
    BY <1>d DEF ProcRemove, Receive, Removed, clientVars
  <1>2. /\ msgs' \in Seq(Messages) /\ Head(msgs) = msgs[1] /\ 1 \in 1..Len(msgs)
        /\ Head(msgs) \in Messages /\ \A m : Posted(m) <=> Posted(m)' \/ m = Head(msgs)
    BY <1>0, <1>1, MessageTaken DEF TimerTypeOK
  <1>3. d \in live /\ d \in Delegates /\ Head(msgs) = RemoveOf(d) /\ Posted(RemoveOf(d))
    BY <1>0, <1>1, <1>2, <1>d, MessageIs
       DEF MessagesOK, MessagesLive, TimerTypeOK, Posted
  <1>4. Posted(Expiry) <=> Posted(Expiry)'
    <2>1. Expiry # Head(msgs)
      BY <1>1 DEF Expiry
    <2> QED BY <1>2, <2>1 DEF Expiry
  <1>5. /\ task' \in Tasks /\ polled' \in BOOLEAN
        /\ \/ heap' # {} /\ task'.at = "arm" /\ polled'
           \/ heap' = {} /\ task'.at = "idle" /\ polled' = polled
           \/ task'.at = "idle" /\ polled' = polled
              /\ (heap # {} => Tops(heap) \ {d} # {})
    <2>1. \/ UpdateSoonest(heap', TRUE)
          \/ Tops(heap) \ {d} # {} /\ UpdateSoonest(heap', FALSE)
          \/ heap = {} /\ UpdateSoonest(heap', FALSE)
      BY <1>d, <1>1 DEF ProcRemove
    <2> QED BY <1>0, <2>1, TaskFacts DEF UpdateSoonest, TimerTypeOK
  <1>6. deletes[d] = 0 /\ mclient[d] = None
    BY <1>0, <1>3 DEF OwnersOK, MessagesOK, RemovalPosted
  <1>7. TimerTypeOK'
    <2>1. deletes' \in [Delegates -> 0..1]
      BY <1>0, <1>1, <1>3, <1>6 DEF TimerTypeOK
    <2> QED BY <1>0, <1>1, <1>2, <1>3, <1>5, <2>1 DEF TimerTypeOK
  <1>8. OwnersOK'
    <2>1. \A c \in Clients : timer[c] # d
      BY <1>0, <1>3, <1>6, LocTimerAssumption DEF OwnersOK, TimerTypeOK, Delegates
    <2>2. d <= created /\ ~(d > created)
      BY <1>0, <1>3 DEF OwnersOK, TimerTypeOK
    <2>3. \A e \in Delegates : e # d => deletes'[e] = deletes[e]
      BY <1>0, <1>1 DEF TimerTypeOK
    <2>4. \A e \in live' : e \in Delegates /\ e # d /\ deletes'[e] = 0
      BY <1>0, <1>1, <2>3 DEF OwnersOK, TimerTypeOK
    <2>5. \A e \in Delegates : e > created =>
            outcome[e] = "none" /\ deletes'[e] = 0 /\ mclient[e] = None
      BY <1>0, <2>2, <2>3 DEF OwnersOK
    <2> QED BY <1>0, <1>1, <2>1, <2>4, <2>5 DEF OwnersOK
  <1>9. MessagesOK'
    <2>1. RemovalLast' /\ MessagesLive'
      BY <1>0, <1>1, <1>d, TailKeeps DEF MessagesLive
    <2>2. RemovalPosted'
      <3> SUFFICES ASSUME NEW e \in live, e # d
                   PROVE  Posted(RemoveOf(e))' <=> mclient'[e] = None
        BY <1>1 DEF RemovalPosted
      <3>1. RemoveOf(e) # Head(msgs)
        BY <1>3 DEF RemoveOf
      <3>2. Posted(RemoveOf(e))' <=> Posted(RemoveOf(e))
        BY <1>2, <3>1 DEF RemoveOf
      <3> QED BY <1>0, <1>1, <3>2 DEF MessagesOK, RemovalPosted
    <2> QED BY <2>1, <2>2 DEF MessagesOK
  <1>10. ArmedOK'
    <2>1. Expiring => Expiring'
      BY <1>1, <1>4, TaskFacts DEF Expiring
    <2>2. heap' \subseteq live' /\ heap' \subseteq heap
      BY <1>0, <1>1 DEF ArmedOK
    <2>3. heap # {} => \/ Expiring
                       \/ polled /\ armed # None /\ \A e \in heap : armed <= due[e]
      BY <1>0, <1>1, TaskFacts DEF ArmedOK
    <2> QED BY <1>1, <1>5, <2>1, <2>2, <2>3 DEF ArmedOK
  <1> QED BY <1>7, <1>8, <1>9, <1>10 DEF TimerInv

\* A pop, with the messages it leaves: expire() is called under way.
LEMMA PoppedArmed ==
  ASSUME TimerTypeOK, ArmedOK, UNCHANGED <<live, due, armed, poll>>,
         heap' \subseteq heap, heap' # {} => task'.at \in {"popped", "stop", "arm"},
         task'.at = "arm" => polled', task'.at = "popped" => task'.d \in live
  PROVE  ArmedOK'
  BY DEF ArmedOK, Expiring

LEMMA ExpireStep ==
  ASSUME TimerInv, ProcExpire
  PROVE  TimerInv'
  <1>0. TimerTypeOK /\ OwnersOK /\ MessagesOK /\ ArmedOK /\ now \in 0..MaxTime
    BY DEF TimerInv, TimerTypeOK
  <1>1. /\ task = Idle /\ msgs # <<>> /\ msgs' = Tail(msgs) /\ Head(msgs).kind = "expire"
        /\ (\E d \in Tops(heap) : Pop(d, now)) \/ PopNext(now)
        /\ UNCHANGED <<now, live, deletes, created, timer, mclient, due, outcome, armed, poll>>
    BY DEF ProcExpire, Receive, clientVars
  <1>2. msgs' \in Seq(Messages)
    BY <1>0, <1>1, MessageTaken DEF TimerTypeOK
  <1>3. /\ heap' \subseteq heap /\ task' \in Tasks /\ polled' \in BOOLEAN
        /\ heap' # {} => task'.at \in {"popped", "stop", "arm"}
        /\ task'.at = "arm" => polled'
        /\ task'.at = "popped" => task'.d \in heap
    <2>1. ASSUME NEW d \in Tops(heap), Pop(d, now)
          PROVE  /\ heap' \subseteq heap /\ task' \in Tasks /\ polled' \in BOOLEAN
                 /\ task'.at = "popped" /\ task'.d \in heap
      BY <1>0, <2>1, TaskFacts DEF Pop, Tops, TimerTypeOK
    <2> QED BY <1>0, <1>1, <2>1, PopNextFacts
  <1>4. TimerTypeOK'
    BY <1>0, <1>1, <1>2, <1>3 DEF TimerTypeOK
  <1>5. OwnersOK' /\ MessagesOK'
    BY <1>0, <1>1, OwnersKept, OtherTaken DEF clientVars
  <1>6. ArmedOK'
    <2>1. heap \subseteq live
      BY <1>0 DEF ArmedOK
    <2> QED BY <1>0, <1>1, <1>3, <2>1, PoppedArmed
  <1> QED BY <1>4, <1>5, <1>6 DEF TimerInv

LEMMA ReadClientStep ==
  ASSUME TimerInv, ExpireReadClient
  PROVE  TimerInv'
  <1>0. TimerTypeOK /\ OwnersOK /\ MessagesOK /\ ArmedOK /\ task \in Tasks
    BY DEF TimerInv, TimerTypeOK
  <1>1. /\ task.at = "popped" /\ task.d \in Delegates /\ task.stamp \in 0..MaxTime
        /\ UNCHANGED <<now, live, msgs, deletes, created, timer, mclient, due, outcome,
                       armed, poll>>
    BY <1>0, TaskFacts DEF ExpireReadClient, clientVars
  <1>2. /\ heap' \subseteq heap /\ task' \in Tasks /\ polled' \in BOOLEAN
        /\ heap' # {} => task'.at \in {"popped", "stop", "arm"}
        /\ task'.at = "arm" => polled'
        /\ task'.at = "popped" => task'.d \in heap
    <2>1. CASE /\ mclient[task.d] # None
               /\ task' = [at |-> "stop", c |-> mclient[task.d], stamp |-> task.stamp]
               /\ UNCHANGED <<heap, polled>>
      <3>1. mclient[task.d] \in Clients
        BY <1>0, <1>1, <2>1 DEF TimerTypeOK
      <3>2. task' \in Tasks /\ task'.at = "stop"
        BY <1>1, <2>1, <3>1, TaskFacts
      <3> QED BY <1>0, <2>1, <3>2 DEF TimerTypeOK
    <2>2. CASE PopNext(task.stamp)
      BY <1>0, <1>1, <2>2, PopNextFacts
    <2> QED BY <2>1, <2>2 DEF ExpireReadClient
  <1>3. TimerTypeOK'
    BY <1>0, <1>1, <1>2 DEF TimerTypeOK
  <1>4. OwnersOK' /\ MessagesOK'
    BY <1>0, <1>1, OwnersKept, MessagesKept DEF clientVars
  <1>5. ArmedOK'
    <2>1. heap \subseteq live
      BY <1>0 DEF ArmedOK
    <2> QED BY <1>0, <1>1, <1>2, <2>1, PoppedArmed
  <1> QED BY <1>3, <1>4, <1>5 DEF TimerInv

LEMMA ExpireStopStep ==
  ASSUME TimerInv, ExpireStop
  PROVE  TimerInv'
  <1>0. TimerTypeOK /\ OwnersOK /\ MessagesOK /\ ArmedOK /\ task \in Tasks
    BY DEF TimerInv, TimerTypeOK
  <1>1. /\ task.at = "stop" /\ task.c \in Clients /\ task.stamp \in 0..MaxTime
        /\ UNCHANGED <<now, live, deletes, armed, poll>> /\ PopNext(task.stamp)
        /\ \/ StopTimer(task.c, "fired")
           \/ UNCHANGED <<msgs, created, timer, mclient, due, outcome>>
    BY <1>0, TaskFacts DEF ExpireStop, clientVars
  <1>2. /\ heap' \subseteq heap /\ task' \in Tasks /\ polled' \in BOOLEAN
        /\ heap' # {} => task'.at \in {"popped", "stop", "arm"}
        /\ task'.at = "arm" => polled'
        /\ task'.at = "popped" => task'.d \in heap
    BY <1>0, <1>1, PopNextFacts
  <1>3. /\ msgs' \in Seq(Messages) /\ timer' \in [Clients -> Delegates \cup {None}]
        /\ mclient' \in [Delegates -> Clients \cup {None}]
        /\ outcome' \in [Delegates -> {"none", "stopped", "fired"}]
        /\ UNCHANGED <<created, due>> /\ OwnersOK' /\ MessagesOK'
    <2>1. CASE StopTimer(task.c, "fired")
      BY <1>0, <1>1, <2>1, StopTimerFacts
    <2>2. CASE UNCHANGED <<msgs, created, timer, mclient, due, outcome>>
      <3>1. OwnersOK' /\ MessagesOK'
        BY <1>0, <1>1, <2>2, OwnersKept, MessagesKept DEF clientVars
      <3> QED BY <1>0, <2>2, <3>1 DEF TimerTypeOK
    <2> QED BY <1>1, <2>1, <2>2
  <1>4. TimerTypeOK'
    BY <1>0, <1>1, <1>2, <1>3 DEF TimerTypeOK
  <1>5. ArmedOK'
    <2>1. heap \subseteq live
      BY <1>0 DEF ArmedOK
    <2> QED BY <1>0, <1>1, <1>2, <1>3, <2>1, PoppedArmed
  <1> QED BY <1>3, <1>4, <1>5 DEF TimerInv

LEMMA ArmStep ==
  ASSUME TimerInv, Arm
  PROVE  TimerInv'
  <1>0. TimerTypeOK /\ OwnersOK /\ MessagesOK /\ ArmedOK
    BY DEF TimerInv
  <1>1. PICK d \in Tops(heap) : armed' = due[d]
    BY DEF Arm
  <1>2. /\ task.at = "arm" /\ task' = Idle
        /\ UNCHANGED <<now, live, heap, msgs, deletes, created, timer, mclient, due, outcome,
                       polled, poll>>
    BY DEF Arm, clientVars
  <1>3. d \in heap /\ d \in Delegates /\ (\A e \in heap : due[d] <= due[e]) /\ due[d] \in 0..MaxTime
    BY <1>0 DEF Tops, TimerTypeOK
  <1>4. TimerTypeOK'
    BY <1>0, <1>1, <1>2, <1>3, TaskFacts DEF TimerTypeOK
  <1>5. OwnersOK' /\ MessagesOK' /\ (Posted(Expiry)' <=> Posted(Expiry))
    BY <1>0, <1>2, OwnersKept, MessagesKept DEF clientVars
  <1>6. ArmedOK'
    <2>1. armed' # None
      BY <1>1, <1>3, LocTimerAssumption
    <2> QED BY <1>0, <1>1, <1>2, <1>3, <1>5, <2>1, TaskFacts DEF ArmedOK, Expiring
  <1> QED BY <1>4, <1>5, <1>6 DEF TimerInv

-----------------------------------------------------------------------------
\* The poll thread and the clock

LEMMA PollStepKeeps ==
  ASSUME TimerInv, PollThread
  PROVE  TimerInv'
  <1>0. TimerTypeOK /\ OwnersOK /\ MessagesOK /\ ArmedOK
    BY DEF TimerInv
  <1>1. /\ UNCHANGED <<now, live, heap, task, deletes, created, timer, mclient, due, outcome>>
        /\ poll' \in {"wait", "disarm", "unpoll", "send"}
        /\ armed' \in {armed, None} /\ polled' \in {polled, FALSE}
        /\ \/ poll' # "wait" /\ msgs' = msgs
           \/ msgs' = Append(msgs, Expiry)
    BY DEF PollThread, PollWakes, PollDisarms, PollRemoves, PollSends, PollStep, clientVars, Expiry
  <1>2. MessagesOK' /\ msgs' \in Seq(Messages) /\ (poll' # "wait" \/ Posted(Expiry)')
    <2>1. CASE poll' # "wait" /\ msgs' = msgs
      BY <1>0, <1>1, <2>1, MessagesKept DEF TimerTypeOK
    <2>2. CASE msgs' = Append(msgs, Expiry)
      <3>1. Expiry \in Messages
        BY DEF Messages, Expiry
      <3>2. msgs' \in Seq(Messages) /\ \A m : Posted(m)' <=> Posted(m) \/ m = Expiry
        BY <1>0, <2>2, <3>1, MessageAppended DEF TimerTypeOK
      <3>3. Posted(Expiry)'
        BY <3>2 DEF Expiry
      <3> QED BY <1>0, <1>1, <2>2, <3>2, <3>3, ExpiryAppended
    <2> QED BY <1>1, <2>1, <2>2
  <1>3. TimerTypeOK'
    BY <1>0, <1>1, <1>2 DEF TimerTypeOK
  <1>4. OwnersOK'
    BY <1>0, <1>1, OwnersKept DEF clientVars
  <1>5. ArmedOK'
    BY <1>0, <1>1, <1>2 DEF ArmedOK, Expiring
  <1> QED BY <1>2, <1>3, <1>4, <1>5 DEF TimerInv

LEMMA TickStep ==
  ASSUME TimerInv, Tick \/ UNCHANGED timerVars
  PROVE  TimerInv'
  <1>0. TimerTypeOK /\ OwnersOK /\ MessagesOK /\ ArmedOK
    BY DEF TimerInv
  <1>1. /\ UNCHANGED <<live, heap, msgs, task, deletes, created, timer, mclient, due, outcome,
                       armed, polled, poll>>
        /\ now' \in 0..MaxTime
    BY <1>0, LocTimerAssumption DEF Tick, timerVars, clientVars, fdVars, TimerTypeOK
  <1>2. TimerTypeOK'
    BY <1>0, <1>1 DEF TimerTypeOK
  <1>3. OwnersOK' /\ MessagesOK' /\ (Posted(Expiry)' <=> Posted(Expiry))
    BY <1>0, <1>1, OwnersKept, MessagesKept DEF clientVars
  <1>4. ArmedOK'
    BY <1>0, <1>1, <1>3 DEF ArmedOK, Expiring
  <1> QED BY <1>2, <1>3, <1>4 DEF TimerInv

LEMMA TimerInitOK == TimerInit => TimerInv
  <1> SUFFICES ASSUME TimerInit PROVE TimerInv
    OBVIOUS
  <1>1. TimerTypeOK
    <2>1. now \in 0..MaxTime /\ created \in 0..MaxStarts
      BY LocTimerAssumption DEF TimerInit
    <2>2. /\ timer \in [Clients -> Delegates \cup {None}]
          /\ mclient \in [Delegates -> Clients \cup {None}]
      BY DEF TimerInit
    <2>3. due \in [Delegates -> 0..MaxTime] /\ deletes \in [Delegates -> 0..1]
      BY LocTimerAssumption DEF TimerInit
    <2>4. outcome \in [Delegates -> {"none", "stopped", "fired"}] /\ msgs \in Seq(Messages)
      BY DEF TimerInit
    <2>5. task \in Tasks
      BY TaskFacts DEF TimerInit
    <2> QED BY <2>1, <2>2, <2>3, <2>4, <2>5, Zenon DEF TimerInit, TimerTypeOK
  <1>2. OwnersOK
    BY DEF TimerInit, OwnersOK
  <1>3. MessagesOK
    BY DEF TimerInit, MessagesOK, MessagesLive, RemovalPosted, RemovalLast
  <1>4. ArmedOK
    BY TaskFacts DEF TimerInit, ArmedOK
  <1> QED BY <1>1, <1>2, <1>3, <1>4 DEF TimerInv

LEMMA TimerStepOK == TimerInv /\ [TimerNext]_timerVars => TimerInv'
  BY StartStep, StopStep, PushStep, RemoveStep, ExpireStep, ReadClientStep,
     ExpireStopStep, ArmStep, PollStepKeeps, TickStep DEF TimerNext, MsgTask

\* The strengthening: a client and its delegate point to each other, the removal
\* of a delegate is posted once and last, and as long as no expiry is under way
\* the fd is armed, or about to be, for the soonest timer.
THEOREM TimerInductive == TimerSpec => []TimerInv
  <1>1. TimerInit => TimerInv
    BY TimerInitOK
  <1>2. TimerInv /\ [TimerNext]_timerVars => TimerInv'
    BY TimerStepOK
  <1> QED BY <1>1, <1>2, PTL DEF TimerSpec

\* For any clients, timers and delays: "all timers are deleted here, and only
\* here" (LocTimer.cpp:344), so that no client, heap node or message refers to a
\* delegate that is gone, and none is deleted twice.
THEOREM DelegatesAlive == TimerSpec => [](NoDeletedDelegate /\ TimerTypeOK)
  <1>1. TimerInv => NoDeletedDelegate /\ TimerTypeOK
    <2> SUFFICES ASSUME TimerInv PROVE NoDeletedDelegate /\ TimerTypeOK
      OBVIOUS
    <2>0. TimerTypeOK /\ OwnersOK /\ MessagesOK /\ ArmedOK
      BY DEF TimerInv
    <2>1. DOMAIN msgs = 1..Len(msgs)
      BY <2>0 DEF TimerTypeOK
    <2>2. \A m \in Pending("push") \cup Pending("remove") : m.d \in live
      BY <2>0, <2>1 DEF Pending, MessagesOK, MessagesLive
    <2> QED BY <2>0, <2>2 DEF NoDeletedDelegate, ArmedOK, OwnersOK
  <1> QED BY <1>1, TimerInductive, PTL

\* For any clients, timers and delays: a delegate waits for its deletion exactly
\* when its client let go of it (destroyLocked): none is leaked.
THEOREM NothingKept == TimerSpec => []RemovedWhenReleased
  <1>1. TimerInv => RemovedWhenReleased
    <2> SUFFICES ASSUME TimerInv, NEW d \in live
                 PROVE  (\A c \in Clients : timer[c] # d)
                          <=> \E m \in Pending("remove") : m.d = d
      BY DEF RemovedWhenReleased
    <2>0. TimerTypeOK /\ OwnersOK /\ MessagesOK /\ ArmedOK /\ d \in Delegates
      BY DEF TimerInv, TimerTypeOK
    <2>1. DOMAIN msgs = 1..Len(msgs) /\ \A n \in 1..Len(msgs) : msgs[n] \in Messages
      BY <2>0 DEF TimerTypeOK
    <2>2. (\A c \in Clients : timer[c] # d) <=> mclient[d] = None
      <3>1. ASSUME NEW c \in Clients, timer[c] = d PROVE mclient[d] # None
        BY <2>0, <3>1, LocTimerAssumption DEF OwnersOK, Delegates
      <3>2. mclient[d] # None => mclient[d] \in Clients /\ timer[mclient[d]] = d
        BY <2>0 DEF OwnersOK, TimerTypeOK
      <3> QED BY <3>1, <3>2
    <2>3. (\E m \in Pending("remove") : m.d = d) <=> Posted(RemoveOf(d))
      <3>1. ASSUME NEW n \in 1..Len(msgs)
            PROVE  msgs[n] = RemoveOf(d) <=> msgs[n].kind = "remove" /\ msgs[n].d = d
        BY <2>0, <2>1, MessageIs, MessageKinds
      <3>2. (\E m \in Pending("remove") : m.d = d)
              <=> \E n \in 1..Len(msgs) : msgs[n].kind = "remove" /\ msgs[n].d = d
        BY <2>1 DEF Pending
      <3> QED BY <3>1, <3>2 DEF Posted
    <2> QED BY <2>0, <2>2, <2>3 DEF MessagesOK, RemovalPosted
  <1> QED BY <1>1, TimerInductive, PTL

\* For any clients, timers and delays: no interleaving of the poll thread's
\* disarming and the message task's arming (LocTimer.cpp:377 and 299) loses the
\* expiry of the soonest timer.
THEOREM SoonestIsArmed == TimerSpec => []ArmedForSoonest
  <1>1. TimerInv => ArmedForSoonest
    <2> SUFFICES ASSUME TimerInv, heap # {}, poll = "wait", Pending("expire") = {}, task = Idle
                 PROVE  polled /\ armed # None /\ \A d \in heap : armed <= due[d]
      BY DEF ArmedForSoonest
    <2>1. TimerTypeOK /\ ArmedOK
      BY DEF TimerInv
    <2>2. DOMAIN msgs = 1..Len(msgs)
      BY <2>1 DEF TimerTypeOK
    <2>3. ~Posted(Expiry)
      BY <2>2 DEF Posted, Pending, Expiry
    <2> QED BY <2>1, <2>3, TaskFacts DEF ArmedOK, Expiring
  <1> QED BY <1>1, TimerInductive, PTL

\* For any clients, timers and delays: a timer that its client stopped is never
\* fired, and one that fired is never stopped again (LocTimer.cpp:524 reads
\* mClient without the lock).
THEOREM TimerEndsOnce == TimerSpec => EndsOnce
  <1> DEFINE Ended == \A d \in Delegates : outcome[d] # "none" => outcome'[d] = outcome[d]
  <1>1. TimerInv /\ [TimerNext]_timerVars => [Ended]_timerVars
    <2> SUFFICES ASSUME TimerInv, TimerNext PROVE Ended
      OBVIOUS
    <2>0. TimerTypeOK /\ OwnersOK /\ MessagesOK /\ task \in Tasks
      BY DEF TimerInv, TimerTypeOK
    <2>1. ASSUME NEW c \in Clients, Stop(c) PROVE Ended
      BY <2>0, <2>1, StopTimerFacts DEF Stop
    <2>2. CASE ExpireStop
      <3>1. task.c \in Clients
        BY <2>0, <2>2, TaskFacts DEF ExpireStop
      <3>2. CASE StopTimer(task.c, "fired")
        BY <2>0, <2>2, <3>1, <3>2, StopTimerFacts DEF ExpireStop
      <3>3. CASE UNCHANGED clientVars
        BY <3>3 DEF clientVars
      <3> QED BY <2>2, <3>2, <3>3 DEF ExpireStop
    <2>3. CASE UNCHANGED outcome
      BY <2>3
    <2> QED BY <2>1, <2>2, <2>3
         DEF TimerNext, MsgTask, Start, ProcPush, ProcRemove, ProcExpire, Arm,
             ExpireReadClient, PollThread, PollWakes, PollDisarms, PollRemoves,
             PollSends, PollStep, Tick, clientVars
  <1> QED BY <1>1, TimerInductive, PTL DEF EndsOnce, TimerSpec
=============================================================================
