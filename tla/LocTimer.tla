------------------------------ MODULE LocTimer ------------------------------
(***************************************************************************)
(* The timer service of gps/utils/LocTimer.cpp, for the timers of one      *)
(* LocTimerContainer.                                                      *)
(*                                                                         *)
(* A client's LocTimer owns at most one LocTimerDelegate.  The heap of     *)
(* delegates belongs to MsgTask, which handles MsgTimerPush, MsgTimerRemove*)
(* and MsgTimerExpire in order; a poll thread waits in epoll for the       *)
(* timerfd and posts MsgTimerExpire.  Client calls run under the client's  *)
(* LocSharedLock; expire() reads mClient without it.                       *)
(*                                                                         *)
(* Clients are not destroyed here and the container exists.  The names of  *)
(* the specification have a prefix of their own, as the proofs stand       *)
(* beside those of Agps in MsgTaskProofs.                                  *)
(***************************************************************************)
EXTENDS Naturals, Sequences, FiniteSets

CONSTANTS
  Clients,    \* LocTimer objects, each used by a thread of its own
  None,       \* the NULL pointer, an fd that is not armed
  MaxStarts,  \* bound: delegates ever created
  MaxTime,    \* bound: the clock
  Delays      \* timeouts a client asks for

ASSUME LocTimerAssumption ==
  /\ None \notin Clients /\ None \notin Nat
  /\ MaxStarts \in Nat /\ MaxTime \in Nat /\ Delays \subseteq Nat

VARIABLES
  now,      \* CLOCK_BOOTTIME
  created,  \* delegates created so far
  timer,    \* LocTimer::mTimer
  mclient,  \* LocTimerDelegate::mClient
  due,      \* LocTimerDelegate::mFutureTime
  live,     \* delegates not deleted
  heap,     \* delegates in the container's tree
  msgs,     \* the messages of LocTimerMsgTask
  task,     \* MsgTask: where it is in proc()
  armed,    \* the timerfd's expiration time
  polled,   \* the timerfd is in the epoll set
  poll,     \* the poll thread: where it is in run()
  outcome,  \* history: how a delegate's timer ended
  deletes   \* history: how often a delegate was deleted

clientVars == <<created, timer, mclient, due, outcome>>
fdVars == <<armed, polled, poll>>
timerVars == <<now, live, heap, msgs, task, deletes, clientVars, fdVars>>

Delegates == 1 .. MaxStarts
Messages == [kind : {"push", "remove"}, d : Delegates] \cup {[kind |-> "expire"]}
Tasks == [at : {"idle", "arm"}]
         \cup [at : {"popped"}, d : Delegates, stamp : 0 .. MaxTime]
         \cup [at : {"stop"}, c : Clients, stamp : 0 .. MaxTime]
Idle == [at |-> "idle"]

TimerTypeOK ==
  /\ now \in 0 .. MaxTime /\ created \in 0 .. MaxStarts
  /\ timer \in [Clients -> Delegates \cup {None}]
  /\ mclient \in [Delegates -> Clients \cup {None}]
  /\ due \in [Delegates -> 0 .. MaxTime]
  /\ live \subseteq Delegates /\ heap \subseteq Delegates
  /\ msgs \in Seq(Messages) /\ task \in Tasks
  /\ armed \in 0 .. MaxTime \cup {None} /\ polled \in BOOLEAN
  /\ poll \in {"wait", "disarm", "unpoll", "send"}
  /\ outcome \in [Delegates -> {"none", "stopped", "fired"}]
  /\ deletes \in [Delegates -> 0 .. 1]

TimerInit ==
  /\ now = 0 /\ created = 0
  /\ timer = [c \in Clients |-> None]
  /\ mclient = [d \in Delegates |-> None]
  /\ due = [d \in Delegates |-> 0]
  /\ live = {} /\ heap = {} /\ msgs = <<>> /\ task = Idle
  /\ armed = None /\ polled = FALSE /\ poll = "wait"
  /\ outcome = [d \in Delegates |-> "none"]
  /\ deletes = [d \in Delegates |-> 0]

-----------------------------------------------------------------------------
\* Clients.

\* LocTimer::start without a running timer: the delegate's constructor posts the
\* push.
Start(c, delay) ==
  /\ timer[c] = None
  /\ created < MaxStarts /\ now + delay <= MaxTime
  /\ LET d == created + 1
     IN /\ created' = d
        /\ timer' = [timer EXCEPT ![c] = d]
        /\ mclient' = [mclient EXCEPT ![d] = c]
        /\ due' = [due EXCEPT ![d] = now + delay]
        /\ live' = live \cup {d}
        /\ msgs' = Append(msgs, [kind |-> "push", d |-> d])
  /\ UNCHANGED <<now, heap, task, outcome, deletes, fdVars>>

\* LocTimer::stop: mTimer is reset and destroyLocked posts the removal.
KeepsTimer(c) == timer
WithoutTimer(c) == [timer EXCEPT ![c] = None]

StopTimer(c, how) ==
  /\ timer[c] # None
  /\ timer' = WithoutTimer(c)
  /\ mclient' = [mclient EXCEPT ![timer[c]] = None]
  /\ msgs' = Append(msgs, [kind |-> "remove", d |-> timer[c]])
  /\ outcome' = [outcome EXCEPT ![timer[c]] = how]
  /\ UNCHANGED <<created, due>>

Stop(c) ==
  /\ StopTimer(c, "stopped")
  /\ UNCHANGED <<now, live, heap, task, deletes, fdVars>>

-----------------------------------------------------------------------------
\* MsgTask.

\* What the heap may have on top.
Tops(h) == {d \in h : \A e \in h : due[d] <= due[e]}

\* updateSoonestTime: the fd is polled first and armed in the next step, when
\* changed says that the top needs it.
IgnoresTop(h, changed) == UNCHANGED polled /\ task' = Idle
UpdateSoonest(h, changed) ==
  IF changed /\ h # {}
    THEN polled' = TRUE /\ task' = [at |-> "arm"]
    ELSE UNCHANGED polled /\ task' = Idle

Arm ==
  /\ task.at = "arm"
  /\ \E d \in Tops(heap) : armed' = due[d]
  /\ task' = Idle
  /\ UNCHANGED <<now, live, heap, msgs, deletes, clientVars, polled, poll>>

Receive(kind) ==
  /\ task = Idle
  /\ msgs # <<>> /\ Head(msgs).kind = kind
  /\ msgs' = Tail(msgs)

\* The pushed timer is the soonest.
Latest(d) == \A e \in heap : due[d] > due[e]
Soonest(d) == \A e \in heap : due[d] < due[e]

ProcPush ==
  /\ Receive("push")
  /\ LET d == Head(msgs).d
     IN heap' = heap \cup {d} /\ UpdateSoonest(heap', Soonest(d))
  /\ UNCHANGED <<now, live, deletes, clientVars, armed, poll>>

\* LocHeap::remove.
StaysInHeap(d) == heap
Removed(d) == heap \ {d}

\* The timer removed was on top: with equal due times it may not have been.
ProcRemove ==
  /\ Receive("remove")
  /\ LET d == Head(msgs).d
     IN /\ heap' = Removed(d)
        /\ \/ d \in Tops(heap) /\ UpdateSoonest(heap', TRUE)
           \/ Tops(heap) \ {d} # {} /\ UpdateSoonest(heap', FALSE)
           \/ heap = {} /\ UpdateSoonest(heap', FALSE)
        /\ live' = live \ {d}
        /\ deletes' = [deletes EXCEPT ![d] = @ + 1]
  /\ UNCHANGED <<now, clientVars, armed, poll>>

\* pop: a top of the heap is taken out and expire() is called on it.
Pop(d, stamp) ==
  /\ heap' = heap \ {d}
  /\ task' = [at |-> "popped", d |-> d, stamp |-> stamp]
  /\ UNCHANGED polled

\* popIfOutRanks: what is due by the time of the message.  When there is no more,
\* the fd is armed for the top.
PopNext(stamp) ==
  \/ \E d \in Tops(heap) : due[d] <= stamp /\ Pop(d, stamp)
  \/ /\ \A d \in heap : due[d] > stamp
     /\ UpdateSoonest(heap, TRUE)
     /\ UNCHANGED heap

\* MsgTimerExpire: the first pop takes the top whatever its time.
ProcExpire ==
  /\ Receive("expire")
  /\ \/ \E d \in Tops(heap) : Pop(d, now)
     \/ heap = {} /\ PopNext(now)
  /\ UNCHANGED <<now, live, deletes, clientVars, armed, poll>>

\* LocTimerDelegate::expire reads mClient, without the client's lock.
ExpireReadClient ==
  /\ task.at = "popped"
  /\ \/ /\ mclient[task.d] # None
        /\ task' = [at |-> "stop", c |-> mclient[task.d], stamp |-> task.stamp]
        /\ UNCHANGED <<heap, polled>>
     \/ mclient[task.d] = None /\ PopNext(task.stamp)
  /\ UNCHANGED <<now, live, msgs, deletes, clientVars, armed, poll>>

\* client->stop(), and timeOutCallback() if it stopped a timer.
ExpireStop ==
  /\ task.at = "stop"
  /\ \/ StopTimer(task.c, "fired")
     \/ timer[task.c] = None /\ UNCHANGED <<msgs, clientVars>>
  /\ PopNext(task.stamp)
  /\ UNCHANGED <<now, live, deletes, armed, poll>>

MsgTask ==
  ProcPush \/ ProcRemove \/ ProcExpire \/ Arm \/ ExpireReadClient \/ ExpireStop

-----------------------------------------------------------------------------
\* The poll thread: epoll_wait returns, then LocTimerContainer::expire.
Readable == polled /\ armed # None /\ armed <= now

PollStep(from, to) ==
  /\ poll = from /\ poll' = to
  /\ UNCHANGED <<now, live, heap, task, deletes, clientVars>>

PollWakes == Readable /\ PollStep("wait", "disarm") /\ UNCHANGED <<armed, polled, msgs>>
PollDisarms == PollStep("disarm", "unpoll") /\ armed' = None /\ UNCHANGED <<polled, msgs>>
PollRemoves == PollStep("unpoll", "send") /\ polled' = FALSE /\ UNCHANGED <<armed, msgs>>
PollSends ==
  /\ PollStep("send", "wait")
  /\ msgs' = Append(msgs, [kind |-> "expire"])
  /\ UNCHANGED <<armed, polled>>

PollThread == PollWakes \/ PollDisarms \/ PollRemoves \/ PollSends

Tick ==
  /\ now < MaxTime
  /\ now' = now + 1
  /\ UNCHANGED <<live, heap, msgs, task, deletes, clientVars, fdVars>>

-----------------------------------------------------------------------------
TimerNext ==
  \/ \E c \in Clients : Stop(c) \/ \E delay \in Delays : Start(c, delay)
  \/ MsgTask \/ PollThread \/ Tick

TimerSpec == TimerInit /\ [][TimerNext]_timerVars

\* Both threads run and time passes.
FairTimerSpec ==
  TimerSpec /\ WF_timerVars(MsgTask) /\ WF_timerVars(PollThread) /\ WF_timerVars(Tick)

-----------------------------------------------------------------------------
\* "all timers are deleted here, and only here" (LocTimer.cpp:344): the client, the
\* heap and the messages refer to delegates that are not deleted, and none is
\* deleted twice.
Pending(kind) == {m \in {msgs[i] : i \in DOMAIN msgs} : m.kind = kind}

NoDeletedDelegate ==
  /\ heap \subseteq live
  /\ \A c \in Clients : timer[c] # None => timer[c] \in live
  /\ \A m \in Pending("push") \cup Pending("remove") : m.d \in live
  /\ task.at = "popped" => task.d \in live

\* A delegate is waiting for its deletion exactly when its client let go of it:
\* none is leaked, none is removed under a running timer.
RemovedWhenReleased ==
  \A d \in live :
    (\A c \in Clients : timer[c] # d)
      <=> \E m \in Pending("remove") : m.d = d

\* Unless a MsgTimerExpire is under way or about to be, the fd is polled and armed
\* for the soonest timer of the heap: no interleaving of the poll thread's disarm
\* with MsgTask's arming loses it.
ArmedForSoonest ==
  heap # {} /\ poll = "wait" /\ Pending("expire") = {} /\ task = Idle =>
    polled /\ armed # None /\ \A d \in heap : armed <= due[d]

\* A timer ends once: stopped by its client or fired, never both.
EndsOnce ==
  [][\A d \in Delegates : outcome[d] # "none" => outcome'[d] = outcome[d]]_timerVars

\* Every timer that runs fires or is stopped.
TimerEnds ==
  \A c \in Clients, d \in Delegates : timer[c] = d ~> outcome[d] # "none"

\* "only if stop() returns true, i.e. it hasn't been stopped already"
\* (LocTimer.cpp:528): a callback is for the timer that expired, so none is called
\* before its timer is due.  This does not hold: see README section 5.
NoEarlyExpiry ==
  \A d \in Delegates : outcome[d] = "fired" => due[d] <= now
=============================================================================
