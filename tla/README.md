# Models of the location stack and of IPA offloading

This directory holds TLA+ models of the concurrent and stateful parts of the
device tree for the Motorola athene, model-checked with TLC and proved with
TLAPS. `PROJECT.json` maps every definition to the lines it
was translated from. Paths below are relative to the repository's sources.

The repository is a device tree: most of its 2862 files are makefiles,
overlays, tables and policies. The program in it that has state of its own is

* the **GPS location stack** (`gps/`): C++ and C between the Android framework
  and the modem's location engine, over QMI (`loc_api_v02`) or RPC
  (`libloc_api-rpc-50001`), with a timer service and a message task underneath;
* the **IPA configuration manager** (`data-ipa-cfg-mgr/`): the daemon `ipacm`,
  which offloads NAT connections to the IPA hardware, the library `ipanat`,
  which shares the NAT table with that hardware, and a HAL service on top.

The rest (lights, power hints, fingerprint wrapper, the dtb tool, two apps) is
forwarding code, sequential tools or user interface.

## 1. Inventory

For each component: its state, its operations, whom it talks to, what is hard
about it, and what makes it correct. "Model" names the module, if there is one.

### Location stack

| component | state | operations | hard behaviour | correct when | model |
|---|---|---|---|---|---|
| synchronous QMI requests, `loc_api_sync_req.c` | eight slots with a lock and a condition variable each, a map of slots in use, the flag `in_use` | `loc_sync_send_req`, `loc_sync_process_ind` | callers, the callback thread and time-outs race; a slot holds a pointer into a caller's stack frame | an answer goes to the call that asked, never into a frame that is gone; no slot leaks; calls return | `SyncReq` |
| synchronous RPC ioctls, `loc_api_sync_call.c` | slots with a lock each, dropped during the RPC | `loc_api_sync_ioctl`, `loc_api_callback_process_sync_call` | the callback may come before the ioctl returns, or late | one callback ends at most one call, one whose client and ioctl it was issued for | `SyncCall`, `SyncService` |
| network-initiated requests, `loc_eng_ni.cpp` | two sessions: raw request, response, thread | request handler, response, reset on modem restart, time-out | three kinds of threads, only part of the state under the session's lock | each request is answered at most once, is not lost, and the session becomes free again | `NiSession` |
| AGPS resource machine, `loc_eng_agps.cpp` | state, list of subscribers | subscribe, unsubscribe, granted, denied, released, restart | the framework's answers carry no request number and meet later states | who was told GRANTED has the interface, or its loss is on its way; it is held for someone | `Agps` |
| timer service, `LocTimer.cpp`, `LocHeap.cpp` | heap of running timers, timerfd, epoll set, the clients' delegates | start, stop, expire; three messages | client threads, the message task and the poll thread; a delegate is shared by all | a timer ends once; the soonest timer is armed; nothing freed is used | `LocTimer` |
| message task, thread, queue: `MsgTask.cpp`, `LocThread.cpp`, `msg_q.c` | linked list, lock, condition variable | snd, rcv, unblock, destroy | destruction against a worker that waits | messages in order, none lost before the unblock | planned |
| data-service machine and `ds_client.c` | state of a data call, retry counter, timer | start, stop and close a call; retries | events of the data service against the retry timer | a call that was started is closed | planned |
| contexts and adapters, `gps/core` | list of adapters, event masks | add and remove adapters, forward events | registration during an event | the mask is the union of the adapters' masks | planned |
| session and HAL entry points, `loc_eng.cpp` | session flags, messages by number | start, stop, restart of the engine | restart between start and stop | a session that was started is restarted | planned |
| daemon connection, NMEA, XTRA, PPS, configuration | little or none | parsing, formatting, forwarding | none | data is forwarded | not modelled |
| `LocApiV02`, `LocApiRpc`, stubs | none | translation of structures, generated marshalling | none | | not modelled |

The components interact as follows. The framework calls `loc.cpp`, which posts a
message to the one **message task** of the process. `loc_eng` handles it and
calls the adapter and `LocApi*`, which send a synchronous request through
`SyncReq` (QMI) or `SyncCall` (RPC) and block that task until the indication or
the time-out. Indications come on a callback thread of their own. Those for a
request end in the slot; the others are posted to the message task, among them
NI requests, AGPS requests and a restart of the modem. `Agps` in turn calls the
framework and is answered by messages. NI requests wait in a detached thread
each. Timers are armed in the kernel by the timer service's own task.

### IPA offloading

| component | state | operations | hard behaviour | correct when | model |
|---|---|---|---|---|---|
| NAT table, `ipa_nat_drvi.c` | base, expansion and index tables in memory shared with the hardware; handles | add and delete a rule | the hardware follows the chains while they are written; an ioctl may fail half-way | an installed rule is found at every write, a deleted one is not, nothing leaks | `NatTable` |
| NAT connections, `IPACM_Conntrack_NATApp.cpp`, `IPACM_ConntrackListener.cpp` | cache, temporary entries, lists of clients and of sleeping clients, WAN address | WAN up and down, connection opened and closed, client added, removed, asleep, awake | long event sequences over lists that were computed at different times; adds that fail in loops | cache and table agree, closed connections are forgotten, sleeping clients are not offloaded | `NatApp` |
| event queues and objects, `IPACM_CmdQueue.cpp`, `IPACM_EvtDispatcher.cpp`, `IPACM_IfaceManager.cpp` | two queues and a condition variable, list of listeners, an object for each interface | post, dispatch, register, deregister, create and delete objects | objects that are made and delete themselves while the list is walked; events posted to oneself | the walk meets a freed pair only after a cradle that makes way; each interface has the object its link calls for | `Dispatcher` |
| offload manager, `IPACM_OffloadManager.cpp` | upstream flags and gateway | set upstream, add and remove downstreams | the flags do not name the interface they stand for | routes are posted for the current upstream | `Tether` |
| upstreams, `IPACM_Wan.cpp` | addresses, default route, header of the gateway, lists shared by all objects | route added and deleted, address, gateway, link lost | several objects react to one route; withdrawal depends on a list others shorten | what was announced to the LAN side can be withdrawn | `Tether` |
| LAN interfaces, `IPACM_Lan.cpp` | families, upstreams and downstreams known, rules installed | address, upstream and downstream up and down, link lost | three kinds of events in any order decide about one rule | a rule exactly while an upstream and a downstream are there | `Tether` |
| bridging, `IPACM_LanToLan.cpp` | interfaces, their clients and peers, counts of peers by header type, rules | interface up and down, client added and deleted | rules and contexts are shared by all peers of one header type; clients come before their interface | each client is reached from every peer, nothing leads to one that left | `LanToLan` |
| Wi-Fi stations, `IPACM_Wlan.cpp`, and neighbours, `IPACM_Neighbor.cpp` | array of stations with headers and rules; MAC addresses with the last IPv4 address | join, leave, sleep, wake, address, access point up and down | driver and kernel report in any order; the array is closed up; adds fail half-way | the hardware has the entries of the stations present and what half-failed adds left; a known address reaches its station | `WlanClients` |
| routing, filtering, headers | none | one ioctl for each call | none | | not modelled |
| configuration, netlink, HAL service, log | little | parsing, forwarding | none | | not modelled |

The netlink, conntrack and HAL threads post events to the queues; one dispatcher
thread hands each event to the listeners, `ConntrackListener` among them. That
one calls `NatApp`, and `NatApp` calls `ipanat`, which writes the shared table
and asks the kernel driver for DMA writes where the hardware must not see
intermediate states. A second thread of the listener reads time stamps.

## 2. The modules

Every module is a translation of one component. Its constants are assumed no
more than the code needs, and every bound is named in a comment that says
"bound". An `MC` module gives values to constants that a configuration cannot
express; the actions and properties are those of the component itself.

### SyncReq - synchronous QMI requests

A thread's `pc` follows `loc_sync_send_req`: `Call` allocates a slot under
`loc_sync_call_mutex` (`CallNoSlot` when there is none), `Select` fills it under
its own lock, `SendAccepted` and `SendRefused` are the QMI message, which is
external, `CheckSlot` the test without a lock in `loc_sync_wait_for_ind`,
`EnterWait`, `WaitEnds` and `Resume` the timed wait, `FreeInner` and `FreeOuter`
the two frees of a failed call; `AttemptEnds` goes back to the send while retries
are left. `ProcessInd` is `loc_sync_process_ind`, one step, because it holds
`loc_sync_call_mutex` over the scan.
A step is a region under a mutex, an unlocked read of shared data, or an
external call. `got` records what was copied into the caller's buffer, which
the properties compare with the request.

### SyncCall and SyncService - synchronous RPC ioctls

`SyncCall` has the slots with their own locks: `Call` and the trylock scan of
`loc_lock_a_slot` (`Claim`, `Skip`, `NoSlot`), the lock dropped for the RPC and
taken again (`IoctlAccepted`, `IoctlRefused`), the timed wait (`Arrived`, `Wait`,
`TimedOut`), and the callback thread's scan slot by slot (`Callback`, `Scan`,
`ScanEnds`). A callback has the handle, the event mask and the type of its
report; `MatchCallback` is `loc_match_callback`, which does not look at the type
when the mask has another event beside the report. The variables `req`, `events`,
`outcome` and `owed` are history.
`SyncService` says what is promised without any slot: callbacks are delivered one
at a time; a call begins, may be answered by the callback being delivered if that
was issued for its request, returns that answer, or fails; a callback
ends one call at most. What a callback is issued for is the constant `Suits` of
the service, given by `IssuedFor`: same client, a report in the mask, and the type
asked for when there is nothing but the report. `ServiceSpec` states that
`SyncCall` implements the service under the mapping `Service`: a match against a
slot that meanwhile serves another client or type would not be a step of it.

### NiSession - network-initiated requests

`RequestNi` is the request handler, `EngineDown` and `Reset` the reset after a
modem restart, step by step as its test, free and lock are, `InformNiResponse`
the message that answers the modem, `Respond` and `SetResponse` the two halves of
a user's response (the unlocked check of the id, then the locked store),
`NiThread` the detached thread: wait, decision under the lock (`ReadRaw`,
`ClearRaw`), message, and the final writes after the unlock (`Finish`). A request is identified by the
`reqID` given to it, which also stands for its raw request. Memory is modelled
as `freed`, the number of times a raw request was freed.

### Agps - the AGPS resource state machine

`Subscribe`, `Unsubscribe`, `OnRsrcEvent` (the handlers of the four state
classes for granted, denied and released) and `EngineUp` (the flush after a
modem restart) are the methods, each run by the message task. The framework is
external: it takes `commands` in order and puts `answers` in order, from
`Framework` and `ConnectionLost`. `told` is the last event each subscriber was
sent, `command` the last command given, `nif` what the framework holds. `GrantIsTruth`
relates all three: who was told GRANTED, the machine's state, and an interface
that is open or whose loss is among `answers`.

### LocTimer - the timer service

`Start` and `Stop` are client calls under the client's lock. `MsgTask` handles
the messages push, remove and expire (`ProcPush`, `ProcRemove`, `ProcExpire`).
An expiration goes on in `ExpireReadClient` and `ExpireStop`, because
`LocTimerDelegate::expire` reads `mClient` without the lock, and `Arm` sets the
timerfd. `PollThread` is epoll, disarm, leave the set, post. `Tick` advances the clock. The heap is the
set of its delegates and its top one of the soonest. Its specification is
`TimerSpec`, with fairness `FairTimerSpec`; its names have a prefix because its
proofs and those of `Agps` share a module.

### NatTable - the table shared with the hardware

Each store of an entry into the shared memory is a step, since the hardware
reads at any time: `AddGenerate` (search of the chains), `AddCopy`, `AddLink`,
`AddIndexCopy`, `AddIndexLink`, `AddEnable`, and `DeleteBegin`, `DeleteDma`
(the DMA commands of one deletion, one write at a time), `DeleteClean`,
`DeleteDone`. `AddLinkFails`, `AddIndexLinkFails` and `AddEnableFails` are
failures of an ioctl; `AddHangs` is the search that does not end once a chain
has a loop. `Chain` is what the hardware reaches from a bucket, with which
the properties state its lookups. Its specification is `TableSpec`; names that
`NatApp` has too carry a prefix, because the proofs of both share a module.

### NatApp - offloaded connections

One event at a time, each to its end: `WanUp`, `WanUpFails`, `WanDown`,
`Open`, `Close`, `AddNatClient`, `DelNatClient`, `AddOtherClient`,
`DelOtherClient`, `PowerSave`, `Recover`. `nat` holds the cache, the counter
`curCnt`, the rules in the hardware table and those whose deletion failed;
`temp` the entries of clients not yet known. Which adds and deletions of a loop
fail is a choice of the step, expressed by operators that return the set of
outcomes (`Added`, `Readded`, `Uninstalled`, `DeleteEntry`).
`pub_ip_addr_pre` and `PwrSaveIfs`, which the constructor does not set, are
chosen freely in `Init`.

### LanToLan - bridging between tethered interfaces

The actions are the handlers of the five events of `IPACM_LanToLan`: `IfaceUp`
and `AssignFamily` (an interface new, or known with the other family),
`IfaceDown` and `UnknownIfaceDown`, `ClientAdd`, `CacheClient` for a client whose
interface is not known yet, and `ClientDel`. `peers` and `ref` are each
interface's list of peers and its counts of them by header type; `flt`, `rt` and
`ctx` are the filter rules, routing rules and header processing contexts whose
handles are kept. A handle that is overwritten, or forgotten without a deletion,
puts what it led to into `leaked`. The properties compare all this with what
interfaces, families and clients of the moment call for (`WantedFlt`,
`WantedRt`, `WantedCtx`).

### Dispatcher - event queues and interface objects

`LinkUp`, `LinkDown`, `AssignAddr`, `PostAddr` and `EditConfig` are drivers,
netlink and the configuration file: they post to the external queue. One
thread (`Process`) fetches from the internal queue first (`FetchInternal`,
`FetchExternal`, `Wait`) and walks the list of pairs of event and object
(`Visit`, `EndWalk`), reading the next pointer of a pair before it calls the
object. `ManagerCallback`, `LanCallback` and `WanCallback` are what the callbacks
do to objects and queues: the manager creates objects, which register at the
end of the list; an object of a station or a mobile interface deletes itself at
once, one of a LAN or an access point posts `LAN_DELETE_SELF` to itself and is
deleted when this is handled. The list is kept as the sequence of the objects, since an
object registers and removes its pairs together.

The category of a USB interface, which the configuration file (`xml`, at first one
of `Files`) may change once (`edited`), decides what its object is: an `IPACM_Lan`
for LAN_IF, one that does not register for changes of the configuration for
ETH_IF, and an `IPACM_Wan` of kind `ECM_WAN`, a cradle, for WAN_IF (`ClassOf`;
`LanOrder`, `EthOrder`, `WanOrder` are what they register). When the
category changes, the first posts its own end and the link-up event after it
(`GoDown`, `Relink`), the second stays, and the cradle posts the link-up event and
deletes itself at once, with pairs that follow the one the walk is at. The
walk then goes on to a freed pair (`ReadFreed`). What is read there is undefined:
the pair as it was left, or whatever the memory holds by now, so that
the walk goes on at any object, ends, or the process dies (`thread` is "crashed",
after which nothing happens).

### Tether - upstreams and downstreams

The framework's thread calls `setUpstream` (and then `PostRoute` for each event
it posts), `addDownstream` and `removeDownstream` (`PostDownstream`); drivers and netlink post
links, addresses and neighbours; one thread handles the events. `wan[i]` is the
`IPACM_Wan` of an interface and `lan` the `IPACM_Lan`, each a record of the
members that decide; `wan_up`, `backhaul_is_sta_mode` and `tethered` are the
static members they share. An operator named like a function of the code is
that function, from the state it reads to the state it leaves: `RouteAdd` and
`WanEvent` give the event to each registered `IPACM_Wan` in the order of
registration, for which `order` stands, and `LanReaction` is the LAN object's
handler. `sta_rules` and `modem_rules` count the uplink rules in the kernel
beside the flags that say which the object believes to be there.

### WlanClients - Wi-Fi stations

`Join`, `Leave`, `Sleep`, `Wake` are the driver's events; `NewNeigh4`,
`NewNeigh6`, `NewMac` and `DelNeigh` those of the kernel's neighbour table as
`IPACM_Neighbor` handles them, which posts the address it learned or remembers;
`ClientAddr` is that event as the access point handles it; `LinkUp`, `LinkDown`
and `ResetV6` are the access point's own. `slots[p]` is the array of an access
point as a sequence, closed up by `Leave`; `ps[p]` is `power_save_set` of its
slots, the one member that the code does not move. The handles of a client
(`Handles`) are those of its headers and of the rules it has for its addresses;
each leads to an entry of the hardware, `EntriesOf` is the bag of these
entries, and `hw` the bag of all that the hardware has. Every add may fail: in
`Route` any one of the rules that a client lacks, in `InitClient` either header.
What the same call added before stays in the hardware while its handle is
dropped, and the rules are added once more at the next try; `lost` is the history
of what was left so. `joined` and `asleep` are what the driver said. Names
that `LanToLan` uses too are others here (`WlanSpec`, `slots`, `active`), since one
module proves theorems of both.

### Plan

Done, in this order: `SyncReq`, `SyncCall` with `SyncService`, `NiSession`,
`Agps`, `LocTimer`, `NatTable`, `NatApp`, `LanToLan`, `Dispatcher`, `Tether`,
`WlanClients`; proofs for all of them. Left:

1. `NatService`, the table that `NatApp` assumes, stated as an abstract
   specification that `NatTable` implements while no ioctl fails; `NatApp` in
   station mode.
2. `DSStateMachine` with `ds_client`: the data call and its retries.
3. `MsgTask`: queue, unblock and destruction against the worker (`LocThread`
   reads its state after it was unblocked).
4. The clients of `IPACM_Lan` (cable and USB), whose code repeats that of
   `IPACM_Wlan` with differences; the uplink rules of access points.
5. `LocHeap` as a tree, against the set that `LocTimer` uses; adapters and their
   masks in `gps/core`; session start and stop in `loc_eng.cpp`.

## 3. The runs

Runs expected to pass, with distinct states.

| run | instance | states | shows |
|---|---|---|---|
| `sync_req` | 2 threads, 2 clients, 1 indication id, 1 slot, 1 retry | 96 thousand | no write after return, answers match, no slot leaks, calls return |
| `sync_call` | 2 threads, 2 calls that differ in client and type, 2 slots, 2 callbacks of 2 clients, 2 types and 3 masks | 241 thousand | no callback is missed, the service is implemented, calls return |
| `ni_session` | 2 requests, 1 restart | 151 thousand | one answer for each request, none lost, sessions end |
| `agps` | 3 subscribers, one of which waits for the close, queues of 2, 1 restart | 51 thousand | who was told GRANTED has the interface or its loss is queued, the interface is held for someone, subscribers are served |
| `loc_timer` | 2 clients, 3 starts, clock up to 3, delays 1 and 2 | 319 thousand | no deleted delegate in use, the soonest is armed, a timer ends once and ends |
| `nat_table` | 3 rules of one bucket, tables of 3 and 4 entries, 1 failing ioctl | 362 thousand | rules are found at every write, deleted ones are not, the index table leads to them, nothing leaks, handles are accepted |
| `nat_app` | 4 connections, 2 clients, 2 public addresses, 3 handles, 2 cache entries, 1 temporary | 699 thousand | cache and table agree, the count is exact, closed connections are forgotten, sleeping clients stay out |
| `lan_to_lan` | a cable, two access points and a guest one, of which 3 fit; 3 addresses, 2 families, 2 clients for each interface, 2 cached | 43 thousand, with symmetry | rules, contexts and counts are those that interfaces and clients call for, nothing leaks |
| `dispatcher` | USB interface of three categories, Wi-Fi and mobile interface, 4 changes of the environment | 1.14 million | the walk reads a freed pair only after a cradle that makes way, each interface has its object, addresses are known, the queues drain unless the walk died |
| `tether` | mobile upstream of both families, station upstream with IPv4, `rndis0`; 4 changes, 1 event in the external queue | 4.55 million | a rule exactly for upstream and downstream, upstreams can be withdrawn, no downstream is forgotten |
| `wlan_clients` | 2 access points; a station that moves between them and changes its address, one with an IPv6 address; 2 clients in all, 1 neighbour, 1 entry left by a half-failed add | 554 thousand | the hardware has the entries of the stations present and what half-failed adds left, the records outside the array agree with it, known addresses arrive |

One run is expected to be violated, `wlan_sleepers` (section 5).

**Why the bounds are enough to meet the interesting cases.**
In `sync_req` two threads suffice for the double free: one frees twice, the
other owns the slot in between and loses it, and the first may take it again, so
that both use it. One slot makes this sharing as tight as it can be and lets a
call find no slot; with three threads on two slots liveness is out of reach. That
nothing of this depends on the number of slots or threads is what the proofs
add: every safety property of this run is a theorem (section 4). One retry goes
through the loop once more, and two clients distinguish indications for someone
else. In `sync_call` the calls made (`Requests`) differ in both the client and the type, so that a
callback may suit one of them, or miss both by the client or by the type alone; two
threads may also make the same call and wait for the same callback, and two callbacks
make the second one late. In `ni_session` two requests let an old NI thread
stand beside a new one and a restart put it there. In `agps` the three
subscribers are of the three classes, one waiting for the close; two commands
under way make answers stale. `loc_timer` has two clients, so that timers share
the heap, and one that starts again. In `nat_table` three rules of one bucket
fill the head, the middle and the end of a chain in both tables, with one bucket
for the destination and the source hash. `nat_app` has two connections of one client, so that an add may
fail for one and succeed for the other, a client of another interface and the
device itself, each of which has its own path; two cache entries for four
connections make the cache full, and three handles leave one for a rule
whose deletion failed.

In `lan_to_lan` the two access points have the same header type, so that one
of them leaving must keep what the other still needs, and the guest one must
not be bridged; one interface more than fits meets the full table, two cached
clients the full cache. In `dispatcher` the three interfaces have objects of every class, among which there are
three ways of deleting oneself, since the USB interface starts as a LAN or a cradle
and may become an Ethernet port; four changes are a link that goes, comes back with
another category and gets an address while its old object still waits for its
own deletion, or a cradle whose category changes while links before and behind it in the
list come and go. In `tether` four changes are for instance an upstream set, a second one, a link
lost and a downstream removed; with a queue of one the thread that handles an event
still meets those its handler posts to the other queue, and the two upstreams are of the two kinds that install different
rules. In `wlan_clients` the limit of two clients is common to both access
points, so that one fills it for the other; with one neighbour each new station
takes the entry of an older one; the one entry that may be left (`MaxLost`) is an
IPv4 header or the LAN rule of an IPv6 address, of which the next try adds a second. That more stations, addresses and neighbours
change nothing is proved (section 4). The IPv4 addresses of the run are of one station:
two that claim the same one are covered by the proofs only.

**Deadlock** is checked, except in `ni_session`, `loc_timer`, `nat_table`,
`dispatcher` and `tether`, which stop when their bounds are used up: no
request and no change is left, the clock stands still; `nat_table` also stops
after `AddHangs`, and `dispatcher` when the process died of a freed pair.

**Fairness.** `FairSpec` is used where liveness is claimed; in `Dispatcher` the
fairness is part of `Spec`.
* `SyncReq`, `SyncCall`: weak fairness for each thread's next step. Threads are
  scheduled, the QMI and RPC calls are synchronous with a time-out of their own,
  and the wait is `pthread_cond_timedwait`. Nothing obliges an indication or a
  callback to come; in `SyncCall` a scan that began goes on.
* `NiSession`: the message task, the framework's thread between its check and its
  store, and each NI thread (a timed wait). Not the user, not the modem.
* `Agps`: the message task takes its messages, and the framework answers each
  command, which is what its interface asks of it.
* `LocTimer` (`FairTimerSpec`): the two threads run and time passes.
* `Dispatcher`: the one thread goes on while there is work, and netlink posts the
  address that the kernel has assigned. Links need not change. Whether a freed pair lets
  the walk go on is open; `Drained` claims nothing of a process that died.

No strong fairness is assumed anywhere.

## 4. The proofs

TLC checks the instances above; the theorems hold for every value of the
constants that the named assumption of the module admits. Each proof has an
inductive invariant `IInv`, a lemma that `Init` implies it, a lemma for each
action or group of actions, and theorems that read the properties off.

**SyncReqProofs**, for any number of threads, slots, clients, ids and retries,
under `SyncReqAssumption`. `IInv` is `TypeOK`, `NoWriteAfterReturn`,
`SlotDescribesCall`, `AnswerMatchesRequest`, `SlotHasCaller` and
`InUseFlagExact`. The double free makes the map of slots in use useless as an
argument: a slot can be free while its call waits in it. What holds is a
statement on the pointer in the slot: as long as it points to a thread's buffer,
that thread is in a call and has selected that slot (`NoWriteAfterReturn`), and
the slot describes its request (`SlotDescribesCall`). Theorems `TypeCorrect`,
`NoLateWrite`, `NoCrossTalk`, `NoSlotLeak`.

**SyncCallProofs**, for any number of threads, slots, clients, ioctls and
callbacks. Here the slots are exclusive (`SlotExclusive`), which is where this
code and the QMI one differ. The scan of a callback goes slot by slot, so that the
argument needs to know which slots it has still to reach: `OwedOK` says that
every slot a callback owes an answer to lies at or after the index of the
scan. `CallsOK`, `CallbackOK` and `PayloadOK` relate a call's program counter to its
slot and to what was delivered. Theorems `TypeCorrect`, `SlotsAreExclusive`,
`NothingMissed`, and `SlotsImplementService`: under the mapping `Service` the
initial states are initial, and each step is a step of `SyncService` or a
stutter. The claiming of slots, the locks and the order of the scan vanish there;
`MatchSuits` is the step where what the slot compares becomes what the callback
was issued for.

**NiSessionProofs**, for any number of requests and restarts. The difficulty is
that a request may be in its session and in a message to the modem at the same time, since
the NI thread posts the message before it clears the session. `IInv` says
that this happens only while the thread that holds the lock is about to clear
(`RawOK`, `ClearOK`, `LockOK`), that a reset has to wait for that lock
(`ResetOK`), that no two messages carry one request (`MsgOK`), and that
identifiers not given out yet occur nowhere (`FreshOK`). Theorems
`TypeCorrect`, `OneAnswer`, `NothingLost`.

**MsgTaskProofs**, `Agps`: for any subscribers, lengths of the queues and numbers of
restarts. `IInv` is `TypeOK`, `ReleasedIsEmpty`, `GrantIsTruth`, `GrantsHold`,
`GrantIsListed`, `HeldForSomeone` and `CommandFitsState`. A stale GRANTED, which the
machine takes for the answer to its current request, may arrive when the interface
is closed; `GrantsHold` says of each one queued that then its loss is queued behind
it, so that `AnswerTaken` and `AnswerQueued` can follow it through the queue. `GrantIsTruth` alone is
not inductive: a subscriber that comes back after it was told GRANTED would
break it, so that nobody outside the list may have been told so last
(`GrantIsListed`); and a subscription in RELEASED sends a request only because
no closing subscriber is left in the list (`ReleasedIsEmpty`). Theorems
`TypeCorrect`, `NoLeftover`, `SubscribersKnow`, `CommandsFit`.

**MsgTaskProofs**, `LocTimer`: for any clients, starts, delays and clock.
`TimerInv` follows each delegate through its life: `OwnersOK` says that client and
delegate point to each other while the client's timer runs; `MessagesOK` that a push or
a removal in the queue names a delegate that exists (`MessagesLive`), that the removal
of a delegate is in the queue exactly while it exists without a client
(`RemovalPosted`), and that no message about it is behind that one (`RemovalLast`).
This order is why the unlocked read of `mClient` in `expire` meets a delegate that
exists: the task deletes it only when it comes to the removal, and then nothing
names it any more. `ArmedOK` says that the timerfd is polled and armed for the soonest
of the heap unless an expiry is under way or the task is about to arm it.
Theorems `TimerInductive`, `DelegatesAlive`, `NothingKept`,
`SoonestIsArmed` and `TimerEndsOnce`; the last is an action property.

**NatProofs**, `NatApp`: for any clients, addresses, connections, handles and table
sizes. What an operation does to the cache and the table is a lemma about the
record `nat` alone: it keeps `Sound`, which says that the table holds the rules
of the enabled entries and of failed deletions, that handles and rules are
unique and that `curCnt` is the number of entries. Failed deletions keep
their handle in use, hence the need to speak of them (`lost`): without that a new
entry could be taken for one of them. To that `IInv` adds that the table is
empty without a public address, the ranges of the addresses, and that the rules
of a NAT client are kept under its own address and belong to live connections:
the first makes `Close` find them, the second is the result. Counting rests on
facts of the library about finite sets. `TypeOK`, which has the limits of the cache
and of the temporary list, follows from `IInv` and `Limits`, which follows `curCnt`:
adding disabled entries again gives at most as many as there were, a removal adds
none, and `FlushTempEntries` puts no more back than it took out. Theorems
`TableMatches`, `Counts`, `Forgotten`, `ListsBounded` and `AsleepStaysOut`; the last
is an action property, proved of every step from the same invariant.

**NatProofs**, `NatTable`: for tables of any size, any rules and any hashes of
theirs. The chain of a bucket is what a recursive function of the number of steps
reaches. What the proof needs of it is had without an induction theorem: a set of
natural numbers that is not empty has a least element, since `<` is well founded
(`LeastOf`), and the least step at which something fails contradicts the step
before it (`WalkExists`, `ChainWithin`). By counting, a walk through n entries that
does not end within n steps meets an entry twice; the least such step contradicts that
an entry has one predecessor, so chains end (`ChainCloses`, `ChainEnds`).
`Linked(t, U, key)` says what one table must be like: each of the entries `U` in
use is in the chain of its bucket, a successor is in use too, in the expansion
table, of the same hash and of no other entry; then the chain of a bucket
is the set of used entries with that hash (`ChainOfBucket`). A store
into the table is one of few kinds (`LinkedHead`, `LinkedTail`, `LinkedUnlink`,
`LinkedDrop`, `LinkedSame`), each of which is a lemma used for both tables.

`TableInv` has a part that holds whatever ioctl calls fail, `TableTypeOK`,
`OpOK` and `HandleOK`, from which `HandleAccepted` follows, and `TablesOK`, which
holds until one fails: both tables are linked (`LinksOK`), the back links are the
inverse (`PrevOK`, `MetaOK`), index entries and rules lead to each other
(`LeadsOK`, `LedOK`), a dead head has a successor (`DeadOK`), a live entry has a
handle (`OwnedOK`), and what the operation under way has still to write is what is
missing (`AddOK`, `DmaOK`). A deletion breaks most of these for a while. It has up
to three writes in a fixed order, so that the exceptions are named by how far it
has come: the successor of an index head was moved over it (`Overwritten`), the
index table is done (`IndexDone`), the rule table is done (`RuleDone`). The
failed operations are why `TablesOK` is conditional: after a failed enabling
the next addition of the bucket makes a loop (`NoSelfLink` in section 5).
Theorems `TableInductive`, `InstalledAreFound`, `FoundAreInstalled`,
`NoIndexToDeleted`, `NoEntryLeaked`, `HandleAccepted`, `PrevInverse` and
`AdditionsReturn`, which no run checks: no search for the end of a chain goes on
for ever.

**ClientsProofs** has the proofs of two modules. `LanToLan`, for any interfaces, addresses, families and limits. `IInv` is
`TypeOK`, `DownIsEmpty`, `RefExact`, `RulesExact` and `NothingLeaked`, with the
set of interfaces that are up finite. The three belong together: an interface decides
by its counts whether a rule or context is there already, so that rules are
exact only while counts are (`RefExact`), and an add overwrites no handle
only while the rules are exact. Theorems `TypeCorrect`, `RulesAreExact`,
`NeverLeaks`, `CountsAreExact`, `CacheIsOfUnknown`.

`WlanClients`, for any access points (two at most, as in the code), stations,
addresses and limits. `WlanInv` has five parts. `SlotsOK`: each slot has a station that
joined, which is in no other slot of its access point, with its own headers and
with rules that are the first of those it needs, in their order (`RulesFit`); an
access point that is down has none. `HwOK`: the hardware is the bag of entries of
all handles and `lost`. Each action takes away the handles of some clients or adds new ones,
and since a handle names the headers of its client, and these the access point
and the station (`HeadersTell`), those of other clients are untouched: `Holds(O, L,
c, h)` says that hardware `h` has what client `c` and the set `O` of other handles
lead to and beside it the bag `L`; lemmas on bags (`PlusMore`, `MinusMore`) say that
what is added and deleted leaves `L` alone, and each operation on a client is a lemma about it (`RouteHolds`,
`UnrouteHolds`, `NewHolds`, `RemovedHolds`). `RecordsAgree` is inductive as it
stands. `CacheOK`: `IPACM_Neighbor` has a station once. `KnownOK` is what makes
`KnownIsSet` true once the queue is empty: as long as the access point of an entry has the station,
either the last of the waiting events with its IPv4 address says what the entry
says, or no such event waits and the station has that address. That a new event goes
to the end of the queue, and is posted again when the station joins, is what
keeps it. Theorems `WlanInductive`, `HandlesAreExact`, `KnownReaches`,
`RecordsDoAgree`.

**DispatcherProofs**, for any interfaces and numbers of changes. The walk keeps
the next pair in a local variable while the object it calls may take pairs out of
the list. `WalkOK` says that the pair the walk is at belongs to an object in the list
and is one of those it registered, or that the event is a change of the configuration
and the owner of the pair is gone (`Dangling`); `ListOK` that the manager comes first, that each
object is in the list once, and that those in it are the ones the manager
knows, each of a class of its interface that its category gives it: what an object does
when it is called, and so which pairs go and which are left before the end of the
walk, depends on that. Theorems `TypeCorrect` and
`FreedOnlyByCradles`: of all callbacks only that of a cradle whose category changed
frees the pair the walk goes on to.

That objects follow links needs to know what each event in the queue says, so that
`FollowInv` adds an account of the line of link events of an interface still to be
handled: those of the external queue and, before them, the one that is being walked
as long as the walk has not come to the pair that handles it. `LineOK` says that the
last of them is what the driver reported last (`Latest`), that an access point ends
before a station starts (`Alternate`), that a link that comes up finds an object of its
class or none (`Agrees`), and that when the line is empty object and link agree
(`Settled`). `LeavingOK` says that an object that went down has its own deletion in the
internal queue, which is taken first: it is gone when the next link event is
handled. `CategoryOK` relates the category of the manager to the object and the file,
`AddrOK` says on which way the news of an address is, and `WaitOK` that the thread
waits only when both queues are empty. Theorems `FollowInductive`, `ObjectsFollow` and
`AddressKnown`.

**TetherProofs**, for any set of mobile and station interfaces and any numbers of
changes. `IInv` is `EnvInv`, the types of queues and environment, and `CoreInv`,
which speaks of the objects: the rules of the LAN object are in the kernel as its
flags say and there is one wherever it knows of upstream and downstream
(`LanOK`); no mobile upstream waits for a header (`LtesClear`); no
withdrawal is pending while the WAN is up (`NoDownWhileUp`); what the LAN object knows of
can be withdrawn, or the withdrawal is pending (`Withdrawable`); and the LAN
object knows of an upstream that is up, or the news is pending (`Known`).
An event that is in the queue thus accounts for what the LAN object does not know yet. What the objects of
`IPACM_Wan` do is summarised by lemmas on `Move`, a relation of one state to the
next with the events posted, so that the
proof does not go through each event with each object. Theorems `TypeCorrect`,
`RulesAreExact`, `UpstreamAndDownstream`, `AlwaysWithdrawable`,
`NoDownstreamForgotten`.

**Only model-checked.** Liveness everywhere (`CallReturns`, `SessionEnds`,
`SubscriberServed`, `TimerEnds`, `Drained`): liveness under fairness is beyond
the prover, as is ENABLED. Every invariant and action property that a passing run checks is
a theorem.

## 5. Where the code disagrees with its own words

* `wlan_sleepers`: IPACM_Wlan.cpp:1324 "during power_save mode, even receive
  IP_ADDR_ADD, not setting RT rules". When a station leaves, the array is closed
  up member by member, but for `power_save_set` (line 1632 and below), so that a
  station that sleeps takes the flag of the slot it moves into; its next address
  is given routing rules while it sleeps. A station that is awake may likewise
  inherit the flag, and gets none.

The following were found in the same way while the modules were written. Each
property is kept in its module; naming it in the configuration shows the
counterexample.

* `ThreadSafe` (`SyncReq`): loc_api_sync_req.h:77 calls the request "Thread safe". A failed
  call frees its slot twice in two critical sections (lines 465 and 547), and the
  second free may take it from another call. What this cannot do is in
  `sync_req`: write into a frame that is gone, or mix up answers.
* `AnswerIsForRequest` (`NiSession`): loc_eng_ni.cpp:104 "Displays the NI request and awaits user input".
  The response's id is checked without the lock; if the request times out in
  between, its response is stored in the idle session and sent for the next
  request, about which the user was not asked.
* `ReleasedIsClosed` (`Agps`): loc_eng_agps.cpp:356 "tell connecivity service we can release NIF".
  Subscribe, unsubscribe, subscribe before the first answer: the machine takes
  the first GRANTED for the second request and ends released while the
  framework's interface stays open.
* `NoEarlyExpiry` (`LocTimer`): LocTimer.cpp:527 says the callback is called "only if stop()
  returns true". A client that stops the expiring timer and starts it again in
  between has the new timer stopped and called at once.
* `NoSelfLink` (`NatTable`): ipa_nat_drvi.c:1272 refuses an entry linked to itself. When the ioctl
  that enables a rule fails, the rule stays linked though disabled, and the next
  add of the bucket takes it both as the previous entry and as the free one.
* `UpstreamOverrides` (`Tether`): IOffloadManager.h:295 "This overrides any
  previously configured parameters". From IPACM_OffloadManager.cpp:303 on, a
  route is posted only while the flag of its family is down, and the flag does
  not name the interface: a second upstream set while the first is up need not
  take its place.

Further behaviour was found that no text of the repository contradicts, and that
the properties are worded around.

* `NatApp`: `AddTable` restores the rules of clients that are in power save too; rules of
  connections of other clients and of the device itself are computed from the lists
  of the moment and are not found again when those changed; restoring a client
  while there is no table drops its cached connections; after a failed `AddTable`
  the WAN counts as up without a table and a WAN down is refused; a temporary entry
  whose add failed keeps its rewritten private address; and when the WAN goes from
  one address to another and back, the disabled entries are not added again and
  refuse their connections as duplicates.
* `Tether`: `handle_route_del` clears the default gateway for both families; a late
  withdrawal by another object clears `wan_up` of the one that is up;
  `header_partial` is never cleared; a station whose link is lost posts no
  withdrawal, and its list of addresses grows to its limit; rules that an address
  installed survive the link; an upstream that changed its kind is withdrawn in the
  wrong mode; and a DOWNSTREAM_ADD that overtakes the LINK_UP of its interface is
  lost.
* `Dispatcher`: an `ECM_WAN` object deletes itself in the middle of its pairs. A cradle
  is up, its category is changed from WAN_IF to another one, and at IPA_CFG_CHANGE_EVENT it posts
  USB_LINK_UP and deletes itself (`IPACM_Wan.cpp:640`), which frees its pairs for
  IPA_WAN_XLAT_CONNECT_EVENT and IPA_LINK_DOWN_EVENT; `ProcessEvt` goes on to the first of
  them (`IPACM_EvtDispatcher.cpp:127-137`). `OnlyCradlesFreeNext` says that this is the
  only such case. No doc, comment or test of the repository says it cannot be (the comment that
  IPA_LAN_DELETE_SELF is to be registered last is about `IPACM_Lan`), so that it
  is not a finding of a run. Further, an object that makes way for another category posts the
  link again itself, behind a link-down that may be queued already, and one of
  ETH_IF does not make way.
* `LanToLan`: the deletion of a client is ignored while it is cached for an unknown
  interface, which later adds it; a failed add leaves the number of rules
  uninitialised.
* `WlanClients`: two stations that claim one address share its NAT client, and the
  departure of one removes it for the other; a station whose second header fails
  leaves the first in the hardware for good, and a failed IPv6 add the rules already
  added, so that the next try adds them twice (the entries of `lost`); a deletion that fails half-way leaves a station that cannot be deleted; a sleeping
  station that gets an address is added to NAT; a neighbour entry that is taken
  for another station forgets the address; an address learned at
  another access point is posted for a new MAC but not for a repeated one; and the
  change of the channel never touches the IPv6 rules.
* The data-service machine (`loc_eng_agps.cpp`, not modelled): a subscription in
  RELEASED stays in the list when the request cannot be sent; the retry runs on the
  timer's thread without a lock; and a denial that answers a lost connection never
  closes the handle of the call.

## 6. What is not modelled

`NatApp`: ports, protocols, ALG connections, Wi-Fi station mode and passthrough,
and its time-stamp thread, which only writes the time stamp of an
entry. Lists of 50 clients and 32 addresses do not fill up. Deletion of the
table is taken to succeed. `NatTable` has one table, without PDNs and checksums,
and hashes are constants of the instance. `NatApp` takes the table as a set of
rules with handles: adds and deletions succeed or fail. `LocTimer` has one of the
two containers and does not destroy clients; the shape of the heap's tree is
abstracted. `NiSession` leaves out notification texts, muting and the
verification types that need no response of the user's. `Agps` is the base
machine; the data-service machine derived from it is planned. `SyncCall`
leaves out `loc_api_sync_call_destroy`, which nobody calls.

`LanToLan` leaves out the events of a channel switch and L2TP; `Dispatcher` the
bridge `bridge0`, ODU and eMBMS interfaces, the event IPA_CRADLE_WAN_MODE_SWITCH, and the
link-up event that netlink posts for an interface raised administratively; its objects
keep of their state only whether they exist, what they are and what they know of addresses.
`Tether` follows one LAN interface; its clients, firewall and bridge rules are
not there. `WlanClients` has the stations of an access point but not its uplink
rules, nor a second ADD of a station that never left; its deletions succeed. The adds and deletions of rules are
ioctls and are external throughout.

The components marked "planned" and "not modelled" in section 1 are listed with
their reasons in `PROJECT.json`.
