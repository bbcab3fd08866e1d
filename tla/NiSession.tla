----------------------------- MODULE NiSession -----------------------------
(***************************************************************************)
(* Network-initiated (NI) location requests:                               *)
(* gps/loc_api/libloc_api_50001/loc_eng_ni.cpp.                            *)
(*                                                                         *)
(* Two sessions, one for emergency SUPL ("es") and one for the rest        *)
(* ("std"), are shared by three kinds of threads.  MsgTask runs the        *)
(* request handler, the reset on a modem restart and the messages that     *)
(* answer the modem.  Every accepted request spawns a detached NI thread   *)
(* that waits, with a time-out, for the user's response.  A framework      *)
(* thread delivers that response.                                          *)
(*                                                                         *)
(* Only respRecvd, resp and the NI thread's decision are under the         *)
(* session's tLock; the handler, the reset's test and free, the checks of  *)
(* the response's id and the NI thread's final writes are not.  A step is  *)
(* a locked region or one unlocked access.  A request is identified by     *)
(* the reqID it is given, which also stands for its rawRequest.            *)
(***************************************************************************)
EXTENDS Naturals, Sequences

CONSTANTS
  MaxReq,        \* bound: requests accepted, reqIDCounter
  MaxRestarts    \* bound: modem restarts

ASSUME NiSessionAssumption == MaxReq \in Nat /\ MaxRestarts \in Nat

Sessions == {"es", "std"}
Requests == 1 .. MaxReq
UserResponses == {"ACCEPT", "DENY"}
Responses == UserResponses \cup {"NORESP", "IGNORE"}

VARIABLES
  raw,        \* rawRequest of each session, 0 for NULL
  reqID, resp, respRecvd,
  tLock,      \* the NI thread that holds tLock between two steps, or 0
  counter,    \* reqIDCounter
  sess,       \* the session the NI thread of each request serves
  thr,        \* where that thread is
  msg,        \* the message it has built: <<>> or one [req, resp]
  msgQ,       \* LocEngInformNiResponse messages queued for MsgTask
  mt,         \* MsgTask: the steps of the reset that are left
  fw,         \* framework thread: the response being delivered, or <<>>
  restarts,   \* history: modem restarts so far
  sent,       \* history: responses the modem was given
  freed,      \* history: how often each raw request was freed
  said        \* history: what the user responded to each request

sessionVars == <<raw, reqID, resp, respRecvd, tLock>>
vars == <<sessionVars, counter, sess, thr, msg, msgQ, mt, fw, restarts, sent,
          freed, said>>

Answer == [req : Requests, resp : Responses]
Places == {"none", "start", "wait", "read", "clear", "after", "done"}

TypeOK ==
  /\ raw \in [Sessions -> 0 .. MaxReq]
  /\ reqID \in [Sessions -> 0 .. MaxReq]
  /\ resp \in [Sessions -> Responses]
  /\ respRecvd \in [Sessions -> BOOLEAN]
  /\ tLock \in [Sessions -> 0 .. MaxReq]
  /\ counter \in 0 .. MaxReq
  /\ sess \in [Requests -> Sessions]
  /\ thr \in [Requests -> Places]
  /\ msg \in [Requests -> {<<>>} \cup {<<a>> : a \in Answer}]
  /\ msgQ \in Seq(Answer)
  /\ mt \in Seq({"test", "free", "null", "wake"} \X Sessions)
  /\ restarts \in 0 .. MaxRestarts
  /\ sent \in Seq(Answer)
  /\ freed \in [Requests -> Nat]
  /\ said \in [Requests -> SUBSET UserResponses]

\* loc_eng_ni_init
Init ==
  /\ raw = [s \in Sessions |-> 0]
  /\ reqID = [s \in Sessions |-> 0]
  /\ resp = [s \in Sessions |-> "NORESP"]
  /\ respRecvd = [s \in Sessions |-> FALSE]
  /\ tLock = [s \in Sessions |-> 0]
  /\ counter = 0
  /\ sess = [r \in Requests |-> "std"]
  /\ thr = [r \in Requests |-> "none"]
  /\ msg = [r \in Requests |-> <<>>]
  /\ msgQ = <<>> /\ mt = <<>> /\ fw = <<>>
  /\ restarts = 0 /\ sent = <<>>
  /\ freed = [r \in Requests |-> 0]
  /\ said = [r \in Requests |-> {}]

-----------------------------------------------------------------------------
\* MsgTask: loc_eng_ni_request_handler.

\* An emergency request is ignored while one is in progress, any other while a
\* request of either kind is; what is ignored is freed and changes nothing.
IgnoresOwn(s) == raw["es"] = 0
Accepts(s) == raw["es"] = 0 /\ (s = "std" => raw["std"] = 0)

RequestNi(s) ==
  /\ mt = <<>> /\ counter < MaxReq
  /\ Accepts(s)
  /\ LET r == counter + 1 IN
       /\ counter' = r
       /\ raw' = [raw EXCEPT ![s] = r]
       /\ reqID' = [reqID EXCEPT ![s] = r]
       /\ sess' = [sess EXCEPT ![r] = s]
       /\ \E p \in {"start", "none"} :           \* pthread_create may fail
            thr' = [thr EXCEPT ![r] = p]
  /\ UNCHANGED <<resp, respRecvd, tLock, msg, msgQ, mt, fw, restarts, sent,
                 freed, said>>

\* LocEngInformNiResponse::proc and its destructor.
InformNiResponse ==
  /\ mt = <<>> /\ msgQ # <<>>
  /\ sent' = Append(sent, Head(msgQ))
  /\ freed' = [freed EXCEPT ![Head(msgQ).req] = @ + 1]
  /\ msgQ' = Tail(msgQ)
  /\ UNCHANGED <<sessionVars, counter, sess, thr, msg, mt, fw, restarts,
                 said>>

\* loc_eng_ni_reset_on_engine_restart, from loc_eng_handle_engine_down.
EngineDown ==
  /\ mt = <<>> /\ restarts < MaxRestarts
  /\ restarts' = restarts + 1
  /\ mt' = <<<<"test", "es">>, <<"test", "std">>>>
  /\ UNCHANGED <<sessionVars, counter, sess, thr, msg, msgQ, fw, sent, freed, said>>

Reset ==
  /\ mt # <<>>
  /\ LET s == Head(mt)[2] IN
       \/ /\ Head(mt)[1] = "test"
          /\ mt' = (IF raw[s] # 0
                      THEN <<<<"free", s>>, <<"null", s>>, <<"wake", s>>>>
                      ELSE <<>>) \o Tail(mt)
          /\ UNCHANGED <<raw, respRecvd, freed>>
       \/ /\ Head(mt)[1] = "free"                      \* free(NULL) is allowed
          /\ IF raw[s] # 0
               THEN freed' = [freed EXCEPT ![raw[s]] = @ + 1]
               ELSE UNCHANGED freed
          /\ mt' = Tail(mt)
          /\ UNCHANGED <<raw, respRecvd>>
       \/ /\ Head(mt)[1] = "null"
          /\ raw' = [raw EXCEPT ![s] = 0]
          /\ mt' = Tail(mt)
          /\ UNCHANGED <<respRecvd, freed>>
       \/ /\ Head(mt)[1] = "wake" /\ tLock[s] = 0
          /\ respRecvd' = [respRecvd EXCEPT ![s] = TRUE]
          /\ mt' = Tail(mt)
          /\ UNCHANGED <<raw, freed>>
  /\ UNCHANGED <<reqID, resp, tLock, counter, sess, thr, msg, msgQ, fw,
                 restarts, sent, said>>

-----------------------------------------------------------------------------
\* Framework thread: loc_eng_ni_respond.

\* The session a response with id r goes to, tested without a lock.
Targets(r) ==
  IF reqID["es"] = r /\ raw["es"] # 0 THEN {"es"}
  ELSE IF reqID["std"] = r /\ raw["std"] # 0 THEN {"std"}
  ELSE {}

\* The user responds once to a request, ACCEPT of an emergency request also
\* marks a pending request of the other session as ignored.
Respond(r, u) ==
  /\ fw = <<>> /\ r <= counter /\ said[r] = {}
  /\ said' = [said EXCEPT ![r] = {u}]
  /\ \/ Targets(r) = {} /\ UNCHANGED fw
     \/ \E s \in Targets(r) :
          fw' = (IF s = "es" /\ u = "ACCEPT" /\ raw["std"] # 0
                   THEN <<<<"std", "IGNORE">>>> ELSE <<>>) \o <<<<s, u>>>>
  /\ UNCHANGED <<sessionVars, counter, sess, thr, msg, msgQ, mt, restarts, sent,
                 freed>>

SetResponse ==
  /\ fw # <<>>
  /\ LET s == Head(fw)[1] IN
       /\ tLock[s] = 0
       /\ resp' = [resp EXCEPT ![s] = Head(fw)[2]]
       /\ respRecvd' = [respRecvd EXCEPT ![s] = TRUE]
  /\ fw' = Tail(fw)
  /\ UNCHANGED <<raw, reqID, tLock, counter, sess, thr, msg, msgQ, mt, restarts,
                 sent, freed, said>>

-----------------------------------------------------------------------------
\* NI thread of request r: ni_thread_proc.  It serves a session, and takes
\* whatever request it finds there.

TakesLock(r) ==
  /\ tLock[sess[r]] = 0
  /\ tLock' = [tLock EXCEPT ![sess[r]] = r]
  /\ respRecvd' = [respRecvd EXCEPT ![sess[r]] = FALSE]
  /\ thr' = [thr EXCEPT ![r] = "read"]

\* Entry: a response that is already there ends the loop before the wait.
StartWait(r) ==
  /\ thr[r] = "start"
  /\ \/ respRecvd[sess[r]] /\ TakesLock(r)
     \/ /\ ~respRecvd[sess[r]] /\ tLock[sess[r]] = 0
        /\ thr' = [thr EXCEPT ![r] = "wait"]
        /\ UNCHANGED <<tLock, respRecvd>>
  /\ UNCHANGED <<raw, reqID, resp, counter, sess, msg, msgQ, mt, fw, restarts,
                 sent, freed, said>>

Woken(r) ==
  /\ thr[r] = "wait" /\ respRecvd[sess[r]]
  /\ TakesLock(r)
  /\ UNCHANGED <<raw, reqID, resp, counter, sess, msg, msgQ, mt, fw, restarts,
                 sent, freed, said>>

\* pthread_cond_timedwait may return ETIMEDOUT although respRecvd is set.
TimedOut(r) ==
  /\ thr[r] = "wait"
  /\ TakesLock(r)
  /\ resp' = [resp EXCEPT ![sess[r]] = "NORESP"]
  /\ UNCHANGED <<raw, reqID, counter, sess, msg, msgQ, mt, fw, restarts, sent,
                 freed, said>>

\* The responses a message is built for; the others only free the request.
Answers(u) == u # "IGNORE"

\* The test of rawRequest and what is done with it.
ReadRaw(r) ==
  /\ thr[r] = "read"
  /\ LET s == sess[r] IN
       IF raw[s] = 0
         THEN /\ thr' = [thr EXCEPT ![r] = "after"]
              /\ tLock' = [tLock EXCEPT ![s] = 0]
              /\ UNCHANGED <<msg, freed>>
         ELSE /\ thr' = [thr EXCEPT ![r] = "clear"]
              /\ msg' = [msg EXCEPT ![r] =
                           IF Answers(resp[s])
                             THEN <<[req |-> raw[s], resp |-> resp[s]]>> ELSE @]
              /\ freed' = [freed EXCEPT ![raw[s]] =
                             IF resp[s] = "IGNORE" THEN @ + 1 ELSE @]
              /\ UNCHANGED tLock
  /\ UNCHANGED <<raw, reqID, resp, respRecvd, counter, sess, msgQ, mt, fw,
                 restarts, sent, said>>

\* rawRequest = NULL, unlock.
KeepsRaw(s) == raw
WithoutRaw(s) == [raw EXCEPT ![s] = 0]

ClearRaw(r) ==
  /\ thr[r] = "clear"
  /\ raw' = WithoutRaw(sess[r])
  /\ tLock' = [tLock EXCEPT ![sess[r]] = 0]
  /\ thr' = [thr EXCEPT ![r] = "after"]
  /\ UNCHANGED <<reqID, resp, respRecvd, counter, sess, msg, msgQ, mt, fw,
                 restarts, sent, freed, said>>

\* reqID = 0 outside the lock, then sendMsg.
Finish(r) ==
  /\ thr[r] = "after"
  /\ reqID' = [reqID EXCEPT ![sess[r]] = 0]
  /\ msgQ' = msgQ \o msg[r]
  /\ msg' = [msg EXCEPT ![r] = <<>>]
  /\ thr' = [thr EXCEPT ![r] = "done"]
  /\ UNCHANGED <<raw, resp, respRecvd, tLock, counter, sess, mt, fw, restarts,
                 sent, freed, said>>

-----------------------------------------------------------------------------
NiThread(r) ==
  \/ StartWait(r) \/ Woken(r) \/ TimedOut(r) \/ ReadRaw(r) \/ ClearRaw(r)
  \/ Finish(r)

MsgTaskStep == Reset \/ InformNiResponse

Next ==
  \/ \E s \in Sessions : RequestNi(s)
  \/ EngineDown \/ MsgTaskStep
  \/ \E r \in Requests, u \in UserResponses : Respond(r, u)
  \/ SetResponse
  \/ \E r \in Requests : NiThread(r)

Spec == Init /\ [][Next]_vars

\* Threads are scheduled, the NI thread's wait is timed.  The user need not
\* respond, the modem need not request.
FairSpec ==
  /\ Spec
  /\ WF_vars(MsgTaskStep) /\ WF_vars(SetResponse)
  /\ \A r \in Requests : WF_vars(NiThread(r))

-----------------------------------------------------------------------------
\* The modem never gets two responses for one request, also when a restart
\* leaves an old NI thread waiting beside the one of the next request.
AnsweredOnce ==
  \A i, j \in DOMAIN sent : sent[i].req = sent[j].req => i = j

\* No request is lost: until it was freed, a raw request is held by its session
\* or by a message on its way to the modem.
RequestAccounted ==
  \A r \in 1 .. counter :
    \/ freed[r] > 0
    \/ \E s \in Sessions : raw[s] = r
    \/ \E t \in Requests : msg[t] # <<>> /\ msg[t][1].req = r
    \/ \E i \in DOMAIN msgQ : msgQ[i].req = r

\* A session never stays busy: each accepted request leaves it, provided its NI
\* thread could be created.
SessionEnds ==
  \A s \in Sessions, r \in Requests :
    raw[s] = r /\ thr[r] # "none" ~> raw[s] # r

\* "Displays the NI request and awaits user input" (loc_eng_ni.cpp:104): a
\* request is accepted or denied only as its own user response says.  This does
\* not hold: see README section 5.
AnswerIsForRequest ==
  \A i \in DOMAIN sent :
    sent[i].resp \in UserResponses => sent[i].resp \in said[sent[i].req]
=============================================================================
