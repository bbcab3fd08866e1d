-------------------------- MODULE NiSessionProofs --------------------------
(***************************************************************************)
(* Proofs about NiSession, for any number of requests and modem restarts:  *)
(* the modem gets at most one response for a request and no raw request is *)
(* lost before it was freed.                                               *)
(*                                                                         *)
(* A request moves from its session to the message of the one NI thread    *)
(* that holds the session's lock, then to the queue and to the modem.  The *)
(* argument is where it can be: in the session and in a message at once    *)
(* only while that thread is about to clear the session.  A reset of the   *)
(* modem may clear the session first; it then waits for the lock before it *)
(* lets the next request in.                                               *)
(***************************************************************************)
EXTENDS NiSession, TLAPS

FwOK == fw \in Seq(Sessions \X Responses)

\* Threads, requests and identifiers that were not given out yet are unused.
FreshOK ==
  /\ \A r \in Requests : r > counter => thr[r] = "none"
  /\ \A s \in Sessions : raw[s] <= counter
  /\ \A t \in Requests : msg[t] # <<>> => msg[t][1].req <= counter
  /\ \A i \in DOMAIN msgQ : msgQ[i].req <= counter
  /\ \A i \in DOMAIN sent : sent[i].req <= counter

\* The lock belongs to the thread that reads and clears the session.
LockOK ==
  \A t \in Requests : thr[t] \in {"read", "clear"} => tLock[sess[t]] = t

\* A message is held from the decision until it is sent, and built once.
MsgOK ==
  /\ \A t \in Requests : msg[t] # <<>> => thr[t] \in {"clear", "after"}
  /\ \A t, u \in Requests :
       msg[t] # <<>> /\ msg[u] # <<>> /\ msg[t][1].req = msg[u][1].req => t = u
  /\ \A t \in Requests, i \in DOMAIN msgQ : msg[t] # <<>> => msg[t][1].req # msgQ[i].req
  /\ \A t \in Requests, i \in DOMAIN sent : msg[t] # <<>> => msg[t][1].req # sent[i].req
  /\ \A i, j \in DOMAIN msgQ : msgQ[i].req = msgQ[j].req => i = j
  /\ \A i \in DOMAIN msgQ, j \in DOMAIN sent : msgQ[i].req # sent[j].req

\* What a session holds has no message yet, but that of its clearing thread.
RawOK ==
  /\ \A s, u \in Sessions : raw[s] = raw[u] /\ raw[s] # 0 => s = u
  /\ \A s \in Sessions, t \in Requests :
       msg[t] # <<>> /\ msg[t][1].req = raw[s] => thr[t] = "clear" /\ sess[t] = s
  /\ \A s \in Sessions, i \in DOMAIN msgQ : msgQ[i].req # raw[s]
  /\ \A s \in Sessions, i \in DOMAIN sent : sent[i].req # raw[s]

\* The queue of reset steps: what is freed is nulled next, then woken.
Ops == {"test", "free", "null", "wake"} \X Sessions

Ordered(q) ==
  /\ \A i \in DOMAIN q : i > 1 /\ q[i][1] = "null" => q[i-1] = <<"free", q[i][2]>>
  /\ \A i \in DOMAIN q : q[i][1] = "null" =>
       i + 1 \in DOMAIN q /\ q[i+1] = <<"wake", q[i][2]>>

\* A reset nulls a session only after it freed what the session held.
ResetOK ==
  /\ Ordered(mt)
  /\ mt # <<>> /\ mt[1][1] = "null" /\ raw[mt[1][2]] # 0 => freed[raw[mt[1][2]]] > 0

\* A thread about to clear holds the session's request in its message or has
\* freed it; if a reset was faster, that reset waits for the lock.
ClearOK ==
  \A t \in Requests : thr[t] = "clear" =>
    \/ raw[sess[t]] = 0 /\ mt # <<>> /\ mt[1] = <<"wake", sess[t]>>
    \/ /\ raw[sess[t]] # 0
       /\ \/ freed[raw[sess[t]]] > 0
          \/ msg[t] # <<>> /\ msg[t][1].req = raw[sess[t]]

IInv ==
  /\ TypeOK /\ FwOK /\ FreshOK /\ LockOK /\ MsgOK /\ RawOK /\ ResetOK /\ ClearOK
  /\ RequestAccounted /\ AnsweredOnce

-----------------------------------------------------------------------------
\* What the type invariant says of the requests that are mentioned.
LEMMA Types ==
  ASSUME TypeOK
  PROVE  /\ counter \in Nat
         /\ \A s \in Sessions : raw[s] \in Nat
         /\ \A t \in Requests : msg[t] # <<>> =>
              msg[t] = <<msg[t][1]>> /\ msg[t][1] \in Answer /\ msg[t][1].req \in Nat \ {0}
         /\ \A i \in DOMAIN msgQ : msgQ[i] \in Answer /\ msgQ[i].req \in Nat \ {0}
         /\ \A i \in DOMAIN sent : sent[i] \in Answer /\ sent[i].req \in Nat \ {0}
<1> USE NiSessionAssumption
<1>1. \A a \in Answer : a.req \in Nat \ {0}
  BY DEF Answer, Requests
<1>2. \A t \in Requests : msg[t] # <<>> => msg[t] = <<msg[t][1]>> /\ msg[t][1] \in Answer
  <2> TAKE t \in Requests
  <2> SUFFICES ASSUME msg[t] # <<>> PROVE msg[t] = <<msg[t][1]>> /\ msg[t][1] \in Answer
    OBVIOUS
  <2>1. PICK a \in Answer : msg[t] = <<a>>
    BY DEF TypeOK
  <2> QED
    BY <2>1
<1>3. \A i \in DOMAIN msgQ : msgQ[i] \in Answer
  BY DEF TypeOK
<1>4. \A i \in DOMAIN sent : sent[i] \in Answer
  BY DEF TypeOK
<1> QED
  BY <1>1, <1>2, <1>3, <1>4 DEF TypeOK

LEMMA InitHolds == Init => IInv
<1> SUFFICES ASSUME Init PROVE IInv
  OBVIOUS
<1> USE NiSessionAssumption DEF Init
<1>1. TypeOK /\ FwOK
  BY DEF TypeOK, FwOK, Sessions, Requests, Responses, Places, UserResponses
<1>2. FreshOK /\ LockOK /\ MsgOK /\ RawOK /\ ClearOK
  BY DEF FreshOK, LockOK, MsgOK, RawOK, ClearOK, Requests
<1>3. ResetOK
  BY DEF ResetOK, Ordered
<1>4. RequestAccounted /\ AnsweredOnce
  BY DEF RequestAccounted, AnsweredOnce
<1> QED
  BY <1>1, <1>2, <1>3, <1>4 DEF IInv

LEMMA RequestNiKeeps ==
  ASSUME IInv, NEW s \in Sessions, RequestNi(s)
  PROVE  IInv'
<1> USE NiSessionAssumption DEF IInv
<1> DEFINE r == counter + 1
<1>0. PICK p \in {"start", "none"} :
        /\ mt = <<>> /\ counter \in Nat /\ counter < MaxReq /\ raw[s] = 0
        /\ counter' = r
        /\ raw' = [raw EXCEPT ![s] = r]
        /\ reqID' = [reqID EXCEPT ![s] = r]
        /\ sess' = [sess EXCEPT ![r] = s]
        /\ thr' = [thr EXCEPT ![r] = p]
        /\ UNCHANGED <<resp, respRecvd, tLock, msg, msgQ, mt, fw, restarts, sent, freed, said>>
  BY Types DEF RequestNi, Accepts, Sessions, sessionVars
<1>a. r \in Requests /\ r > counter /\ r \in 0 .. MaxReq /\ r # 0
  BY <1>0 DEF Requests
<1>b. thr[r] = "none" /\ msg[r] = <<>>
  BY <1>a DEF FreshOK, MsgOK
<1>c. \A i \in DOMAIN msgQ : msgQ[i].req # r
  BY <1>a, <1>0, Types DEF FreshOK
<1>d. \A i \in DOMAIN sent : sent[i].req # r
  BY <1>a, <1>0, Types DEF FreshOK
<1>e. \A t \in Requests : msg[t] # <<>> => msg[t][1].req # r
  BY <1>a, <1>0, Types DEF FreshOK
<1>f. \A t \in Requests : thr[t] = "clear" => sess[t] # s /\ t # r
  BY <1>0, <1>b DEF ClearOK
<1> HIDE DEF r
<1>1. TypeOK'
  <2>1. counter' \in 0 .. MaxReq /\ raw' \in [Sessions -> 0 .. MaxReq]
        /\ reqID' \in [Sessions -> 0 .. MaxReq] /\ sess' \in [Requests -> Sessions]
    BY <1>0, <1>a DEF TypeOK
  <2>2. thr' \in [Requests -> Places]
    BY <1>0, <1>a DEF TypeOK, Places
  <2> QED
    BY <1>0, <2>1, <2>2 DEF TypeOK
<1>2. FwOK'
  BY <1>0 DEF FwOK
<1>3. FreshOK'
  <2>1. \A q \in Nat : q <= counter => q <= counter'
    BY <1>0 DEF r
  <2>2. \A t \in Requests : t > counter' => t > counter /\ t # r
    BY <1>0 DEF r, Requests
  <2>3. \A t \in Requests : t > counter' => thr'[t] = "none"
    BY <1>0, <2>2 DEF FreshOK, TypeOK
  <2>4. \A u \in Sessions : raw'[u] <= counter'
    BY <1>0, <1>a, <2>1 DEF FreshOK, TypeOK
  <2> QED
    BY <1>0, <2>1, <2>3, <2>4, Types DEF FreshOK
<1>4. LockOK'
  BY <1>0, <1>b DEF LockOK, TypeOK
<1>5. MsgOK'
  BY <1>0, <1>a, <1>b DEF MsgOK, TypeOK
<1>6. RawOK'
  <2>1. \A u \in Sessions : raw'[u] = r \/ raw'[u] = raw[u]
    BY <1>0 DEF TypeOK
  <2>2. \A t \in Requests : msg[t] # <<>> => sess'[t] = sess[t] /\ thr'[t] = thr[t]
    BY <1>0, <1>b DEF TypeOK
  <2> QED
    <3>1. \A u \in Sessions : raw'[u] = r => u = s
      BY <1>0, <1>a, Types DEF FreshOK, TypeOK, r
    <3> QED
      BY <1>0, <1>c, <1>d, <1>e, <2>1, <2>2, <3>1 DEF RawOK
<1>7. ResetOK'
  BY <1>0 DEF ResetOK
<1>8. ClearOK'
  BY <1>0, <1>a, <1>b, <1>f DEF ClearOK, TypeOK
<1>9. RequestAccounted'
  <2>1. \A q \in 1 .. counter' : q = r \/ q \in 1 .. counter
    BY <1>0 DEF r
  <2>2. \A q \in 1 .. counter, u \in Sessions : raw[u] = q => raw'[u] = q
    BY <1>0 DEF TypeOK
  <2>3. raw'[s] = r
    BY <1>0 DEF TypeOK
  <2>4. freed' = freed /\ msg' = msg /\ msgQ' = msgQ
    BY <1>0
  <2>5. RequestAccounted
    OBVIOUS
  <2> HIDE DEF IInv, r
  <2> QED
    BY <2>1, <2>2, <2>3, <2>4, <2>5 DEF RequestAccounted
<1>10. AnsweredOnce'
  BY <1>0 DEF AnsweredOnce
<1> QED
  BY <1>1, <1>2, <1>3, <1>4, <1>5, <1>6, <1>7, <1>8, <1>9, <1>10

LEMMA RespondKeeps ==
  ASSUME IInv, NEW r \in Requests, NEW u \in UserResponses, Respond(r, u)
  PROVE  IInv'
<1> USE NiSessionAssumption DEF IInv
<1>1. TypeOK'
  BY DEF Respond, Targets, sessionVars, vars, TypeOK
<1>2. FwOK'
  <2>1. UserResponses \subseteq Responses /\ "IGNORE" \in Responses /\ "std" \in Sessions
    BY DEF Responses, Sessions
  <2>2. \A q \in Sessions :
           <<>> \o <<<<q, u>>>> \in Seq(Sessions \X Responses)
        /\ <<<<"std", "IGNORE">>>> \o <<<<q, u>>>> \in Seq(Sessions \X Responses)
    BY <2>1
  <2>3. Targets(r) \subseteq Sessions
    BY DEF Targets, Sessions
  <2> QED
    <3>1. CASE UNCHANGED fw
      BY <3>1 DEF FwOK
    <3>2. CASE \E q \in Sessions : 
           \/ fw' = <<>> \o <<<<q, u>>>>
           \/ fw' = <<<<"std", "IGNORE">>>> \o <<<<q, u>>>>
      BY <2>2, <3>2 DEF FwOK
    <3> QED
      BY <2>3, <3>1, <3>2, Zenon DEF Respond
<1>3. FreshOK'
  BY DEF Respond, Targets, sessionVars, vars, FreshOK, TypeOK, Requests, Answer
<1>4. LockOK'
  BY DEF Respond, Targets, sessionVars, vars, LockOK, TypeOK, Requests, Answer
<1>5. MsgOK'
  BY DEF Respond, Targets, sessionVars, vars, MsgOK, TypeOK, Requests, Answer
<1>6. RawOK'
  BY DEF Respond, Targets, sessionVars, vars, RawOK, TypeOK, Requests, Answer
<1>7. ResetOK'
  BY DEF Respond, Targets, sessionVars, vars, ResetOK, TypeOK, Requests, Answer
<1>8. ClearOK'
  BY DEF Respond, Targets, sessionVars, vars, ClearOK, TypeOK, Requests, Answer
<1>9. RequestAccounted'
  BY DEF Respond, Targets, sessionVars, vars, RequestAccounted, TypeOK, Requests, Answer
<1>10. AnsweredOnce'
  BY DEF Respond, Targets, sessionVars, vars, AnsweredOnce, TypeOK, Requests, Answer
<1> QED
  BY <1>1, <1>2, <1>3, <1>4, <1>5, <1>6, <1>7, <1>8, <1>9, <1>10

LEMMA SetResponseKeeps ==
  ASSUME IInv, SetResponse
  PROVE  IInv'
<1> USE NiSessionAssumption DEF IInv
<1>1. TypeOK'
  <2>1. Head(fw) \in Sessions \X Responses
    BY DEF SetResponse, FwOK
  <2> QED
    BY <2>1 DEF SetResponse, TypeOK
<1>2. FwOK'
  BY DEF SetResponse, FwOK, TypeOK, Requests, Answer
<1>3. FreshOK'
  BY DEF SetResponse, FreshOK, TypeOK, Requests, Answer
<1>4. LockOK'
  BY DEF SetResponse, LockOK, TypeOK, Requests, Answer
<1>5. MsgOK'
  BY DEF SetResponse, MsgOK, TypeOK, Requests, Answer
<1>6. RawOK'
  BY DEF SetResponse, RawOK, TypeOK, Requests, Answer
<1>7. ResetOK'
  BY DEF SetResponse, ResetOK, TypeOK, Requests, Answer
<1>8. ClearOK'
  BY DEF SetResponse, ClearOK, TypeOK, Requests, Answer
<1>9. RequestAccounted'
  BY DEF SetResponse, RequestAccounted, TypeOK, Requests, Answer
<1>10. AnsweredOnce'
  BY DEF SetResponse, AnsweredOnce, TypeOK, Requests, Answer
<1> QED
  BY <1>1, <1>2, <1>3, <1>4, <1>5, <1>6, <1>7, <1>8, <1>9, <1>10

LEMMA EngineDownKeeps ==
  ASSUME IInv, EngineDown
  PROVE  IInv'
<1> USE NiSessionAssumption DEF IInv
<1>1. TypeOK'
  <2>1. mt' \in Seq({"test", "free", "null", "wake"} \X Sessions)
    BY DEF EngineDown, Sessions
  <2> QED
    BY <2>1 DEF EngineDown, sessionVars, TypeOK
<1>2. FwOK'
  BY DEF EngineDown, sessionVars, FwOK, TypeOK, Requests, Answer
<1>3. FreshOK'
  BY DEF EngineDown, sessionVars, FreshOK, TypeOK, Requests, Answer
<1>4. LockOK'
  BY DEF EngineDown, sessionVars, LockOK, TypeOK, Requests, Answer
<1>5. MsgOK'
  BY DEF EngineDown, sessionVars, MsgOK, TypeOK, Requests, Answer
<1>6. RawOK'
  BY DEF EngineDown, sessionVars, RawOK, TypeOK, Requests, Answer
<1>7. ResetOK'
  <2>1. mt' = <<<<"test", "es">>, <<"test", "std">>>>
    BY DEF EngineDown
  <2>2. /\ DOMAIN mt' = {1, 2} /\ mt'[1] = <<"test", "es">> /\ mt'[2] = <<"test", "std">>
    BY <2>1
  <2>3. \A i \in DOMAIN mt' : mt'[i][1] # "null"
    BY <2>2
  <2> QED
    BY <2>2, <2>3 DEF ResetOK, Ordered
<1>8. ClearOK'
  BY DEF EngineDown, sessionVars, ClearOK, TypeOK, Requests, Answer
<1>9. RequestAccounted'
  BY DEF EngineDown, sessionVars, RequestAccounted, TypeOK, Requests, Answer
<1>10. AnsweredOnce'
  BY DEF EngineDown, sessionVars, AnsweredOnce, TypeOK, Requests, Answer
<1> QED
  BY <1>1, <1>2, <1>3, <1>4, <1>5, <1>6, <1>7, <1>8, <1>9, <1>10


LEMMA InformKeeps ==
  ASSUME IInv, InformNiResponse
  PROVE  IInv'
<1> USE NiSessionAssumption DEF IInv
<1> DEFINE h == Head(msgQ)
<1>0. /\ msgQ # <<>> /\ mt = <<>>
      /\ sent' = Append(sent, h) /\ msgQ' = Tail(msgQ)
      /\ freed' = [freed EXCEPT ![h.req] = @ + 1]
      /\ UNCHANGED <<raw, reqID, resp, respRecvd, tLock, counter, sess, thr, msg, mt, fw,
                     restarts, said>>
  BY DEF InformNiResponse, sessionVars
<1>a. /\ 1 \in DOMAIN msgQ /\ h = msgQ[1] /\ h \in Answer
      /\ \A i \in DOMAIN msgQ' : i + 1 \in DOMAIN msgQ /\ msgQ'[i] = msgQ[i + 1]
                                 /\ i # 0 /\ i \in Nat
      /\ \A i \in DOMAIN msgQ : i # 1 => i - 1 \in DOMAIN msgQ' /\ msgQ'[i - 1] = msgQ[i]
  BY <1>0 DEF TypeOK
<1>b. \A i \in DOMAIN sent' : \/ i \in DOMAIN sent /\ sent'[i] = sent[i]
                              \/ i = Len(sent) + 1 /\ sent'[i] = h
  BY <1>0 DEF TypeOK
<1>c. h.req \in Requests /\ freed \in [Requests -> Nat]
  BY <1>a DEF Answer, TypeOK
<1>d. \A r \in Requests : freed[r] > 0 \/ r = h.req => freed'[r] > 0
  BY <1>0, <1>c
<1> HIDE DEF h
<1>1. TypeOK'
  <2>1. msgQ' \in Seq(Answer) /\ sent' \in Seq(Answer)
    BY <1>0, <1>a DEF TypeOK
  <2>2. freed' \in [Requests -> Nat]
    BY <1>0, <1>c
  <2> QED
    BY <1>0, <2>1, <2>2 DEF TypeOK
<1>2. FwOK'
  BY <1>0 DEF FwOK
<1>3. FreshOK'
  BY <1>0, <1>a, <1>b DEF FreshOK
<1>4. LockOK'
  BY <1>0 DEF LockOK
<1>5. MsgOK'
  <2>1. \A i, j \in DOMAIN msgQ' : msgQ'[i].req = msgQ'[j].req => i = j
    BY <1>a DEF MsgOK
  <2>2. \A i \in DOMAIN msgQ' : msgQ'[i].req # h.req
    BY <1>a DEF MsgOK
  <2> QED
    BY <1>0, <1>a, <1>b, <2>1, <2>2 DEF MsgOK
<1>6. RawOK'
  BY <1>0, <1>a, <1>b DEF RawOK
<1>7. ResetOK'
  BY <1>0 DEF ResetOK
<1>8. ClearOK'
  <2>1. \A u \in Sessions : raw[u] # 0 => raw[u] \in Requests
    BY DEF TypeOK, Requests
  <2> QED
    BY <1>0, <1>d, <2>1 DEF ClearOK, TypeOK
<1>9. RequestAccounted'
  <2>1. 1 .. counter \subseteq Requests
    BY DEF TypeOK, Requests
  <2>2. ASSUME NEW r \in 1 .. counter, r # h.req,
               \E i \in DOMAIN msgQ : msgQ[i].req = r
        PROVE  \E i \in DOMAIN msgQ' : msgQ'[i].req = r
    BY <1>a, <2>2
  <2> QED
    BY <1>0, <1>d, <2>1, <2>2 DEF RequestAccounted
<1>10. AnsweredOnce'
  <2>1. \A i \in DOMAIN sent : sent[i].req # h.req /\ i # Len(sent) + 1
    BY <1>a DEF MsgOK, TypeOK
  <2> QED
    BY <1>b, <2>1 DEF AnsweredOnce
<1> QED
  BY <1>1, <1>2, <1>3, <1>4, <1>5, <1>6, <1>7, <1>8, <1>9, <1>10

-----------------------------------------------------------------------------
\* The reset, step by step.
\* Taking the next step of a reset, or starting one, keeps the order.
LEMMA TailOrdered ==
  ASSUME NEW q \in Seq(Ops), q # <<>>, Ordered(q)
  PROVE  /\ Tail(q) \in Seq(Ops) /\ Ordered(Tail(q))
         /\ Tail(q) # <<>> /\ Tail(q)[1][1] = "null" => q[1] = <<"free", Tail(q)[1][2]>>
<1> DEFINE n == Len(q)
           p == Tail(q)
<1>1. /\ n \in Nat \ {0} /\ DOMAIN q = 1 .. n
      /\ p \in Seq(Ops) /\ DOMAIN p = 1 .. (n - 1)
      /\ \A i \in 1 .. (n - 1) : p[i] = q[i + 1]
      /\ p # <<>> => 1 \in 1 .. (n - 1)
  OBVIOUS
<1> HIDE DEF n, p
<1>2. Ordered(p)
  <2>1. ASSUME NEW i \in 1 .. (n - 1), i > 1, p[i][1] = "null"
        PROVE  p[i - 1] = <<"free", p[i][2]>>
    <3>1. i + 1 \in DOMAIN q /\ i + 1 > 1 /\ i \in 1 .. n /\ (i + 1) - 1 = i
          /\ i - 1 \in 1 .. (n - 1) /\ (i - 1) + 1 = i
      BY <1>1, <2>1
    <3>2. q[(i + 1) - 1] = <<"free", q[i + 1][2]>>
      BY <1>1, <2>1, <3>1 DEF Ordered
    <3> QED
      BY <1>1, <3>1, <3>2
  <2>2. ASSUME NEW i \in 1 .. (n - 1), p[i][1] = "null"
        PROVE  i + 1 \in 1 .. (n - 1) /\ p[i + 1] = <<"wake", p[i][2]>>
    <3>1. i + 1 \in DOMAIN q
      BY <1>1, <2>2
    <3>2. (i + 1) + 1 \in DOMAIN q /\ q[(i + 1) + 1] = <<"wake", p[i][2]>>
      BY <1>1, <2>2, <3>1 DEF Ordered
    <3>3. i + 1 \in 1 .. (n - 1)
      BY <1>1, <3>2
    <3> QED
      BY <1>1, <3>2, <3>3
  <2> QED
    BY <1>1, <2>1, <2>2 DEF Ordered
<1>3. ASSUME p # <<>>, p[1][1] = "null"
      PROVE  q[1] = <<"free", p[1][2]>>
  <2>1. 2 \in DOMAIN q /\ 2 > 1 /\ 2 - 1 = 1 /\ p[1] = q[2]
    BY <1>1, <1>3
  <2> QED
    BY <1>3, <2>1 DEF Ordered
<1> QED
  BY <1>1, <1>2, <1>3 DEF p

Three(s) == <<<<"free", s>>, <<"null", s>>, <<"wake", s>>>>

\* Positions in a concatenation.
LEMMA Joined ==
  ASSUME NEW S, NEW a \in Seq(S), NEW b \in Seq(S)
  PROVE  /\ a \o b \in Seq(S) /\ Len(a \o b) = Len(b) + Len(a)
         /\ Len(a) \in Nat /\ Len(b) \in Nat
         /\ DOMAIN b = 1 .. Len(b) /\ DOMAIN a = 1 .. Len(a)
         /\ DOMAIN (a \o b) = 1 .. (Len(b) + Len(a))
         /\ \A i \in 1 .. Len(a) : (a \o b)[i] = a[i]
         /\ \A i \in 1 .. (Len(b) + Len(a)) : i > Len(a) => (a \o b)[i] = b[i - Len(a)]
OBVIOUS

LEMMA TestOrdered ==
  ASSUME NEW q \in Seq(Ops), q # <<>>, Ordered(q), q[1][1] = "test", NEW s \in Sessions
  PROVE  LET m == Three(s) \o Tail(q) IN
           m \in Seq(Ops) /\ Ordered(m) /\ m # <<>> /\ m[1] = <<"free", s>>
<1> DEFINE k == Tail(q)
           m == Three(s) \o k
<1>1. k \in Seq(Ops) /\ Ordered(k) /\ (k # <<>> => k[1][1] # "null")
  BY TailOrdered
<1> HIDE DEF k
<1>2. Three(s) \in Seq(Ops) /\ Len(Three(s)) = 3
  BY DEF Three, Ops
<1>3. /\ m \in Seq(Ops) /\ DOMAIN m = 1 .. (Len(k) + 3) /\ Len(k) \in Nat
      /\ DOMAIN k = 1 .. Len(k)
      /\ \A i \in 1 .. (Len(k) + 3) : i > 3 => m[i] = k[i - 3]
  <2>0. k \in Seq(Ops) /\ Three(s) \in Seq(Ops) /\ Len(Three(s)) = 3
    BY <1>1, <1>2
  <2>1. m \in Seq(Ops) /\ Len(m) = Len(k) + 3 /\ Len(k) \in Nat /\ DOMAIN k = 1 .. Len(k)
    BY <2>0, Joined
  <2>2. \A i \in 1 .. (Len(k) + Len(Three(s))) :
          i > Len(Three(s)) => m[i] = k[i - Len(Three(s))]
    BY <2>0, Joined
  <2>3. \A i \in 1 .. (Len(k) + 3) : i > 3 => m[i] = k[i - 3]
    BY <2>0, <2>2, Zenon
  <2> QED
    BY <2>1, <2>3
<1>4. m[1] = <<"free", s>> /\ m[2] = <<"null", s>> /\ m[3] = <<"wake", s>>
  BY <1>1, <1>2 DEF Three
<1> HIDE DEF m
<1>5. Ordered(m)
  <2>1. ASSUME NEW i \in DOMAIN m, i > 1, m[i][1] = "null"
        PROVE  m[i-1] = <<"free", m[i][2]>>
    <3>1. CASE i \in {2, 3}
      BY <1>4, <2>1, <3>1
    <3>2. CASE i = 4
      BY <1>1, <1>3, <2>1, <3>2
    <3>3. CASE i > 4
      <4>1. i - 3 \in DOMAIN k /\ i - 3 > 1 /\ m[i] = k[i - 3] /\ m[i - 1] = k[(i - 3) - 1]
        BY <1>3, <2>1, <3>3
      <4> QED
        BY <1>1, <2>1, <4>1 DEF Ordered
    <3> QED
      BY <1>3, <2>1, <3>1, <3>2, <3>3
  <2>2. ASSUME NEW i \in DOMAIN m, m[i][1] = "null"
        PROVE  i + 1 \in DOMAIN m /\ m[i+1] = <<"wake", m[i][2]>>
    <3>1. CASE i \in {1, 2, 3}
      BY <1>3, <1>4, <2>2, <3>1
    <3>2. CASE i > 3
      <4>1. i - 3 \in DOMAIN k /\ m[i] = k[i - 3] /\ i \in Nat
        BY <1>3, <2>2, <3>2
      <4>2. (i - 3) + 1 \in DOMAIN k /\ k[(i - 3) + 1] = <<"wake", m[i][2]>>
        BY <1>1, <2>2, <4>1 DEF Ordered
      <4> QED
        BY <1>3, <3>2, <4>1, <4>2
    <3> QED
      BY <1>3, <3>1, <3>2
  <2> QED
    BY <2>1, <2>2 DEF Ordered
<1>6. m # <<>>
  BY <1>3
<1> QED
  BY <1>3, <1>4, <1>5, <1>6 DEF m, k

\* What a reset leaves alone.
Rest == <<reqID, resp, tLock, counter, sess, thr, msg, msgQ, fw, restarts, sent, said>>

\* A step that changes only mt, respRecvd and freed, which grows.
LEMMA ResetFrame ==
  ASSUME IInv, UNCHANGED Rest, UNCHANGED raw, mt' \in Seq(Ops),
         respRecvd' \in [Sessions -> BOOLEAN], freed' \in [Requests -> Nat],
         \A r \in Requests : freed[r] > 0 => freed'[r] > 0,
         ResetOK', ClearOK'
  PROVE  IInv'
<1> USE NiSessionAssumption DEF IInv, Rest
<1>1. TypeOK'
  BY DEF TypeOK, Ops
<1>2. FwOK' /\ FreshOK' /\ LockOK' /\ MsgOK' /\ RawOK' /\ AnsweredOnce'
  BY DEF FwOK, FreshOK, LockOK, MsgOK, RawOK, AnsweredOnce
<1>3. RequestAccounted'
  <2>1. 1 .. counter \subseteq Requests
    BY DEF TypeOK, Requests
  <2> QED
    BY <2>1 DEF RequestAccounted
<1> QED
  BY <1>1, <1>2, <1>3

LEMMA ResetKeeps ==
  ASSUME IInv, Reset
  PROVE  IInv'
<1> USE NiSessionAssumption DEF IInv
<1> DEFINE s == mt[1][2]
<1>0. /\ mt \in Seq(Ops) /\ mt # <<>> /\ mt[1] \in Ops /\ Ordered(mt)
      /\ s \in Sessions /\ Head(mt) = mt[1] /\ mt[1] = <<mt[1][1], s>> /\ UNCHANGED Rest
  BY DEF Reset, TypeOK, Ops, Rest, ResetOK
<1>a. \A q \in Seq(Ops) : <<>> \o q = q
  OBVIOUS
<1>b. /\ Tail(mt) \in Seq(Ops) /\ Ordered(Tail(mt))
      /\ Tail(mt) # <<>> /\ Tail(mt)[1][1] = "null" => mt[1] = <<"free", Tail(mt)[1][2]>>
  BY <1>0, TailOrdered
<1>c. raw[s] \in Nat /\ (raw[s] # 0 => raw[s] \in Requests) /\ 1 .. counter \subseteq Requests
  <2>1. raw[s] \in 0 .. MaxReq /\ counter \in 0 .. MaxReq
    BY <1>0 DEF TypeOK
  <2> QED
    BY <2>1 DEF Requests
<1>d. respRecvd \in [Sessions -> BOOLEAN] /\ freed \in [Requests -> Nat]
  BY DEF TypeOK
<1>1. CASE mt[1][1] = "test" /\ raw[s] # 0
  <2>1. mt' = Three(s) \o Tail(mt) /\ UNCHANGED <<raw, respRecvd, freed>>
    BY <1>0, <1>1 DEF Reset, Three
  <2>2. mt' \in Seq(Ops) /\ Ordered(mt') /\ mt' # <<>> /\ mt'[1] = <<"free", s>>
    BY <1>0, <1>1, <2>1, TestOrdered
  <2>3. ResetOK' /\ ClearOK'
    BY <1>0, <1>1, <2>1, <2>2 DEF ResetOK, ClearOK, Rest
  <2> QED
    BY <1>0, <1>d, <2>1, <2>2, <2>3, ResetFrame
<1>2. CASE mt[1][1] = "test" /\ raw[s] = 0
  <2>1. mt' = Tail(mt) /\ UNCHANGED <<raw, respRecvd, freed>>
    BY <1>0, <1>a, <1>b, <1>2 DEF Reset
  <2>3. ResetOK' /\ ClearOK'
    BY <1>0, <1>b, <1>2, <2>1 DEF ResetOK, ClearOK, Rest
  <2> QED
    BY <1>0, <1>b, <1>d, <2>1, <2>3, ResetFrame
<1>3. CASE mt[1][1] = "free"
  <2>1. /\ mt' = Tail(mt) /\ UNCHANGED <<raw, respRecvd>>
        /\ raw[s] # 0 => freed' = [freed EXCEPT ![raw[s]] = @ + 1]
        /\ raw[s] = 0 => freed' = freed
    BY <1>0, <1>3 DEF Reset
  <2>2. /\ freed' \in [Requests -> Nat]
        /\ raw[s] # 0 => freed'[raw[s]] > 0
        /\ \A r \in Requests : freed[r] > 0 => freed'[r] > 0
    <3>1. CASE raw[s] = 0
      BY <1>d, <2>1, <3>1
    <3>2. CASE raw[s] # 0
      BY <1>c, <1>d, <2>1, <3>2
    <3> QED
      BY <3>1, <3>2
  <2>3. ResetOK'
    <3>1. ASSUME mt' # <<>>, mt'[1][1] = "null"
          PROVE  mt'[1][2] = s
      BY <1>0, <1>b, <2>1, <3>1
    <3> QED
      BY <1>b, <2>1, <2>2, <3>1 DEF ResetOK
  <2>4. ClearOK'
    <3>1. ASSUME NEW t \in Requests, thr[t] = "clear"
          PROVE  /\ raw[sess[t]] \in Requests
                 /\ \/ freed[raw[sess[t]]] > 0
                    \/ msg[t] # <<>> /\ msg[t][1].req = raw[sess[t]]
      <4>1. raw[sess[t]] # 0
        BY <1>3, <3>1 DEF ClearOK
      <4>2. sess[t] \in Sessions
        BY DEF TypeOK
      <4>3. raw[sess[t]] \in 0 .. MaxReq
        BY <4>2 DEF TypeOK
      <4>4. \/ freed[raw[sess[t]]] > 0
            \/ msg[t] # <<>> /\ msg[t][1].req = raw[sess[t]]
        BY <3>1, <4>1 DEF ClearOK
      <4> HIDE DEF IInv
      <4> QED
        BY <4>1, <4>3, <4>4 DEF Requests
    <3> QED
      BY <1>0, <2>1, <2>2, <3>1 DEF ClearOK, Rest, Requests
  <2> QED
    BY <1>0, <1>b, <1>d, <2>1, <2>2, <2>3, <2>4, ResetFrame
<1>4. CASE mt[1][1] = "null"
  <2>1. /\ mt' = Tail(mt) /\ UNCHANGED <<respRecvd, freed>>
        /\ raw' = [raw EXCEPT ![s] = 0]
    BY <1>0, <1>4 DEF Reset
  <2>2. Tail(mt) # <<>> /\ Tail(mt)[1] = <<"wake", s>>
    BY <1>0, <1>4 DEF Ordered
  <2>3. ResetOK'
    BY <1>b, <2>1, <2>2 DEF ResetOK
  <2>4. ClearOK'
    <3>1. ASSUME NEW t \in Requests, thr[t] = "clear"
          PROVE  raw[sess[t]] # 0
      BY <1>4, <3>1 DEF ClearOK
    <3> QED
      BY <1>0, <2>1, <2>2, <3>1 DEF ClearOK, Rest, TypeOK
  <2>5. freed[raw[s]] > 0 \/ raw[s] = 0
    BY <1>0, <1>4 DEF ResetOK
  <2>6. TypeOK' /\ FwOK' /\ FreshOK' /\ LockOK' /\ MsgOK' /\ RawOK' /\ AnsweredOnce'
    <3>1. \A u \in Sessions : raw'[u] = raw[u] \/ raw'[u] = 0
      BY <2>1 DEF TypeOK
    <3>2. TypeOK'
      <4>0. 0 \in 0 .. MaxReq /\ raw \in [Sessions -> 0 .. MaxReq]
        BY DEF TypeOK
      <4>1. raw' \in [Sessions -> 0 .. MaxReq]
        BY <2>1, <4>0
      <4> QED
        BY <1>0, <1>b, <2>1, <4>1 DEF TypeOK, Rest, Ops
    <3>3. FwOK' /\ LockOK' /\ MsgOK' /\ AnsweredOnce'
      BY <1>0, <2>1 DEF FwOK, LockOK, MsgOK, AnsweredOnce, Rest
    <3>4. FreshOK'
      BY <1>0, <2>1, <3>1, Types DEF FreshOK, Rest
    <3>5. RawOK'
      BY <1>0, <2>1, <3>1, Types DEF RawOK, Rest
    <3> QED
      BY <3>2, <3>3, <3>4, <3>5
  <2>7. RequestAccounted'
    BY <1>0, <2>1, <2>5 DEF RequestAccounted, Rest, TypeOK
  <2> QED
    BY <2>3, <2>4, <2>6, <2>7
<1>5. CASE mt[1][1] = "wake"
  <2>1. /\ mt' = Tail(mt) /\ UNCHANGED <<raw, freed>> /\ tLock[s] = 0
        /\ respRecvd' = [respRecvd EXCEPT ![s] = TRUE]
    BY <1>0, <1>5 DEF Reset
  <2>2. \A t \in Requests : thr[t] = "clear" => sess[t] # s
    BY <2>1 DEF LockOK, Requests
  <2>3. ResetOK' /\ ClearOK'
    BY <1>0, <1>b, <1>5, <2>1, <2>2 DEF ResetOK, ClearOK, Rest
  <2>4. respRecvd' \in [Sessions -> BOOLEAN]
    BY <2>1 DEF TypeOK
  <2> QED
    BY <1>0, <1>b, <1>d, <2>1, <2>3, <2>4, ResetFrame
<1> QED
  BY <1>0, <1>1, <1>2, <1>3, <1>4, <1>5 DEF Ops

-----------------------------------------------------------------------------
\* The NI threads.
LEMMA TakeKeeps ==
  ASSUME IInv, NEW r \in Requests, thr[r] \in {"start", "wait"}, TakesLock(r),
         resp' \in [Sessions -> Responses],
         UNCHANGED <<raw, reqID, counter, sess, msg, msgQ, mt, fw, restarts, sent, freed, said>>
  PROVE  IInv'
<1> USE NiSessionAssumption DEF IInv
<1>0. /\ sess[r] \in Sessions /\ tLock[sess[r]] = 0 /\ msg[r] = <<>>
      /\ tLock' = [tLock EXCEPT ![sess[r]] = r]
      /\ respRecvd' = [respRecvd EXCEPT ![sess[r]] = FALSE]
      /\ thr' = [thr EXCEPT ![r] = "read"]
  BY DEF TakesLock, TypeOK, MsgOK
<1>1. TypeOK'
  <2>1. r \in 0 .. MaxReq /\ "read" \in Places
    BY DEF Requests, Places
  <2>2. /\ tLock' \in [Sessions -> 0 .. MaxReq]
        /\ respRecvd' \in [Sessions -> BOOLEAN] /\ thr' \in [Requests -> Places]
    BY <1>0, <2>1 DEF TypeOK
  <2> QED
    BY <2>2 DEF TypeOK
<1>2. FwOK'
  BY DEF FwOK
<1>3. FreshOK'
  BY <1>0 DEF FreshOK, TypeOK
<1>4. LockOK'
  <2>1. ASSUME NEW t \in Requests, t # r, thr[t] \in {"read", "clear"}
        PROVE  sess[t] # sess[r]
    BY <1>0, <2>1 DEF LockOK, Requests
  <2> QED
    BY <1>0, <2>1 DEF LockOK, TypeOK
<1>5. MsgOK'
  BY <1>0 DEF MsgOK, TypeOK
<1>6. RawOK'
  BY <1>0 DEF RawOK, TypeOK
<1>7. ResetOK'
  BY DEF ResetOK
<1>8. ClearOK'
  BY <1>0 DEF ClearOK, TypeOK
<1>9. RequestAccounted'
  BY DEF RequestAccounted
<1>10. AnsweredOnce'
  BY DEF AnsweredOnce
<1> QED
  BY <1>1, <1>2, <1>3, <1>4, <1>5, <1>6, <1>7, <1>8, <1>9, <1>10

LEMMA WaitKeeps ==
  ASSUME IInv, NEW r \in Requests, StartWait(r) \/ Woken(r) \/ TimedOut(r)
  PROVE  IInv'
<1>1. CASE TakesLock(r)
  <2>1. "NORESP" \in Responses
    BY DEF Responses
  <2>2. resp' \in [Sessions -> Responses]
    BY <2>1 DEF StartWait, Woken, TimedOut, IInv, TypeOK
  <2> QED
    BY <1>1, <2>2, TakeKeeps DEF StartWait, Woken, TimedOut
<1>2. CASE ~TakesLock(r)
  <2>0. /\ thr[r] = "start" /\ thr' = [thr EXCEPT ![r] = "wait"] /\ msg[r] = <<>>
        /\ UNCHANGED <<raw, reqID, resp, respRecvd, tLock, counter, sess, msg, msgQ, mt, fw,
                       restarts, sent, freed, said>>
    BY <1>2 DEF StartWait, Woken, TimedOut, IInv, MsgOK
  <2>1. TypeOK' /\ FwOK' /\ FreshOK'
    BY <2>0 DEF IInv, TypeOK, FwOK, FreshOK, Places
  <2>2. LockOK' /\ MsgOK' /\ RawOK' /\ ResetOK' /\ ClearOK'
    <3>1. \A t \in Requests : thr'[t] \in {"read", "clear", "after"} => thr'[t] = thr[t]
      BY <2>0 DEF IInv, TypeOK
    <3>2. \A t \in Requests : msg[t] # <<>> => thr'[t] = thr[t]
      BY <2>0 DEF IInv, TypeOK
    <3>3. LockOK' /\ ResetOK'
      BY <2>0, <3>1 DEF IInv, LockOK, ResetOK
    <3>4. MsgOK'
      BY <2>0, <3>2 DEF IInv, MsgOK
    <3>5. RawOK'
      BY <2>0, <3>2 DEF IInv, RawOK
    <3>6. ClearOK'
      BY <2>0, <3>1 DEF IInv, ClearOK
    <3> QED
      BY <3>3, <3>4, <3>5, <3>6
  <2>3. RequestAccounted' /\ AnsweredOnce'
    BY <2>0 DEF IInv, RequestAccounted, AnsweredOnce
  <2> QED
    BY <2>1, <2>2, <2>3 DEF IInv
<1> QED
  BY <1>1, <1>2

LEMMA ReadRawKeeps ==
  ASSUME IInv, NEW r \in Requests, ReadRaw(r)
  PROVE  IInv'
<1> USE NiSessionAssumption DEF IInv
<1> DEFINE s == sess[r]
<1>0. /\ thr[r] = "read" /\ s \in Sessions /\ tLock[s] = r /\ msg[r] = <<>>
      /\ UNCHANGED <<raw, reqID, resp, respRecvd, counter, sess, msgQ, mt, fw, restarts,
                     sent, said>>
  BY DEF ReadRaw, TypeOK, LockOK, MsgOK
<1> HIDE DEF s
<1>a. \A t \in Requests : t # r /\ thr[t] = "clear" => sess[t] # s
  BY <1>0 DEF LockOK
<1>b. CASE raw[s] = 0
  <2>0. /\ thr' = [thr EXCEPT ![r] = "after"] /\ tLock' = [tLock EXCEPT ![s] = 0]
        /\ UNCHANGED <<msg, freed>>
    BY <1>b DEF ReadRaw, s
  <2>1. TypeOK' /\ FwOK' /\ FreshOK'
    <3>1. TypeOK'
      BY <1>0, <2>0 DEF TypeOK, Places
    <3>2. FwOK'
      BY <1>0 DEF FwOK
    <3>3. FreshOK'
      BY <1>0, <2>0 DEF FreshOK, TypeOK
    <3> QED
      BY <3>1, <3>2, <3>3
  <2>2. LockOK'
    BY <1>0, <2>0 DEF LockOK, TypeOK, s
  <2>3. MsgOK' /\ RawOK' /\ ResetOK' /\ ClearOK'
    <3>1. \A t \in Requests : thr'[t] = "clear" => thr'[t] = thr[t]
      BY <2>0 DEF TypeOK
    <3>2. \A t \in Requests : msg[t] # <<>> => thr'[t] = thr[t]
      BY <1>0, <2>0 DEF TypeOK
    <3>3. ResetOK'
      BY <1>0, <2>0 DEF ResetOK
    <3>4. MsgOK'
      BY <1>0, <2>0, <3>2 DEF MsgOK
    <3>5. RawOK'
      BY <1>0, <2>0, <3>2 DEF RawOK
    <3>6. ClearOK'
      BY <1>0, <2>0, <3>1 DEF ClearOK
    <3> QED
      BY <3>3, <3>4, <3>5, <3>6
  <2>4. RequestAccounted' /\ AnsweredOnce'
    BY <1>0, <2>0 DEF RequestAccounted, AnsweredOnce
  <2> QED
    BY <2>1, <2>2, <2>3, <2>4
<1>c. CASE raw[s] # 0 /\ resp[s] = "IGNORE"
  <2>0. /\ thr' = [thr EXCEPT ![r] = "clear"]
        /\ freed' = [freed EXCEPT ![raw[s]] = @ + 1]
        /\ UNCHANGED <<msg, tLock>>
    BY <1>c DEF ReadRaw, Answers, s, TypeOK
  <2>a. raw[s] \in Requests /\ freed \in [Requests -> Nat]
    BY <1>0, <1>c DEF TypeOK, Requests
  <2>b. /\ \A q \in Requests : freed[q] > 0 => freed'[q] > 0
        /\ freed' \in [Requests -> Nat] /\ freed'[raw[s]] > 0
    BY <2>0, <2>a
  <2>1. TypeOK' /\ FwOK' /\ FreshOK'
    BY <1>0, <2>0, <2>b DEF TypeOK, FwOK, FreshOK, Places
  <2>2. LockOK' /\ MsgOK' /\ RawOK'
    BY <1>0, <2>0 DEF LockOK, MsgOK, RawOK, TypeOK, s
  <2>3. \A u \in Sessions : raw[u] # 0 => raw[u] \in Requests
    BY DEF TypeOK, Requests
  <2>4. ResetOK'
    <3>1. mt # <<>> => mt[1][2] \in Sessions
      BY DEF TypeOK, Ops
    <3> QED
      BY <1>0, <2>b, <2>3, <3>1 DEF ResetOK
  <2>5. ClearOK'
    BY <1>0, <1>c, <2>0, <2>b, <2>3 DEF ClearOK, TypeOK, s
  <2>6. RequestAccounted'
    <3>1. 1 .. counter \subseteq Requests
      BY DEF TypeOK, Requests
    <3> QED
      BY <1>0, <2>0, <2>b, <3>1 DEF RequestAccounted
  <2>7. AnsweredOnce'
    BY <1>0 DEF AnsweredOnce
  <2> QED
    BY <2>1, <2>2, <2>4, <2>5, <2>6, <2>7
<1>d. CASE raw[s] # 0 /\ resp[s] # "IGNORE"
  <2> DEFINE a == [req |-> raw[s], resp |-> resp[s]]
  <2>0. /\ thr' = [thr EXCEPT ![r] = "clear"] /\ msg' = [msg EXCEPT ![r] = <<a>>]
        /\ UNCHANGED <<freed, tLock>>
    BY <1>d DEF ReadRaw, Answers, s, TypeOK
  <2>a. a \in Answer /\ a.req = raw[s] /\ raw[s] <= counter
    BY <1>0, <1>d DEF Answer, TypeOK, Requests, FreshOK
  <2> HIDE DEF a
  <2>b. \A t \in Requests : msg[t] # <<>> /\ t # r => msg[t][1].req # raw[s]
    BY <1>0, <1>a DEF RawOK
  <2>c. \A t \in Requests :
          msg'[t] # <<>> => \/ t = r /\ msg'[t][1] = a
                            \/ t # r /\ msg'[t] = msg[t]
    <3>1. DOMAIN msg = Requests
      BY DEF TypeOK
    <3>2. msg'[r] = <<a>> /\ \A t \in Requests : t # r => msg'[t] = msg[t]
      BY <2>0, <3>1
    <3>3. msg'[r][1] = a
      BY <3>2
    <3> TAKE t \in Requests
    <3>4. CASE t = r
      BY <3>3, <3>4
    <3>5. CASE t # r
      BY <3>2, <3>5
    <3> QED
      BY <3>4, <3>5
  <2>1. TypeOK' /\ FwOK'
    BY <1>0, <2>0, <2>a DEF TypeOK, FwOK, Places
  <2>2. FreshOK'
    BY <1>0, <2>0, <2>a, <2>c DEF FreshOK, TypeOK
  <2>3. LockOK'
    BY <1>0, <2>0 DEF LockOK, TypeOK, s
  <2>4. MsgOK'
    <3>1. \A t \in Requests : msg'[t] # <<>> => thr'[t] \in {"clear", "after"}
      BY <2>0, <2>c DEF MsgOK, TypeOK
    <3>2. \A t, u \in Requests :
            msg'[t] # <<>> /\ msg'[u] # <<>> /\ msg'[t][1].req = msg'[u][1].req => t = u
      BY <2>a, <2>b, <2>c DEF MsgOK
    <3>3. \A i \in DOMAIN msgQ : msgQ[i].req # a.req
      BY <1>0, <2>a DEF RawOK
    <3>4. \A i \in DOMAIN sent : sent[i].req # a.req
      BY <1>0, <2>a DEF RawOK
    <3> QED
      BY <1>0, <2>c, <3>1, <3>2, <3>3, <3>4 DEF MsgOK
  <2>5. RawOK'
    <3>1. ASSUME NEW u \in Sessions, raw[u] = raw[s] PROVE u = s
      BY <1>0, <1>d, <3>1 DEF RawOK
    <3> QED
      <4>1. \A t \in Requests : msg[t] # <<>> => t # r
        BY <1>0
      <4>2. \A u \in Sessions, t \in Requests :
              msg'[t] # <<>> /\ msg'[t][1].req = raw[u] => thr'[t] = "clear" /\ sess[t] = u
        BY <1>0, <2>0, <2>a, <2>c, <3>1, <4>1 DEF RawOK, TypeOK, s
      <4> QED
        BY <1>0, <4>2 DEF RawOK
  <2>6. ResetOK'
    BY <1>0, <2>0 DEF ResetOK
  <2>7. ClearOK'
    BY <1>0, <1>d, <2>0, <2>a DEF ClearOK, TypeOK, s
  <2>8. RequestAccounted'
    BY <1>0, <2>0, <2>c DEF RequestAccounted, TypeOK
  <2>9. AnsweredOnce'
    BY <1>0 DEF AnsweredOnce
  <2> QED
    BY <2>1, <2>2, <2>3, <2>4, <2>5, <2>6, <2>7, <2>8, <2>9
<1> QED
  BY <1>b, <1>c, <1>d

LEMMA ClearRawKeeps ==
  ASSUME IInv, NEW r \in Requests, ClearRaw(r)
  PROVE  IInv'
<1> USE NiSessionAssumption DEF IInv
<1> DEFINE s == sess[r]
<1>0. /\ thr[r] = "clear" /\ s \in Sessions /\ tLock[s] = r
      /\ raw' = [raw EXCEPT ![s] = 0] /\ tLock' = [tLock EXCEPT ![s] = 0]
      /\ thr' = [thr EXCEPT ![r] = "after"]
      /\ UNCHANGED <<reqID, resp, respRecvd, counter, sess, msg, msgQ, mt, fw, restarts, sent,
                     freed, said>>
  BY DEF ClearRaw, WithoutRaw, TypeOK, LockOK
<1>a. \A t \in Requests : t # r /\ thr[t] = "clear" => sess[t] # s
  BY <1>0 DEF LockOK
<1>b. \A t \in Requests : thr'[t] = IF t = r THEN "after" ELSE thr[t]
  BY <1>0 DEF TypeOK
<1>c. \A u \in Sessions : raw'[u] = IF u = s THEN 0 ELSE raw[u]
  BY <1>0 DEF TypeOK
<1>1. TypeOK'
  <2>1. 0 \in 0 .. MaxReq /\ "after" \in Places
    BY DEF Places
  <2>2. /\ raw' \in [Sessions -> 0 .. MaxReq] /\ tLock' \in [Sessions -> 0 .. MaxReq]
        /\ thr' \in [Requests -> Places]
    BY <1>0, <2>1 DEF TypeOK
  <2> QED
    BY <1>0, <2>2 DEF TypeOK
<1>2. FwOK'
  BY <1>0 DEF FwOK
<1>3. FreshOK'
  BY <1>0, <1>b, <1>c, Types DEF FreshOK
<1>4. LockOK'
  BY <1>0, <1>b DEF LockOK, TypeOK
<1>5. MsgOK'
  BY <1>0, <1>b DEF MsgOK
<1>6. RawOK'
  <2>1. ASSUME NEW u \in Sessions, NEW t \in Requests, msg[t] # <<>>, msg[t][1].req = raw'[u]
        PROVE  thr'[t] = "clear" /\ sess[t] = u
    <3>1. raw'[u] # 0 /\ u # s
      BY <1>c, <2>1, Types
    <3> QED
      BY <1>b, <1>c, <2>1, <3>1 DEF RawOK
  <2> QED
    BY <1>0, <1>c, <2>1, Types DEF RawOK
<1>7. ResetOK'
  <2>1. mt # <<>> => mt[1][2] \in Sessions
    BY DEF TypeOK, Ops
  <2> QED
    BY <1>0, <1>c, <2>1 DEF ResetOK
<1>8. ClearOK'
  BY <1>0, <1>a, <1>b, <1>c DEF ClearOK, TypeOK
<1>9. RequestAccounted'
  <2>1. ASSUME NEW q \in 1 .. counter, raw[s] = q
        PROVE  freed[q] > 0 \/ (msg[r] # <<>> /\ msg[r][1].req = q)
    BY <1>0, <2>1 DEF ClearOK
  <2> QED
    BY <1>0, <1>c, <2>1 DEF RequestAccounted
<1>10. AnsweredOnce'
  BY <1>0 DEF AnsweredOnce
<1> QED
  BY <1>1, <1>2, <1>3, <1>4, <1>5, <1>6, <1>7, <1>8, <1>9, <1>10

LEMMA FinishKeeps ==
  ASSUME IInv, NEW r \in Requests, Finish(r)
  PROVE  IInv'
<1> USE NiSessionAssumption DEF IInv
<1>0. /\ thr[r] = "after" /\ sess[r] \in Sessions
      /\ reqID' = [reqID EXCEPT ![sess[r]] = 0]
      /\ msgQ' = msgQ \o msg[r] /\ msg' = [msg EXCEPT ![r] = <<>>]
      /\ thr' = [thr EXCEPT ![r] = "done"]
      /\ UNCHANGED <<raw, resp, respRecvd, tLock, counter, sess, mt, fw, restarts, sent,
                     freed, said>>
  BY DEF Finish, TypeOK
<1>a. \A t \in Requests : thr'[t] = IF t = r THEN "done" ELSE thr[t]
  BY <1>0 DEF TypeOK
<1>b. \A t \in Requests : msg'[t] = IF t = r THEN <<>> ELSE msg[t]
  BY <1>0 DEF TypeOK
<1>c. /\ msgQ' \in Seq(Answer)
      /\ \A i \in DOMAIN msgQ' :
           \/ i \in DOMAIN msgQ /\ msgQ'[i] = msgQ[i]
           \/ i = Len(msgQ) + 1 /\ msg[r] # <<>> /\ msgQ'[i] = msg[r][1]
      /\ \A i \in DOMAIN msgQ : i \in DOMAIN msgQ' /\ msgQ'[i] = msgQ[i]
      /\ msg[r] # <<>> => Len(msgQ) + 1 \in DOMAIN msgQ' /\ msgQ'[Len(msgQ) + 1] = msg[r][1]
  <2>1. msgQ \in Seq(Answer)
    BY DEF TypeOK
  <2>2. CASE msg[r] = <<>>
    <3>1. msgQ' = msgQ
      BY <1>0, <2>1, <2>2
    <3> QED
      BY <2>1, <2>2, <3>1
  <2>3. CASE msg[r] # <<>>
    <3>1. msg[r] = <<msg[r][1]>> /\ msg[r][1] \in Answer
      BY <2>3, Types
    <3> DEFINE a == msg[r][1]
    <3>2. msgQ' = msgQ \o <<a>> /\ a \in Answer
      BY <1>0, <3>1
    <3> HIDE DEF a
    <3>3. msgQ' = Append(msgQ, a)
      BY <2>1, <3>2
    <3>4. /\ msgQ' \in Seq(Answer) /\ DOMAIN msgQ' = 1 .. (Len(msgQ) + 1)
          /\ Len(msgQ) \in Nat /\ DOMAIN msgQ = 1 .. Len(msgQ)
          /\ \A i \in 1 .. Len(msgQ) : msgQ'[i] = msgQ[i]
          /\ msgQ'[Len(msgQ) + 1] = a
      BY <2>1, <3>2, <3>3
    <3> QED
      BY <2>3, <3>4 DEF a
  <2> QED
    BY <2>2, <2>3
<1>d. \A i \in DOMAIN msgQ : i # Len(msgQ) + 1
  BY DEF TypeOK
<1>1. TypeOK'
  <2>1. 0 \in 0 .. MaxReq /\ "done" \in Places /\ <<>> \in {<<>>} \cup {<<a>> : a \in Answer}
    BY DEF Places
  <2>2. reqID' \in [Sessions -> 0 .. MaxReq] /\ thr' \in [Requests -> Places]
    BY <1>0, <2>1 DEF TypeOK
  <2>3. msg' \in [Requests -> {<<>>} \cup {<<a>> : a \in Answer}]
    BY <1>0, <2>1 DEF TypeOK
  <2> QED
    BY <1>0, <1>c, <2>2, <2>3 DEF TypeOK
<1>2. FwOK'
  BY <1>0 DEF FwOK
<1>3. FreshOK'
  BY <1>0, <1>a, <1>b, <1>c DEF FreshOK
<1>4. LockOK'
  BY <1>0, <1>a DEF LockOK
<1>5. MsgOK'
  <2>1. \A i, j \in DOMAIN msgQ' : msgQ'[i].req = msgQ'[j].req => i = j
    BY <1>c, <1>d DEF MsgOK
  <2>2. \A t \in Requests, i \in DOMAIN msgQ' :
          msg'[t] # <<>> => msg'[t][1].req # msgQ'[i].req
    BY <1>b, <1>c DEF MsgOK
  <2>3. \A i \in DOMAIN msgQ', j \in DOMAIN sent : msgQ'[i].req # sent[j].req
    BY <1>c DEF MsgOK
  <2> QED
    BY <1>0, <1>a, <1>b, <2>1, <2>2, <2>3 DEF MsgOK
<1>6. RawOK'
  <2>1. \A u \in Sessions : msg[r] # <<>> => msg[r][1].req # raw[u]
    BY <1>0 DEF RawOK
  <2> QED
    BY <1>0, <1>a, <1>b, <1>c, <2>1 DEF RawOK
<1>7. ResetOK'
  BY <1>0 DEF ResetOK
<1>8. ClearOK'
  BY <1>0, <1>a, <1>b DEF ClearOK
<1>9. RequestAccounted'
  <2>1. ASSUME NEW q \in 1 .. counter, msg[r] # <<>>, msg[r][1].req = q
        PROVE  \E i \in DOMAIN msgQ' : msgQ'[i].req = q
    BY <1>c, <2>1
  <2>2. ASSUME NEW q \in 1 .. counter, \E i \in DOMAIN msgQ : msgQ[i].req = q
        PROVE  \E i \in DOMAIN msgQ' : msgQ'[i].req = q
    BY <1>c, <2>2
  <2>3. ASSUME NEW q \in 1 .. counter, NEW t \in Requests, msg[t] # <<>>, msg[t][1].req = q
        PROVE  \/ msg'[t] # <<>> /\ msg'[t][1].req = q
               \/ \E i \in DOMAIN msgQ' : msgQ'[i].req = q
    BY <1>b, <2>1, <2>3
  <2> QED
    BY <1>0, <2>2, <2>3 DEF RequestAccounted
<1>10. AnsweredOnce'
  BY <1>0 DEF AnsweredOnce
<1> QED
  BY <1>1, <1>2, <1>3, <1>4, <1>5, <1>6, <1>7, <1>8, <1>9, <1>10

LEMMA NextKeeps == IInv /\ [Next]_vars => IInv'
<1> SUFFICES ASSUME IInv, [Next]_vars PROVE IInv'
  OBVIOUS
<1>1. CASE \E s \in Sessions : RequestNi(s)
  BY <1>1, RequestNiKeeps
<1>2. CASE EngineDown \/ MsgTaskStep
  BY <1>2, EngineDownKeeps, ResetKeeps, InformKeeps DEF MsgTaskStep
<1>3. CASE \E r \in Requests, u \in UserResponses : Respond(r, u)
  BY <1>3, RespondKeeps
<1>4. CASE SetResponse
  BY <1>4, SetResponseKeeps
<1>5. CASE \E r \in Requests : NiThread(r)
  BY <1>5, WaitKeeps, ReadRawKeeps, ClearRawKeeps, FinishKeeps DEF NiThread
<1>6. CASE UNCHANGED vars
  <2> USE <1>6 DEF vars, sessionVars, IInv
  <2>1. TypeOK' /\ FwOK' /\ FreshOK' /\ LockOK'
    BY DEF TypeOK, FwOK, FreshOK, LockOK
  <2>2. MsgOK' /\ RawOK' /\ ResetOK' /\ ClearOK'
    BY DEF MsgOK, RawOK, ResetOK, ClearOK
  <2>3. RequestAccounted' /\ AnsweredOnce'
    BY DEF RequestAccounted, AnsweredOnce
  <2> QED
    BY <2>1, <2>2, <2>3
<1> QED
  BY <1>1, <1>2, <1>3, <1>4, <1>5, <1>6 DEF Next

THEOREM Inductive == Spec => []IInv
BY InitHolds, NextKeeps, PTL DEF Spec

\* The sessions, threads and queues keep their types (TypeOK).
THEOREM TypeCorrect == Spec => []TypeOK
<1>1. IInv => TypeOK
  BY DEF IInv
<1> QED
  BY <1>1, Inductive, PTL

\* The modem never gets two responses for one request, whatever requests,
\* restarts, time-outs and responses cross (AnsweredOnce).
THEOREM OneAnswer == Spec => []AnsweredOnce
<1>1. IInv => AnsweredOnce
  BY DEF IInv
<1> QED
  BY <1>1, Inductive, PTL

\* No raw request is lost by the session, the threads and the queue before it
\* was freed (RequestAccounted).
THEOREM NothingLost == Spec => []RequestAccounted
<1>1. IInv => RequestAccounted
  BY DEF IInv
<1> QED
  BY <1>1, Inductive, PTL
=============================================================================
