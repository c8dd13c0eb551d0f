-------------------------- MODULE RpcServerProofs --------------------------
(***************************************************************************)
(* Proofs about RpcServer for any connections, any number of requests and  *)
(* any kinds of them.                                                      *)
(***************************************************************************)
EXTENDS RpcServer, TLAPS

(***************************************************************************)
(* The inductive invariant.  That answers do not mix on a connection rests *)
(* on the mutex of the session, on every request having one coroutine, and *)
(* on an answer that was cut off being the last: whoever gets the mutex    *)
(* after it finds the connection over.                                     *)
(***************************************************************************)
\* handleClient: before it there is nothing, then there is a socket, and a
\* request it has received and not yet started has no coroutine.
HandlerInv ==
  \A c \in Conns :
    /\ handler[c] = "off" => out[c] = <<>> /\ \A i \in Requests : task[c][i] = "none"
    /\ handler[c] # "off" => m_sock[c] # "none"
    /\ received[c] <= sent[c]
    /\ handler[c] \in {"reset", "go"} => received[c] > 0
    /\ \A i \in Requests : task[c][i] # "none" =>
         i <= received[c] /\ (handler[c] \in {"reset", "go"} => i < received[c])

\* Who writes holds the mutex.
MutexHeld ==
  \A c \in Conns, i \in Requests : task[c][i] \in {"first", "second"} => m_mutex[c] = i

\* A part of an answer comes from a coroutine that wrote it: its first part
\* only, as long as it is between the two.
PartsByTask ==
  \A c \in Conns : \A k \in 1..Len(out[c]) :
    \/ task[c][out[c][k][1]] = "done"
    \/ task[c][out[c][k][1]] = "second" /\ out[c][k][2] = 1

\* While the connection lasts the latest part is a first one exactly if its
\* coroutine is between the two.
LastPart ==
  \A c \in Conns : peerUp[c] /\ m_sock[c] = "open" =>
    /\ \A i \in Requests : task[c][i] = "second" =>
         Len(out[c]) > 0 /\ out[c][Len(out[c])] = <<i, 1>>
    /\ Len(out[c]) > 0 /\ out[c][Len(out[c])][2] = 1 =>
         task[c][out[c][Len(out[c])][1]] = "second"

IInv == /\ TypeOK /\ HandlerInv /\ MutexHeld /\ PartsByTask /\ LastPart
        /\ AnswersWhole /\ NoTimerLeft

(***************************************************************************)
(* Sequences of parts.                                                     *)
(***************************************************************************)
Part == Requests \X (1..3)

\* The parts of s are whole answers, but for the last.
Whole(s) ==
  \A k \in 1..Len(s) :
    /\ IF s[k][2] = 1 THEN k = 1 \/ s[k - 1][2] > 1
       ELSE k > 1 /\ s[k - 1] = <<s[k][1], s[k][2] - 1>>
    /\ \A j \in 1..(k - 1) : s[j] # s[k]

\* Two parts written at once are two parts written one after the other.
LEMMA AppendTwo ==
  ASSUME NEW S, NEW s \in Seq(S), NEW p \in S, NEW q \in S
  PROVE  s \o <<p>> = Append(s, p) /\ s \o <<p, q>> = Append(Append(s, p), q)
<1> DEFINE u == s \o <<p, q>>
           v == Append(Append(s, p), q)
<1>1. u \in Seq(S) /\ v \in Seq(S) /\ Len(u) = Len(s) + 2 /\ Len(v) = Len(s) + 2
  OBVIOUS
<1>2. \A k \in 1..(Len(s) + 2) : u[k] = v[k]
  OBVIOUS
<1>3. u = v
  BY <1>1, <1>2
<1>4. s \o <<p>> = Append(s, p)
  OBVIOUS
<1> QED BY <1>3, <1>4

\* AnswersWhole says so of every connection.
LEMMA WholeDef == AnswersWhole <=> \A c \in Conns : Whole(out[c])
BY DEF AnswersWhole, Whole

\* The next part goes on where the last one ended and is new.
LEMMA WholeAppend ==
  ASSUME NEW s \in Seq(Part), NEW p \in Part, Whole(s),
         IF p[2] = 1 THEN Len(s) = 0 \/ s[Len(s)][2] > 1
         ELSE Len(s) > 0 /\ s[Len(s)] = <<p[1], p[2] - 1>>,
         \A j \in 1..Len(s) : s[j] # p
  PROVE  Append(s, p) \in Seq(Part) /\ Whole(Append(s, p))
<1> DEFINE t == Append(s, p)
<1>1. /\ t \in Seq(Part) /\ Len(t) = Len(s) + 1 /\ t[Len(s) + 1] = p
      /\ \A k \in 1..Len(s) : t[k] = s[k]
  OBVIOUS
<1> HIDE DEF t
<1>2. ASSUME NEW k \in 1..Len(t)
      PROVE  /\ IF t[k][2] = 1 THEN k = 1 \/ t[k - 1][2] > 1
                ELSE k > 1 /\ t[k - 1] = <<t[k][1], t[k][2] - 1>>
             /\ \A j \in 1..(k - 1) : t[j] # t[k]
  <2>1. CASE k \in 1..Len(s)
    <3>1. t[k] = s[k] /\ (k > 1 => k - 1 \in 1..Len(s) /\ t[k - 1] = s[k - 1])
      BY <1>1, <2>1
    <3>2. \A j \in 1..(k - 1) : t[j] = s[j]
      BY <1>1, <2>1
    <3> QED BY <2>1, <3>1, <3>2 DEF Whole
  <2>2. CASE k = Len(s) + 1
    BY <1>1, <2>2
  <2> QED BY <1>1, <2>1, <2>2
<1> QED BY <1>1, <1>2 DEF Whole, t
(***************************************************************************)
(* Type correctness.  That received[c] numbers a request when its          *)
(* coroutine is started is a part of HandlerInv.                           *)
(***************************************************************************)
\* The flag of the process.
FlagTypes == crashed \in BOOLEAN

\* What is written are parts.
LEMMA WrittenType ==
  ASSUME TypeOK, NEW c \in Conns, NEW i \in Requests, NEW k \in 1..2, Written(c, i, k)
  PROVE  out' \in [Conns -> Seq(Part)]
<1>1. Parts(c, i, k) \in Seq(Part)
  <2>1. <<i, k>> \in Part /\ <<i, 2>> \in Part /\ <<i, 3>> \in Part
    BY DEF Part
  <2>2. <<<<i, k>>>> \in Seq(Part) /\ <<<<i, 2>>, <<i, 3>>>> \in Seq(Part)
    BY <2>1
  <2> QED BY <2>2 DEF Parts
<1>2. out[c] \o Parts(c, i, k) \in Seq(Part)
  BY <1>1 DEF TypeOK, Part
<1>3. out \in [Conns -> Seq(Part)]
  BY DEF TypeOK, Part
<1> QED BY <1>2, <1>3 DEF Written

\* An update of what a connection has for a request.
LEMMA UpdateType ==
  ASSUME NEW S, NEW f \in [Conns -> [Requests -> S]],
         NEW c \in Conns, NEW i \in Requests, NEW v \in S
  PROVE  [f EXCEPT ![c][i] = v] \in [Conns -> [Requests -> S]]
OBVIOUS

\* A coroutine that goes on, answers or ends.
LEMMA TaskTypes ==
  ASSUME TypeOK, NEW c \in Conns, NEW i \in Requests
  PROVE  /\ \A step \in Active \cup {"none", "done"} :
              StepTo(c, i, step) =>
                task' \in [Conns -> [Requests -> Active \cup {"none", "done"}]]
         /\ \A a \in {"none", "success", "failShort", "failLong"} :
              Answer(c, i, a) =>
                rsp' \in [Conns -> [Requests -> {"none", "success", "failShort", "failLong"}]]
         /\ TaskEnds(c, i) =>
              /\ task' \in [Conns -> [Requests -> Active \cup {"none", "done"}]]
              /\ rsp' \in [Conns -> [Requests -> {"none", "success", "failShort", "failLong"}]]
              /\ m_sock' \in [Conns -> {"none", "open", "closed"}]
<1>1. ASSUME NEW step \in Active \cup {"none", "done"}, StepTo(c, i, step)
      PROVE  task' \in [Conns -> [Requests -> Active \cup {"none", "done"}]]
  BY <1>1, UpdateType DEF TypeOK, StepTo
<1>2. ASSUME NEW a \in {"none", "success", "failShort", "failLong"}, Answer(c, i, a)
      PROVE  rsp' \in [Conns -> [Requests -> {"none", "success", "failShort", "failLong"}]]
  BY <1>2, UpdateType DEF TypeOK, Answer
<1>3. ASSUME TaskEnds(c, i) PROVE m_sock' \in [Conns -> {"none", "open", "closed"}]
  BY <1>3 DEF TaskEnds, Release, TypeOK
<1> QED BY <1>1, <1>2, <1>3 DEF TaskEnds

\* Every step keeps the flag Boolean.
LEMMA FlagTypesStep == FlagTypes /\ [Next]_vars => FlagTypes'
<1> SUFFICES ASSUME FlagTypes, [Next]_vars PROVE FlagTypes'
  OBVIOUS
<1>1. ASSUME NEW c \in Conns, Accept(c) \/ ClientSend(c) \/ ClientLeave(c)
      PROVE  FlagTypes'
  BY <1>1, Zenon DEF FlagTypes, Accept, ClientSend, ClientLeave
<1>2. ASSUME NEW c \in Conns, HandlerStep(c) \/ RecvRefused(c) \/ RecvThrows(c)
                             \/ Expire(c) \/ OnTimeout(c)
      PROVE  FlagTypes'
  BY <1>2, Zenon DEF FlagTypes, HandlerStep, TestConnected, Recv, RecvClosed, RecvRefused,
     RecvThrows, RecvNull, ResetTimer, Go, Expire, OnTimeout
<1>3. ASSUME NEW c \in Conns, NEW i \in Requests, TaskStep(c, i) \/ WriteStep(c, i)
      PROVE  FlagTypes'
  BY <1>3, Zenon DEF FlagTypes, TaskStep, WriteStep, Handle, CheckConnected, Encode, Lock,
     WriteFirst, WriteSecond
<1>4. CASE UNCHANGED vars
  BY <1>4, Zenon DEF FlagTypes, vars
<1> QED BY <1>1, <1>2, <1>3, <1>4 DEF Next

\* Every step keeps the types.
LEMMA TypeStep == TypeOK /\ HandlerInv /\ [Next]_vars => TypeOK'
<1> SUFFICES ASSUME TypeOK, HandlerInv, [Next]_vars PROVE TypeOK'
  OBVIOUS
<1>f. FlagTypes'
  BY FlagTypesStep DEF TypeOK, FlagTypes
<1> USE RpcServerAssumption DEF TypeOK, Active, Requests, FlagTypes
<1>1. ASSUME NEW c \in Conns, Accept(c) PROVE TypeOK'
  BY <1>f, <1>1 DEF Accept
<1>2. ASSUME NEW c \in Conns, ClientSend(c) PROVE TypeOK'
  BY <1>f, <1>2 DEF ClientSend
<1>3. ASSUME NEW c \in Conns, ClientLeave(c) PROVE TypeOK'
  BY <1>f, <1>3 DEF ClientLeave
<1>4. ASSUME NEW c \in Conns, TestConnected(c) PROVE TypeOK'
  BY <1>f, <1>4 DEF TestConnected, HandlerEnds, Release
<1>5. ASSUME NEW c \in Conns, Recv(c) PROVE TypeOK'
  BY <1>f, <1>5 DEF Recv
<1>6. ASSUME NEW c \in Conns, RecvNull(c) PROVE TypeOK'
  BY <1>f, <1>6 DEF RecvNull, HandlerEnds, Release
<1>7. ASSUME NEW c \in Conns, ResetTimer(c) PROVE TypeOK'
  BY <1>f, <1>7 DEF ResetTimer
<1>8. ASSUME NEW c \in Conns, Go(c) PROVE TypeOK'
  BY <1>f, <1>8 DEF Go, HandlerInv
<1>9. ASSUME NEW c \in Conns, Expire(c) PROVE TypeOK'
  BY <1>f, <1>9 DEF Expire
<1>9a. ASSUME NEW c \in Conns, OnTimeout(c) PROVE TypeOK'
  BY <1>f, <1>9a DEF OnTimeout
<1>9b. ASSUME NEW c \in Conns, RecvThrows(c) PROVE TypeOK'
  BY <1>f, <1>9b DEF RecvThrows
<1>10. ASSUME NEW c \in Conns, NEW i \in Requests, Handle(c, i) PROVE TypeOK'
  <2>1. /\ task' \in [Conns -> [Requests -> Active \cup {"none", "done"}]]
        /\ rsp' \in [Conns -> [Requests -> {"none", "success", "failShort", "failLong"}]]
        /\ m_sock' \in [Conns -> {"none", "open", "closed"}]
    <3>1. PICK kind \in Kinds :
            \/ UNCHANGED <<task, m_sock, rsp>>
            \/ TaskEnds(c, i)
            \/ /\ kind \in {"heartbeat", "success", "failShort", "failLong"}
               /\ Answer(c, i, IF kind = "heartbeat" THEN "success" ELSE kind)
               /\ StepTo(c, i, "check") /\ UNCHANGED m_sock
      BY <1>10 DEF Handle
    <3>2. CASE UNCHANGED <<task, m_sock, rsp>>
      BY <3>2
    <3>3. CASE TaskEnds(c, i)
      BY <3>3, TaskTypes
    <3>4. CASE /\ kind \in {"heartbeat", "success", "failShort", "failLong"}
               /\ Answer(c, i, IF kind = "heartbeat" THEN "success" ELSE kind)
               /\ StepTo(c, i, "check") /\ UNCHANGED m_sock
      <4> DEFINE a == IF kind = "heartbeat" THEN "success" ELSE kind
      <4>1. a \in {"none", "success", "failShort", "failLong"}
        BY <3>4
      <4> HIDE DEF a
      <4> QED BY <3>4, <4>1, TaskTypes, ZenonT(30) DEF a
    <3> QED BY <3>1, <3>2, <3>3, <3>4
  <2> QED BY <1>f, <1>10, <2>1 DEF Handle
<1>11. ASSUME NEW c \in Conns, NEW i \in Requests, CheckConnected(c, i) PROVE TypeOK'
  BY <1>f, <1>11, TaskTypes DEF CheckConnected
<1>12. ASSUME NEW c \in Conns, NEW i \in Requests, Encode(c, i) PROVE TypeOK'
  BY <1>f, <1>12, TaskTypes DEF Encode
<1>13. ASSUME NEW c \in Conns, NEW i \in Requests, Lock(c, i) PROVE TypeOK'
  <2>1. task' \in [Conns -> [Requests -> Active \cup {"none", "done"}]]
    BY <1>13, TaskTypes DEF Lock
  <2>2. m_mutex' \in [Conns -> 0..MaxRequests]
    BY <1>13 DEF Lock
  <2> QED BY <1>f, <1>13, <2>1, <2>2 DEF Lock
<1>14. ASSUME NEW c \in Conns, NEW i \in Requests, WriteFirst(c, i) PROVE TypeOK'
  <2>1. out' \in [Conns -> Seq(Requests \X (1..3))]
    BY <1>14, WrittenType, SMTT(30) DEF WriteFirst, WriteFails, Part
  <2>2. m_mutex' \in [Conns -> 0..MaxRequests]
    <3>1. m_mutex' = m_mutex \/ m_mutex' = [m_mutex EXCEPT ![c] = 0]
      BY <1>14 DEF WriteFirst, WriteFails
    <3>2. 0 \in 0..MaxRequests /\ m_mutex \in [Conns -> 0..MaxRequests]
      OBVIOUS
    <3> QED BY <3>1, <3>2
  <2>3. /\ task' \in [Conns -> [Requests -> Active \cup {"none", "done"}]]
        /\ rsp' \in [Conns -> [Requests -> {"none", "success", "failShort", "failLong"}]]
        /\ m_sock' \in [Conns -> {"none", "open", "closed"}]
    BY <1>14, TaskTypes DEF WriteFirst, WriteFails
  <2> QED BY <1>f, <1>14, <2>1, <2>2, <2>3 DEF WriteFirst
<1>15. ASSUME NEW c \in Conns, NEW i \in Requests, WriteSecond(c, i) PROVE TypeOK'
  <2>1. out' \in [Conns -> Seq(Requests \X (1..3))]
    BY <1>15, WrittenType, SMTT(30) DEF WriteSecond, WriteFails, Part
  <2>2. m_mutex' \in [Conns -> 0..MaxRequests]
    <3>1. m_mutex' = m_mutex \/ m_mutex' = [m_mutex EXCEPT ![c] = 0]
      BY <1>15 DEF WriteSecond, WriteFails
    <3>2. 0 \in 0..MaxRequests /\ m_mutex \in [Conns -> 0..MaxRequests]
      OBVIOUS
    <3> QED BY <3>1, <3>2
  <2>3. /\ task' \in [Conns -> [Requests -> Active \cup {"none", "done"}]]
        /\ rsp' \in [Conns -> [Requests -> {"none", "success", "failShort", "failLong"}]]
        /\ m_sock' \in [Conns -> {"none", "open", "closed"}]
    BY <1>15, TaskTypes DEF WriteSecond, WriteFails
  <2> QED BY <1>f, <1>15, <2>1, <2>2, <2>3 DEF WriteSecond
<1>16. CASE UNCHANGED vars
  BY <1>16 DEF vars
<1> QED
  BY <1>1, <1>2, <1>3, <1>4, <1>5, <1>6, <1>7, <1>8,
     <1>9, <1>9a, <1>9b, <1>10, <1>11, <1>12, <1>13, <1>14, <1>15, <1>16
     DEF Next, HandlerStep, RecvClosed, RecvRefused, TaskStep, WriteStep

(***************************************************************************)
(* The invariant.                                                          *)
(***************************************************************************)
\* What a coroutine that goes on changes.
LEMMA StepToEffect ==
  ASSUME TypeOK, NEW c \in Conns, NEW i \in Requests, NEW step, StepTo(c, i, step)
  PROVE  \A d \in Conns, j \in Requests :
           task'[d][j] = IF d = c /\ j = i THEN step ELSE task[d][j]
BY DEF TypeOK, StepTo

\* A session that is let go may close its socket, and changes no other.
LEMMA ReleaseEffect ==
  ASSUME TypeOK, NEW c \in Conns, NEW handlers, NEW tasks, Release(c, handlers, tasks)
  PROVE  \A d \in Conns : m_sock'[d] = m_sock[d] \/ m_sock'[d] = "closed"
BY DEF TypeOK, Release

\* A coroutine goes on without writing to a client that is there.  One that
\* had written its first part ends only because the connection is over.
LEMMA QuietMove ==
  ASSUME IInv, TypeOK', NEW c \in Conns, NEW i \in Requests, NEW step,
         task[c][i] \in Active, step # "none",
         \A d \in Conns, j \in Requests :
           task'[d][j] = IF d = c /\ j = i THEN step ELSE task[d][j],
         \A d \in Conns : m_sock'[d] = m_sock[d] \/ m_sock'[d] = "closed",
         UNCHANGED <<handler, timer, received, sent, peerUp, out>>,
         step = "second" => ~peerUp[c],
         task[c][i] = "second" => step = "done" /\ (m_sock[c] = "closed" \/ ~peerUp[c])
  PROVE  HandlerInv' /\ PartsByTask' /\ LastPart' /\ AnswersWhole' /\ NoTimerLeft'
<1> USE DEF IInv
<1>1. task[c][i] # "none" /\ task[c][i] # "done"
  BY DEF Active
<1>2. HandlerInv'
  <2>1. handler[c] # "off"
    BY <1>1 DEF HandlerInv
  <2> QED BY <1>1, <2>1 DEF HandlerInv
<1>3. PartsByTask'
  <2> SUFFICES ASSUME NEW d \in Conns, NEW k \in 1..Len(out[d])
               PROVE  \/ task'[d][out[d][k][1]] = "done"
                      \/ task'[d][out[d][k][1]] = "second" /\ out[d][k][2] = 1
    BY DEF PartsByTask
  <2>1. out[d][k][1] \in Requests
    BY DEF TypeOK
  <2> QED BY <1>1, <2>1 DEF PartsByTask
<1>4. LastPart'
  <2> SUFFICES ASSUME NEW d \in Conns, peerUp[d], m_sock'[d] = "open"
               PROVE  /\ \A j \in Requests : task'[d][j] = "second" =>
                           Len(out[d]) > 0 /\ out[d][Len(out[d])] = <<j, 1>>
                      /\ Len(out[d]) > 0 /\ out[d][Len(out[d])][2] = 1 =>
                           task'[d][out[d][Len(out[d])][1]] = "second"
    BY DEF LastPart
  <2>1. m_sock[d] = "open"
    OBVIOUS
  <2>2. \A j \in Requests : task'[d][j] = "second" <=> task[d][j] = "second"
    BY <2>1
  <2>3. Len(out[d]) > 0 => out[d][Len(out[d])][1] \in Requests
    BY DEF TypeOK
  <2> QED BY <2>1, <2>2, <2>3 DEF LastPart
<1>5. AnswersWhole'
  BY DEF AnswersWhole
<1>6. NoTimerLeft'
  BY DEF NoTimerLeft
<1> QED BY <1>2, <1>3, <1>4, <1>5, <1>6

\* The first part of an answer, for a client that is there.
LEMMA FirstPart ==
  ASSUME IInv, TypeOK', NEW c \in Conns, NEW i \in Requests,
         peerUp[c], m_sock[c] = "open", task[c][i] = "first",
         StepTo(c, i, "second"), Written(c, i, 1),
         UNCHANGED <<handler, timer, received, sent, peerUp, m_mutex, m_sock>>
  PROVE  IInv'
<1> USE DEF IInv
<1> DEFINE s == out[c]
           p == <<i, 1>>
<1>0. s \in Seq(Part) /\ p \in Part
  BY DEF TypeOK, Part
<1>1. \A d \in Conns : out'[d] = IF d = c THEN Append(s, p) ELSE out[d]
  <2>1. Parts(c, i, 1) = <<p>>
    BY DEF Parts
  <2>2. s \o <<p>> = Append(s, p)
    BY <1>0
  <2> QED BY <2>1, <2>2 DEF Written, TypeOK
<1>2. \A d \in Conns, j \in Requests :
        task'[d][j] = IF d = c /\ j = i THEN "second" ELSE task[d][j]
  BY StepToEffect
<1>3. \A j \in Requests : task[c][j] # "second"
  BY DEF MutexHeld
<1>4. \A k \in 1..Len(s) : s[k] \in Part /\ s[k][1] \in Requests /\ s[k][1] # i
  BY <1>0 DEF PartsByTask, Part
<1>5. Len(s) = 0 \/ s[Len(s)][2] > 1
  <2>1. Len(s) > 0 => Len(s) \in 1..Len(s) /\ s[Len(s)][2] \in 1..3
    BY <1>0 DEF Part
  <2> QED BY <1>0, <1>3, <1>4, <2>1 DEF LastPart
<1>6. Whole(Append(s, p))
  <2>1. Whole(s) /\ \A k \in 1..Len(s) : s[k] # p
    BY <1>4, WholeDef
  <2>2. p[2] = 1
    OBVIOUS
  <2> QED BY <1>0, <1>5, <2>1, <2>2, WholeAppend
<1>7. /\ Len(s) \in Nat /\ Len(out'[c]) = Len(s) + 1 /\ out'[c][Len(s) + 1] = <<i, 1>>
      /\ \A k \in 1..Len(s) : out'[c][k] = s[k]
  <2>1. out'[c] = Append(s, p)
    BY <1>1
  <2>2. /\ Len(s) \in Nat /\ Len(Append(s, p)) = Len(s) + 1
        /\ Append(s, p)[Len(s) + 1] = p
    BY <1>0
  <2>3. \A k \in 1..Len(s) : Append(s, p)[k] = s[k]
    BY <1>0
  <2> QED BY <2>1, <2>2, <2>3
<1> HIDE DEF s, p
<1>8. AnswersWhole'
  <2>1. \A d \in Conns : Whole(out'[d])
    BY <1>1, <1>6, WholeDef
  <2> QED BY <2>1 DEF AnswersWhole, Whole
<1>9. PartsByTask'
  <2> SUFFICES ASSUME NEW d \in Conns, NEW k \in 1..Len(out'[d])
               PROVE  \/ task'[d][out'[d][k][1]] = "done"
                      \/ task'[d][out'[d][k][1]] = "second" /\ out'[d][k][2] = 1
    BY DEF PartsByTask
  <2>1. CASE d = c /\ k = Len(s) + 1
    BY <1>2, <1>7, <2>1
  <2>2. CASE d = c /\ k \in 1..Len(s)
    <3>1. out'[d][k] = out[c][k] /\ k \in 1..Len(out[c])
      BY <1>7, <2>2 DEF s
    <3>2. out[c][k][1] \in Requests /\ out[c][k][1] # i
      BY <1>4, <2>2 DEF s
    <3> QED BY <1>2, <2>2, <3>1, <3>2 DEF PartsByTask
  <2>3. CASE d # c
    <3>1. out[d][k][1] \in Requests
      BY <1>1, <2>3 DEF TypeOK
    <3> QED BY <1>1, <1>2, <2>3, <3>1 DEF PartsByTask
  <2> QED BY <1>7, <2>1, <2>2, <2>3
<1>10. LastPart'
  <2> SUFFICES ASSUME NEW d \in Conns, peerUp[d], m_sock[d] = "open"
               PROVE  /\ \A j \in Requests : task'[d][j] = "second" =>
                           Len(out'[d]) > 0 /\ out'[d][Len(out'[d])] = <<j, 1>>
                      /\ Len(out'[d]) > 0 /\ out'[d][Len(out'[d])][2] = 1 =>
                           task'[d][out'[d][Len(out'[d])][1]] = "second"
    BY DEF LastPart
  <2>1. CASE d = c
    BY <1>2, <1>3, <1>7, <2>1
  <2>2. CASE d # c
    <3>1. Len(out[d]) > 0 => out[d][Len(out[d])][1] \in Requests
      BY DEF TypeOK
    <3> QED BY <1>1, <1>2, <2>2, <3>1 DEF LastPart
  <2> QED BY <2>1, <2>2
<1>11. HandlerInv' /\ NoTimerLeft'
  <2>1. handler[c] # "off"
    BY DEF HandlerInv
  <2> QED BY <1>1, <1>2, <2>1 DEF HandlerInv, NoTimerLeft
<1>12. MutexHeld'
  BY <1>2 DEF MutexHeld
<1> QED BY <1>8, <1>9, <1>10, <1>11, <1>12

\* The rest of the answer, for a client that is there; the coroutine ends.
LEMMA SecondPart ==
  ASSUME IInv, TypeOK', NEW c \in Conns, NEW i \in Requests,
         peerUp[c], m_sock[c] = "open", task[c][i] = "second",
         TaskEnds(c, i), Written(c, i, 2), m_mutex' = [m_mutex EXCEPT ![c] = 0],
         UNCHANGED <<handler, timer, received, sent, peerUp>>
  PROVE  IInv'
<1> USE DEF IInv
<1> DEFINE s == out[c]
           p == <<i, 2>>
           q == <<i, 3>>
           t == out'[c]
<1>1. /\ \A d \in Conns : d # c => out'[d] = out[d]
      /\ t = Append(s, p) \/ t = Append(Append(s, p), q)
  <2>1. s \in Seq(Part)
    BY DEF TypeOK, Part
  <2>2. s \o <<p>> = Append(s, p) /\ s \o <<p, q>> = Append(Append(s, p), q)
    <3>1. p \in Part /\ q \in Part
      BY DEF Part
    <3> QED BY <2>1, <3>1, AppendTwo, SMTT(30)
  <2>3. Parts(c, i, 2) = <<p>> \/ Parts(c, i, 2) = <<p, q>>
    BY DEF Parts
  <2>4. t = s \o Parts(c, i, 2) /\ \A d \in Conns : d # c => out'[d] = out[d]
    BY DEF Written, TypeOK
  <2> QED BY <2>2, <2>3, <2>4
<1>2. \A d \in Conns, j \in Requests :
        task'[d][j] = IF d = c /\ j = i THEN "done" ELSE task[d][j]
  BY StepToEffect DEF TaskEnds
<1>3. \A d \in Conns : m_sock'[d] = m_sock[d] \/ m_sock'[d] = "closed"
  BY ReleaseEffect DEF TaskEnds
<1>4. \A j \in Requests : task[c][j] = "second" => j = i
  BY DEF MutexHeld
<1>5. s \in Seq(Part) /\ p \in Part /\ q \in Part
  BY DEF TypeOK, Part
<1>6. \A k \in 1..Len(s) : /\ s[k] \in Part /\ s[k][1] \in Requests
                           /\ s[k][1] = i => s[k][2] = 1
  BY <1>5 DEF PartsByTask, Part
<1>7. Len(s) > 0 /\ s[Len(s)] = <<i, 1>>
  BY DEF LastPart
<1>8. Append(s, p) \in Seq(Part) /\ Whole(Append(s, p))
  <2>1. Whole(s) /\ \A k \in 1..Len(s) : s[k] # p
    BY <1>6, WholeDef
  <2>2. IF p[2] = 1 THEN Len(s) = 0 \/ s[Len(s)][2] > 1
        ELSE Len(s) > 0 /\ s[Len(s)] = <<p[1], p[2] - 1>>
    BY <1>7
  <2> HIDE DEF p, s
  <2> QED BY <1>5, <2>1, <2>2, WholeAppend
<1>9. Append(Append(s, p), q) \in Seq(Part) /\ Whole(Append(Append(s, p), q))
  <2> DEFINE u == Append(s, p)
  <2>1. /\ Len(u) = Len(s) + 1 /\ u[Len(u)] = p
        /\ \A k \in 1..Len(s) : u[k] = s[k]
    BY <1>5
  <2>2. \A k \in 1..Len(u) : u[k] # q
    BY <1>5, <1>6, <2>1
  <2>3. IF q[2] = 1 THEN Len(u) = 0 \/ u[Len(u)][2] > 1
        ELSE Len(u) > 0 /\ u[Len(u)] = <<q[1], q[2] - 1>>
    BY <1>5, <2>1
  <2>4. u \in Seq(Part) /\ Whole(u)
    BY <1>8
  <2> HIDE DEF u, p, q, s
  <2>5. Append(u, q) \in Seq(Part) /\ Whole(Append(u, q))
    BY <1>5, <2>2, <2>3, <2>4, WholeAppend
  <2> QED BY <2>5 DEF u
<1>10. /\ t \in Seq(Part) /\ Whole(t) /\ Len(t) > 0
       /\ t[Len(t)][2] > 1
       /\ \A k \in 1..Len(t) : t[k][1] = i \/ (k \in 1..Len(s) /\ t[k] = s[k])
  <2>1. CASE t = Append(s, p)
    BY <1>5, <1>8, <2>1
  <2>2. CASE t = Append(Append(s, p), q)
    BY <1>5, <1>9, <2>2
  <2> QED BY <1>1, <2>1, <2>2
<1> HIDE DEF s, p, q, t
<1>11. AnswersWhole'
  <2>1. \A d \in Conns : Whole(out'[d])
    BY <1>1, <1>10, WholeDef DEF t
  <2> QED BY <2>1 DEF AnswersWhole, Whole
<1>12. PartsByTask'
  <2> SUFFICES ASSUME NEW d \in Conns, NEW k \in 1..Len(out'[d])
               PROVE  \/ task'[d][out'[d][k][1]] = "done"
                      \/ task'[d][out'[d][k][1]] = "second" /\ out'[d][k][2] = 1
    BY DEF PartsByTask
  <2>1. CASE d = c
    <3>1. CASE t[k][1] = i
      BY <1>2, <2>1, <3>1 DEF t
    <3>2. CASE k \in 1..Len(s) /\ t[k] = s[k]
      BY <1>2, <1>6, <2>1, <3>2 DEF PartsByTask, s, t
    <3> QED BY <1>10, <2>1, <3>1, <3>2 DEF t
  <2>2. CASE d # c
    <3>1. out[d][k][1] \in Requests
      BY <1>1, <2>2 DEF TypeOK
    <3> QED BY <1>1, <1>2, <2>2, <3>1 DEF PartsByTask
  <2> QED BY <2>1, <2>2
<1>13. LastPart'
  <2> SUFFICES ASSUME NEW d \in Conns, peerUp[d], m_sock'[d] = "open"
               PROVE  /\ \A j \in Requests : task'[d][j] = "second" =>
                           Len(out'[d]) > 0 /\ out'[d][Len(out'[d])] = <<j, 1>>
                      /\ Len(out'[d]) > 0 /\ out'[d][Len(out'[d])][2] = 1 =>
                           task'[d][out'[d][Len(out'[d])][1]] = "second"
    BY DEF LastPart
  <2>0. m_sock[d] = "open"
    BY <1>3
  <2>1. CASE d = c
    BY <1>2, <1>4, <1>10, <2>1 DEF t
  <2>2. CASE d # c
    <3>1. Len(out[d]) > 0 => out[d][Len(out[d])][1] \in Requests
      BY DEF TypeOK
    <3> QED BY <1>1, <1>2, <2>0, <2>2, <3>1 DEF LastPart
  <2> QED BY <2>1, <2>2
<1>14. HandlerInv' /\ NoTimerLeft'
  <2>1. handler[c] # "off"
    BY DEF HandlerInv
  <2> QED BY <1>1, <1>2, <1>3, <2>1 DEF HandlerInv, NoTimerLeft
<1>15. MutexHeld'
  BY <1>2, <1>5 DEF MutexHeld, TypeOK
<1> QED BY <1>11, <1>12, <1>13, <1>14, <1>15

\* It holds at the start.
LEMMA InitIInv == Init => IInv
<1> SUFFICES ASSUME Init PROVE IInv
  OBVIOUS
<1>1. crashed \in BOOLEAN
  BY Zenon DEF Init
<1>2. TypeOK
  BY <1>1, RpcServerAssumption DEF Init, TypeOK
<1>3. HandlerInv /\ MutexHeld /\ NoTimerLeft
  BY RpcServerAssumption DEF Init, HandlerInv, MutexHeld, NoTimerLeft, Requests
<1>4. PartsByTask /\ LastPart /\ AnswersWhole
  BY DEF Init, PartsByTask, LastPart, AnswersWhole
<1> QED BY <1>2, <1>3, <1>4 DEF IInv

\* Every step keeps it.
LEMMA IInvStep == IInv /\ [Next]_vars => IInv'
<1> SUFFICES ASSUME IInv, [Next]_vars PROVE IInv'
  OBVIOUS
<1>t. TypeOK /\ TypeOK'
  BY TypeStep DEF IInv
<1>r. Requests \subseteq Nat /\ \A i \in Requests : i # 0 /\ i <= MaxRequests
  BY RpcServerAssumption DEF Requests
<1> USE DEF IInv
<1>1. ASSUME NEW c \in Conns, Accept(c) PROVE IInv'
  <2>1. HandlerInv'
    BY <1>t, <1>r, <1>1 DEF Accept, TypeOK, HandlerInv
  <2>2. MutexHeld'
    BY <1>t, <1>r, <1>1 DEF Accept, TypeOK, MutexHeld
  <2>3. PartsByTask'
    BY <1>t, <1>r, <1>1 DEF Accept, TypeOK, PartsByTask
  <2>4. LastPart'
    BY <1>t, <1>r, <1>1 DEF Accept, TypeOK, LastPart, HandlerInv
  <2>5. AnswersWhole'
    BY <1>t, <1>r, <1>1, SMTT(30) DEF Accept, TypeOK, AnswersWhole
  <2>6. NoTimerLeft'
    BY <1>t, <1>r, <1>1 DEF Accept, TypeOK, NoTimerLeft, HandlerInv
  <2> QED BY <1>t, <2>1, <2>2, <2>3, <2>4, <2>5, <2>6
<1>2. ASSUME NEW c \in Conns, ClientSend(c) PROVE IInv'
  <2>1. HandlerInv'
    BY <1>t, <1>r, <1>2 DEF ClientSend, TypeOK, HandlerInv
  <2>2. MutexHeld'
    BY <1>t, <1>r, <1>2 DEF ClientSend, TypeOK, MutexHeld
  <2>3. PartsByTask'
    BY <1>t, <1>r, <1>2 DEF ClientSend, TypeOK, PartsByTask
  <2>4. LastPart'
    BY <1>t, <1>r, <1>2 DEF ClientSend, TypeOK, LastPart
  <2>5. AnswersWhole'
    BY <1>t, <1>r, <1>2, SMTT(30) DEF ClientSend, TypeOK, AnswersWhole
  <2>6. NoTimerLeft'
    BY <1>t, <1>r, <1>2 DEF ClientSend, TypeOK, NoTimerLeft, HandlerInv
  <2> QED BY <1>t, <2>1, <2>2, <2>3, <2>4, <2>5, <2>6
<1>3. ASSUME NEW c \in Conns, ClientLeave(c) PROVE IInv'
  <2>1. HandlerInv'
    BY <1>t, <1>r, <1>3 DEF ClientLeave, TypeOK, HandlerInv
  <2>2. MutexHeld'
    BY <1>t, <1>r, <1>3 DEF ClientLeave, TypeOK, MutexHeld
  <2>3. PartsByTask'
    BY <1>t, <1>r, <1>3 DEF ClientLeave, TypeOK, PartsByTask
  <2>4. LastPart'
    BY <1>t, <1>r, <1>3 DEF ClientLeave, TypeOK, LastPart
  <2>5. AnswersWhole'
    BY <1>t, <1>r, <1>3, SMTT(30) DEF ClientLeave, TypeOK, AnswersWhole
  <2>6. NoTimerLeft'
    BY <1>t, <1>r, <1>3 DEF ClientLeave, TypeOK, NoTimerLeft, HandlerInv
  <2> QED BY <1>t, <2>1, <2>2, <2>3, <2>4, <2>5, <2>6
<1>4. ASSUME NEW c \in Conns, TestConnected(c) PROVE IInv'
  <2>1. UNCHANGED <<m_mutex, timer, task, sent, received, peerUp, out>>
    BY <1>4 DEF TestConnected
  <2>2. /\ \A d \in Conns : m_sock'[d] = m_sock[d] \/ m_sock'[d] = "closed"
        /\ handler[c] = "test"
        /\ \/ handler' = [handler EXCEPT ![c] = "recv"]
           \/ m_sock[c] # "open" /\ handler' = [handler EXCEPT ![c] = "done"]
    BY <1>t, <1>4, ReleaseEffect DEF TestConnected, HandlerEnds, TypeOK
  <2>3. HandlerInv'
    <3>1. \A d \in Conns : d # c => handler'[d] = handler[d]
      BY <1>t, <2>2 DEF TypeOK
    <3>2. handler'[c] \in {"recv", "done"}
      BY <1>t, <2>2 DEF TypeOK
    <3> QED BY <2>1, <2>2, <3>1, <3>2 DEF HandlerInv
  <2>4. MutexHeld' /\ PartsByTask' /\ AnswersWhole'
    BY <2>1 DEF MutexHeld, PartsByTask, AnswersWhole
  <2>5. LastPart'
    BY <2>1, <2>2 DEF LastPart
  <2>6. NoTimerLeft'
    BY <1>t, <2>1, <2>2 DEF NoTimerLeft, HandlerInv, TypeOK
  <2> QED BY <1>t, <2>3, <2>4, <2>5, <2>6
<1>5. ASSUME NEW c \in Conns, Recv(c) PROVE IInv'
  <2>1. /\ UNCHANGED <<m_sock, m_mutex, timer, task, sent, peerUp, out>>
        /\ handler[c] = "recv" /\ handler' = [handler EXCEPT ![c] = "reset"]
        /\ received[c] < sent[c] /\ received' = [received EXCEPT ![c] = @ + 1]
    BY <1>5 DEF Recv
  <2>2. ASSUME NEW d \in Conns, d # c
        PROVE  UNCHANGED <<handler[d], received[d]>>
    BY <1>t, <2>1, <2>2 DEF TypeOK
  <2>3. handler'[c] = "reset" /\ received'[c] = received[c] + 1 /\ received[c] \in Nat
    BY <1>t, <2>1, RpcServerAssumption DEF TypeOK
  <2>4. HandlerInv'
    <3> SUFFICES ASSUME NEW d \in Conns
                 PROVE  /\ handler'[d] = "off" =>
                             out[d] = <<>> /\ \A i \in Requests : task[d][i] = "none"
                        /\ handler'[d] # "off" => m_sock[d] # "none"
                        /\ received'[d] <= sent[d]
                        /\ handler'[d] \in {"reset", "go"} => received'[d] > 0
                        /\ \A i \in Requests : task[d][i] # "none" =>
                             /\ i <= received'[d]
                             /\ handler'[d] \in {"reset", "go"} => i < received'[d]
      BY <2>1 DEF HandlerInv
    <3>1. CASE d = c
      <4>1. sent[c] \in Nat /\ \A i \in Requests : i \in Nat
        BY <1>t, RpcServerAssumption DEF TypeOK, Requests
      <4> QED BY <2>1, <2>3, <3>1, <4>1 DEF HandlerInv
    <3>2. CASE d # c
      BY <2>1, <2>2, <3>2 DEF HandlerInv
    <3> QED BY <3>1, <3>2
  <2>5. MutexHeld' /\ PartsByTask' /\ LastPart' /\ AnswersWhole'
    BY <2>1 DEF MutexHeld, PartsByTask, LastPart, AnswersWhole
  <2>6. NoTimerLeft'
    BY <1>t, <2>1 DEF NoTimerLeft, TypeOK
  <2> QED BY <1>t, <2>4, <2>5, <2>6
<1>6. ASSUME NEW c \in Conns, RecvNull(c) PROVE IInv'
  <2>1. UNCHANGED <<m_mutex, task, sent, received, peerUp, out>>
    BY <1>6 DEF RecvNull
  <2>2. /\ \A d \in Conns : m_sock'[d] = m_sock[d] \/ m_sock'[d] = "closed"
        /\ handler[c] = "recv" /\ handler' = [handler EXCEPT ![c] = "done"]
        /\ timer' = [timer EXCEPT ![c] = "off"]
    BY <1>t, <1>6, ReleaseEffect DEF RecvNull, HandlerEnds
  <2>3. HandlerInv'
    <3>1. \A d \in Conns : d # c => handler'[d] = handler[d]
      BY <1>t, <2>2 DEF TypeOK
    <3>2. handler'[c] \in {"recv", "done"}
      BY <1>t, <2>2 DEF TypeOK
    <3> QED BY <2>1, <2>2, <3>1, <3>2 DEF HandlerInv
  <2>4. MutexHeld' /\ PartsByTask' /\ AnswersWhole'
    BY <2>1 DEF MutexHeld, PartsByTask, AnswersWhole
  <2>5. LastPart'
    BY <2>1, <2>2 DEF LastPart
  <2>6. NoTimerLeft'
    BY <1>t, <2>1, <2>2 DEF NoTimerLeft, TypeOK
  <2> QED BY <1>t, <2>3, <2>4, <2>5, <2>6
<1>7. ASSUME NEW c \in Conns, ResetTimer(c) PROVE IInv'
  <2>1. /\ UNCHANGED <<m_sock, m_mutex, task, received, sent, peerUp, out>>
        /\ handler[c] = "reset" /\ handler' = [handler EXCEPT ![c] = "go"]
        /\ timer' = [timer EXCEPT ![c] = "armed"]
    BY <1>7 DEF ResetTimer
  <2>2. /\ \A d \in Conns : handler'[d] = IF d = c THEN "go" ELSE handler[d]
        /\ \A d \in Conns : d # c => timer'[d] = timer[d]
    BY <1>t, <2>1 DEF TypeOK
  <2>3. HandlerInv'
    BY <2>1, <2>2 DEF HandlerInv
  <2>4. MutexHeld' /\ PartsByTask' /\ LastPart' /\ AnswersWhole'
    BY <2>1 DEF MutexHeld, PartsByTask, LastPart, AnswersWhole
  <2>5. NoTimerLeft'
    BY <2>1, <2>2 DEF NoTimerLeft
  <2> QED BY <1>t, <2>3, <2>4, <2>5
<1>8. ASSUME NEW c \in Conns, Go(c) PROVE IInv'
  <2> DEFINE i == received[c]
  <2>1. /\ UNCHANGED <<m_sock, m_mutex, timer, received, sent, peerUp, out>>
        /\ handler[c] = "go" /\ handler' = [handler EXCEPT ![c] = "test"]
        /\ StepTo(c, i, "run")
    BY <1>8 DEF Go, StepTo
  <2>2. i \in Requests /\ i \in Nat
    BY <1>t, <2>1, RpcServerAssumption DEF HandlerInv, TypeOK, Requests
  <2>3. task[c][i] = "none"
    BY <1>r, <2>1, <2>2 DEF HandlerInv
  <2>4. /\ \A d \in Conns : handler'[d] = IF d = c THEN "test" ELSE handler[d]
        /\ \A d \in Conns, j \in Requests :
             task'[d][j] = IF d = c /\ j = i THEN "run" ELSE task[d][j]
    BY <1>t, <2>1, <2>2, StepToEffect, SMTT(30) DEF TypeOK
  <2>5. \A d \in Conns : \A k \in 1..Len(out[d]) :
          out[d][k][1] \in Requests /\ (d = c => out[d][k][1] # i)
    <3>1. \A d \in Conns : \A k \in 1..Len(out[d]) : out[d][k][1] \in Requests
      BY <1>t, SMTT(30) DEF TypeOK
    <3> QED BY <2>3, <3>1 DEF PartsByTask
  <2> HIDE DEF i
  <2>6. HandlerInv'
    <3>1. \A j \in Requests : j < i => j <= i
      BY <1>r, <2>2
    <3> QED BY <2>1, <2>2, <2>4, <3>1 DEF HandlerInv, i
  <2>7. MutexHeld' /\ NoTimerLeft' /\ AnswersWhole'
    BY <2>1, <2>4 DEF MutexHeld, NoTimerLeft, AnswersWhole
  <2>8. PartsByTask'
    BY <2>1, <2>4, <2>5 DEF PartsByTask
  <2>9. LastPart'
    <3>1. \A d \in Conns : Len(out[d]) > 0 => Len(out[d]) \in 1..Len(out[d])
      BY <1>t DEF TypeOK
    <3> QED BY <2>1, <2>3, <2>4, <2>5, <3>1 DEF LastPart
  <2> QED BY <1>t, <2>6, <2>7, <2>8, <2>9
<1>9. ASSUME NEW c \in Conns, Expire(c) PROVE IInv'
  <2>1. /\ UNCHANGED <<m_sock, m_mutex, handler, task, received, sent, peerUp, out>>
        /\ \A d \in Conns : timer'[d] = timer[d] \/ timer'[d] = "off"
    BY <1>t, <1>9 DEF Expire, TypeOK
  <2> QED BY <1>t, <2>1 DEF HandlerInv, MutexHeld, PartsByTask, LastPart, AnswersWhole,
       NoTimerLeft
<1>9a. ASSUME NEW c \in Conns, OnTimeout(c) PROVE IInv'
  <2>1. /\ UNCHANGED <<m_mutex, handler, timer, task, received, sent, peerUp, out>>
        /\ \A d \in Conns : m_sock'[d] = m_sock[d] \/ m_sock'[d] = "closed"
    BY <1>t, <1>9a DEF OnTimeout, TypeOK
  <2> QED BY <1>t, <2>1 DEF HandlerInv, MutexHeld, PartsByTask, LastPart, AnswersWhole,
       NoTimerLeft
<1>9b. ASSUME NEW c \in Conns, RecvThrows(c) PROVE IInv'
  <2>1. UNCHANGED <<m_sock, m_mutex, handler, timer, task, received, sent, peerUp, out>>
    BY <1>9b DEF RecvThrows
  <2> QED BY <1>t, <2>1 DEF HandlerInv, MutexHeld, PartsByTask, LastPart, AnswersWhole,
       NoTimerLeft
<1>10. ASSUME NEW c \in Conns, NEW i \in Requests, Handle(c, i) PROVE IInv'
  <2>1. task[c][i] = "run" /\ UNCHANGED <<handler, timer, received, sent, peerUp, out, m_mutex>>
    BY <1>10 DEF Handle
  <2>2. CASE UNCHANGED <<task, m_sock, rsp>>
    BY <1>t, <2>1, <2>2 DEF HandlerInv, MutexHeld, PartsByTask, LastPart, AnswersWhole,
       NoTimerLeft
  <2>3. CASE TaskEnds(c, i)
    <3>1. StepTo(c, i, "done") /\ Release(c, handler, task')
      BY <2>3 DEF TaskEnds
    <3>2. MutexHeld'
      BY <1>t, <2>1, <3>1, StepToEffect DEF MutexHeld
    <3> QED BY <1>t, <2>1, <3>1, <3>2, StepToEffect, ReleaseEffect, QuietMove DEF Active
  <2>4. CASE StepTo(c, i, "check") /\ UNCHANGED m_sock
    <3>1. MutexHeld'
      BY <1>t, <2>1, <2>4, StepToEffect DEF MutexHeld
    <3> QED BY <1>t, <2>1, <2>4, <3>1, StepToEffect, QuietMove DEF Active
  <2> QED BY <1>10, <2>2, <2>3, <2>4 DEF Handle
<1>11. ASSUME NEW c \in Conns, NEW i \in Requests, CheckConnected(c, i) PROVE IInv'
  <2>1. /\ task[c][i] = "check"
        /\ UNCHANGED <<handler, timer, received, sent, peerUp, out, m_mutex>>
    BY <1>11 DEF CheckConnected
  <2>2. CASE StepTo(c, i, "encode") /\ UNCHANGED m_sock
    <3>1. MutexHeld'
      BY <1>t, <2>1, <2>2, StepToEffect DEF MutexHeld
    <3> QED BY <1>t, <2>1, <2>2, <3>1, StepToEffect, QuietMove DEF Active
  <2>3. CASE StepTo(c, i, "done") /\ Release(c, handler, task')
    <3>1. MutexHeld'
      BY <1>t, <2>1, <2>3, StepToEffect DEF MutexHeld
    <3> QED BY <1>t, <2>1, <2>3, <3>1, StepToEffect, ReleaseEffect, QuietMove DEF Active
  <2> QED BY <1>11, <2>2, <2>3 DEF CheckConnected, TaskEnds
<1>12. ASSUME NEW c \in Conns, NEW i \in Requests, Encode(c, i) PROVE IInv'
  <2>1. /\ task[c][i] = "encode"
        /\ UNCHANGED <<handler, timer, received, sent, peerUp, out, m_mutex, m_sock>>
    BY <1>12 DEF Encode
  <2>2. CASE UNCHANGED task
    BY <1>t, <2>1, <2>2 DEF HandlerInv, MutexHeld, PartsByTask, LastPart, AnswersWhole,
       NoTimerLeft
  <2>3. CASE StepTo(c, i, "lock")
    <3>1. MutexHeld'
      BY <1>t, <2>1, <2>3, StepToEffect DEF MutexHeld
    <3> QED BY <1>t, <2>1, <2>3, <3>1, StepToEffect, QuietMove DEF Active
  <2> QED BY <1>12, <2>2, <2>3 DEF Encode
<1>13. ASSUME NEW c \in Conns, NEW i \in Requests, Lock(c, i) PROVE IInv'
  <2>1. /\ task[c][i] = "lock" /\ StepTo(c, i, "first")
        /\ UNCHANGED <<handler, timer, received, sent, peerUp, out, m_sock>>
    BY <1>13 DEF Lock
  <2>2. MutexHeld'
    BY <1>t, <1>r, <1>13, <2>1, StepToEffect, SMTT(30) DEF Lock, MutexHeld, TypeOK
  <2> QED BY <1>t, <2>1, <2>2, StepToEffect, QuietMove DEF Active
<1>14. ASSUME NEW c \in Conns, NEW i \in Requests, WriteFirst(c, i) PROVE IInv'
  <2>1. task[c][i] = "first" /\ UNCHANGED <<handler, timer, received, sent, peerUp>>
    BY <1>14 DEF WriteFirst
  <2>2. CASE /\ m_sock[c] = "open" /\ Written(c, i, 1) /\ peerUp[c]
             /\ StepTo(c, i, "second") /\ UNCHANGED <<m_mutex, m_sock>>
    BY <1>t, <2>1, <2>2, FirstPart
  <2>3. CASE /\ Written(c, i, 1) /\ ~peerUp[c]
             /\ StepTo(c, i, "second") /\ UNCHANGED <<m_mutex, m_sock>>
    <3>1. MutexHeld'
      BY <1>t, <2>1, <2>3, StepToEffect DEF MutexHeld
    <3>2. UNCHANGED out
      BY <2>3 DEF Written
    <3> QED BY <1>t, <2>1, <2>3, <3>1, <3>2, StepToEffect, QuietMove DEF Active
  <2>4. CASE WriteFails(c, i)
    <3>1. /\ StepTo(c, i, "done") /\ Release(c, handler, task') /\ UNCHANGED out
          /\ m_mutex' = [m_mutex EXCEPT ![c] = 0]
      BY <2>4 DEF WriteFails, TaskEnds
    <3>2. MutexHeld'
      BY <1>t, <1>r, <2>1, <3>1, StepToEffect, SMTT(30) DEF MutexHeld, TypeOK
    <3>3. /\ \A d \in Conns, j \in Requests :
               task'[d][j] = IF d = c /\ j = i THEN "done" ELSE task[d][j]
          /\ \A d \in Conns : m_sock'[d] = m_sock[d] \/ m_sock'[d] = "closed"
      BY <1>t, <3>1, StepToEffect, ReleaseEffect
    <3> QED BY <1>t, <2>1, <3>1, <3>2, <3>3, QuietMove DEF Active
  <2> QED BY <1>14, <2>2, <2>3, <2>4 DEF WriteFirst
<1>15. ASSUME NEW c \in Conns, NEW i \in Requests, WriteSecond(c, i) PROVE IInv'
  <2>1. task[c][i] = "second" /\ UNCHANGED <<handler, timer, received, sent, peerUp>>
    BY <1>15 DEF WriteSecond
  <2>2. CASE /\ m_sock[c] = "open" /\ Written(c, i, 2) /\ peerUp[c]
             /\ m_mutex' = [m_mutex EXCEPT ![c] = 0] /\ TaskEnds(c, i)
    BY <1>t, <2>1, <2>2, SecondPart
  <2>3. CASE /\ m_mutex' = [m_mutex EXCEPT ![c] = 0] /\ TaskEnds(c, i)
             /\ UNCHANGED out /\ (m_sock[c] = "closed" \/ ~peerUp[c])
    <3>1. StepTo(c, i, "done") /\ Release(c, handler, task')
      BY <2>3 DEF TaskEnds
    <3>2. MutexHeld'
      BY <1>t, <1>r, <2>1, <2>3, <3>1, StepToEffect, SMTT(30) DEF MutexHeld, TypeOK
    <3> QED BY <1>t, <2>1, <2>3, <3>1, <3>2, StepToEffect, ReleaseEffect, QuietMove DEF Active
  <2> QED BY <1>15, <2>2, <2>3 DEF WriteSecond, WriteFails, Written
<1>16. CASE UNCHANGED vars
  BY <1>t, <1>16 DEF vars, HandlerInv, MutexHeld, PartsByTask, LastPart,
     AnswersWhole, NoTimerLeft
<1> QED
  BY <1>1, <1>2, <1>3, <1>4, <1>5, <1>6, <1>7, <1>8,
     <1>9, <1>9a, <1>9b, <1>10, <1>11, <1>12, <1>13, <1>14, <1>15, <1>16
     DEF Next, HandlerStep, RecvClosed, RecvRefused, TaskStep, WriteStep

\* The invariant holds throughout.
LEMMA Invariance == Spec => []IInv
<1>1. Init => IInv
  BY InitIInv
<1>2. IInv /\ [Next]_vars => IInv'
  BY IInvStep
<1> QED BY <1>1, <1>2, PTL DEF Spec

\* The server's state keeps its type: in particular no coroutine is started
\* for a request that was not received.
THEOREM TypeCorrect == Spec => []TypeOK
<1>1. IInv => TypeOK
  BY DEF IInv
<1> QED BY <1>1, Invariance, PTL

\* However many requests of however many connections are handled side by
\* side, and whenever sockets are closed under them, a client gets every
\* answer in one piece and once, and only the last may be cut off.
THEOREM AnswersDoNotMix == Spec => []AnswersWhole
<1>1. IInv => AnswersWhole
  BY DEF IInv
<1> QED BY <1>1, Invariance, PTL

\* A handleClient that ends while the socket is open, for the requests still
\* being handled, leaves no alive timer that could expire under them.
THEOREM NoTimersAreLeft == Spec => []NoTimerLeft
<1>1. IInv => NoTimerLeft
  BY DEF IInv
<1> QED BY <1>1, Invariance, PTL
=============================================================================
