-------------------------- MODULE RpcClientProofs --------------------------
(***************************************************************************)
(* Proofs about RpcClient for any number of callers, calls, connects, any  *)
(* channel size and with or without a call timeout.                        *)
(***************************************************************************)
EXTENDS RpcClient, TLAPS

(***************************************************************************)
(* The inductive invariant.  OwnAnswer by itself is not inductive: it      *)
(* rests on the sequence numbers of calls in progress being distinct,      *)
(* which rests on m_guard, and on every message under way with the number  *)
(* of a call in progress being that call's.                                *)
(***************************************************************************)
\* m_guard is held exactly by the caller inside one of the two locked
\* sections of call_internal, so callers exclude each other.
GuardOwner == \A c \in Callers : pc[c] \in {"insert", "erase"} <=> m_guard = c

\* The number a caller has read and not yet written back is m_seq_id's.
NumberRead == \A c \in Callers : pc[c] = "insert" => id[c] = m_seq_id

\* Calls in progress have distinct numbers, all drawn before.
NumbersDistinct ==
  /\ \A c \in Callers : pc[c] \in Registered => id[c] < m_seq_id
  /\ \A c, d \in Callers :
       pc[c] \in Registered /\ pc[d] \in Registered /\ id[c] = id[d] => c = d

\* A message with a call's number is that call's.
Belongs(m) ==
  m.type # "kRpcHeartbeat" =>
    /\ m.seq < m_seq_id
    /\ \A c \in Callers : pc[c] \in Registered /\ id[c] = m.seq
                            => m.body = ticket[c]

MessagesBelong ==
  /\ \A i \in 1..Len(m_chan) : Belongs(m_chan[i])
  /\ Belongs(sendMsg)
  /\ Belongs(recvMsg)
  /\ \A m \in requests : Belongs(m)
  /\ \A m \in responses : Belongs(m)

\* Only a call that is about to erase its entry holds an answer.
AnswerHeld ==
  \A c \in Callers : rsp[c].type = "kRpcMethodResponse"
                       => pc[c] \in {"eraseLock", "erase"}

IInv == /\ TypeOK /\ GuardOwner /\ NumberRead /\ NumbersDistinct
        /\ MessagesBelong /\ AnswerHeld /\ OwnAnswer

(***************************************************************************)
(* Facts about messages and the channel.                                   *)
(***************************************************************************)
\* The messages the code builds are messages.
LEMMA MessageTypes ==
  /\ Heartbeat \in Message
  /\ \A s, b \in Nat : Request(s, b) \in Message
  /\ \A m \in Message, code \in ServerCodes : Response(m, code) \in Message
BY DEF Heartbeat, Request, Response, Message, Codes

\* Counting once more, in or out of the domain, keeps a table of counts.
LEMMA CountType ==
  ASSUME NEW S, NEW f \in [S -> Nat], NEW b
  PROVE  [f EXCEPT ![b] = @ + 1] \in [S -> Nat]
<1> DEFINE g == [f EXCEPT ![b] = @ + 1]
<1>1. DOMAIN g = S
  OBVIOUS
<1>2. ASSUME NEW x \in S PROVE g[x] \in Nat
  <2>1. CASE x = b
    BY <2>1
  <2>2. CASE x # b
    BY <2>2
  <2> QED BY <2>1, <2>2
<1> QED BY <1>1, <1>2

\* A push keeps the channel a sequence of messages.
LEMMA PushChanType ==
  ASSUME NEW m \in Message, m_chan \in Seq(Message), PushChan(m)
  PROVE  m_chan' \in Seq(Message)
BY DEF PushChan

\* What is in the channel after a push was there before, or is the message.
LEMMA PushChanContent ==
  ASSUME NEW m \in Message, m_chan \in Seq(Message), PushChan(m),
         NEW i \in 1..Len(m_chan')
  PROVE  m_chan'[i] = m \/ \E j \in 1..Len(m_chan) : m_chan'[i] = m_chan[j]
<1>1. CASE chanClosed
  BY <1>1 DEF PushChan
<1>2. CASE ~chanClosed
  BY <1>2 DEF PushChan
<1> QED BY <1>1, <1>2

\* What a pop leaves in the channel was there before.
LEMMA PopChanContent ==
  ASSUME m_chan \in Seq(Message), m_chan # <<>>
  PROVE  /\ Head(m_chan) \in Message
         /\ Head(m_chan) = m_chan[1] /\ 1 \in 1..Len(m_chan)
         /\ Tail(m_chan) \in Seq(Message)
         /\ \A i \in 1..Len(Tail(m_chan)) :
              Tail(m_chan)[i] = m_chan[i + 1] /\ i + 1 \in 1..Len(m_chan)
OBVIOUS

(***************************************************************************)
(* Type correctness.                                                       *)
(***************************************************************************)
USE DEF callVars, tableVars, connVars, chanVars, coVars, hbVars, netVars

\* The initial state has its type.
LEMMA InitType == Init => TypeOK
<1> SUFFICES ASSUME Init PROVE TypeOK
  OBVIOUS
<1>1. FlagTypes
  BY Zenon DEF Init, FlagTypes
<1>2. StateTypes
  BY MessageTypes DEF Init, StateTypes, NoMessage
<1> QED BY <1>1, <1>2 DEF TypeOK

\* Every step keeps the flags Boolean.
LEMMA FlagTypesStep == FlagTypes /\ [Next]_vars => FlagTypes'
<1> SUFFICES ASSUME FlagTypes, [Next]_vars
             PROVE  FlagTypes'
  OBVIOUS
<1> USE DEF FlagTypes
<1>1. CASE ConnectSocket \/ ConnectStep
  BY <1>1, Zenon DEF ConnectSocket, ConnectStep, ConnectSession, ConnectGo, ConnectArm
<1>2. ASSUME NEW c \in Callers, CallCheck(c) \/ CallStep(c)
      PROVE  FlagTypes'
  BY <1>2, Zenon DEF CallCheck, CallStep, CallLock, CallInsert, CallPush,
     PushChan, CallTimeout, CallEraseLock, CallErase
<1>3. CASE SendPop \/ SendEnd \/ SendWrite
  BY <1>3, Zenon DEF SendPop, SendEnd, SendWrite
<1>4. CASE RecvStep
  BY <1>4, ZenonT(30) DEF RecvStep, RecvHeartbeat, RecvResponse, RecvNull, RecvIndex,
     RecvPushFail, RecvDeliver
<1>5. CASE TimerStep
  BY <1>5, Zenon DEF TimerStep, TimerFire, TimerPush, PushChan, TimerRearm
<1>6. CASE UserClose
  BY <1>6, Zenon DEF UserClose
<1>7. ASSUME NEW k \in Closers, CloseStep(k)
      PROVE  FlagTypes'
  BY <1>7, Zenon DEF CloseStep, CloseCheck, CloseSet, CloseRest
<1>8. CASE ServerAnswer \/ PeerClose
  BY <1>8, Zenon DEF ServerAnswer, PeerClose
<1>9. CASE UNCHANGED vars
  BY <1>9, Zenon DEF vars
<1> QED
  BY <1>1, <1>2, <1>3, <1>4, <1>5, <1>6, <1>7, <1>8, <1>9 DEF Next

\* Every step keeps the type of the rest of the state.
LEMMA StateTypesStep == StateTypes /\ [Next]_vars => StateTypes'
<1> SUFFICES ASSUME StateTypes, [Next]_vars
             PROVE  StateTypes'
  OBVIOUS
<1> USE DEF StateTypes
<1>1. CASE ConnectSocket \/ ConnectStep
  <2>1. CASE ConnectSocket
    BY <2>1 DEF ConnectSocket
  <2>2. CASE ConnectSession
    BY <2>2 DEF ConnectSession
  <2>3. CASE ConnectGo
    BY <2>3 DEF ConnectGo
  <2>4. CASE ConnectArm
    BY <2>4 DEF ConnectArm
  <2> QED BY <1>1, <2>1, <2>2, <2>3, <2>4 DEF ConnectStep
<1>2. ASSUME NEW c \in Callers, CallCheck(c)
      PROVE  StateTypes'
  <2>1. pc' \in [Callers -> InCall \cup {"idle"}]
    BY <1>2 DEF CallCheck, InCall
  <2>2. outcome' \in [Callers -> Outcomes \cup {"none"}]
    BY <1>2 DEF CallCheck, Outcomes
  <2>3. calls' \in Nat /\ ticket' \in [Callers -> Nat]
    BY <1>2 DEF CallCheck
  <2> QED BY <1>2, <2>1, <2>2, <2>3 DEF CallCheck
<1>3. ASSUME NEW c \in Callers, CallLock(c)
      PROVE  StateTypes'
  BY <1>3 DEF CallLock, InCall
<1>4. ASSUME NEW c \in Callers, CallInsert(c)
      PROVE  StateTypes'
  <2>1. id[c] \in Nat /\ m_seq_id' = id[c] + 1
           /\ m_outstanding_call' = m_outstanding_call \cup {id[c]}
    BY <1>4 DEF CallInsert
  <2>2. pc' \in [Callers -> InCall \cup {"idle"}] /\ m_guard' = "none"
    BY <1>4 DEF CallInsert, InCall
  <2>3. m_seq_id' \in Nat
    BY <2>1
  <2>4. m_outstanding_call' \subseteq Nat
    BY <2>1
  <2>5. UNCHANGED <<id, rsp, outcome, ticket, orphaned, m_session, connects,
                    connecting, m_chan, coVars, timer, requests, responses, executed,
                    closer, calls>>
    BY <1>4 DEF CallInsert
  <2> QED BY <2>2, <2>3, <2>4, <2>5
<1>5. ASSUME NEW c \in Callers, CallPush(c)
      PROVE  StateTypes'
  <2>1. Request(id[c], ticket[c]) \in Message
    BY MessageTypes
  <2>2. m_chan' \in Seq(Message)
    BY <1>5, <2>1, PushChanType DEF CallPush
  <2> QED BY <1>5, <2>2 DEF CallPush, InCall
<1>6. ASSUME NEW c \in Callers, CallTimeout(c)
      PROVE  StateTypes'
  BY <1>6 DEF CallTimeout, InCall
<1>7. ASSUME NEW c \in Callers, CallEraseLock(c)
      PROVE  StateTypes'
  BY <1>7 DEF CallEraseLock, InCall
<1>8. ASSUME NEW c \in Callers, CallErase(c)
      PROVE  StateTypes'
  <2>1. \A m \in Message : CallOutcomes(m) \subseteq Outcomes
    BY RpcClientAssumption DEF CallOutcomes, Outcomes, Message, Codes
  <2>2. outcome' \in [Callers -> Outcomes \cup {"none"}]
    BY <1>8, <2>1 DEF CallErase
  <2>3. pc' \in [Callers -> InCall \cup {"idle"}] /\ id' \in [Callers -> Nat]
    BY <1>8 DEF CallErase
  <2>4. rsp' \in [Callers -> Message]
    BY <1>8, MessageTypes DEF CallErase, NoMessage
  <2>5. m_outstanding_call' \subseteq Nat /\ orphaned' \subseteq Nat
    BY <1>8 DEF CallErase
  <2> QED BY <1>8, <2>2, <2>3, <2>4, <2>5 DEF CallErase
<1>9. CASE SendPop
  BY <1>9, PopChanContent DEF SendPop
<1>10. CASE SendEnd
  BY <1>10 DEF SendEnd
<1>11. CASE SendWrite
  BY <1>11, MessageTypes DEF SendWrite, NoMessage
<1>12. CASE RecvHeartbeat
  BY <1>12 DEF RecvHeartbeat
<1>13. CASE RecvResponse
  BY <1>13 DEF RecvResponse
<1>14. CASE RecvNull
  BY <1>14 DEF RecvNull, Closers
<1>15. CASE RecvIndex
  <2>1. recvMsg.seq \in Nat
    BY DEF Message
  <2>2. m_outstanding_call' \subseteq Nat /\ orphaned' \subseteq Nat
    BY <1>15, <2>1 DEF RecvIndex
  <2> QED BY <1>15, <2>2 DEF RecvIndex
<1>16. ASSUME NEW c \in Callers, RecvDeliver(c)
       PROVE  StateTypes'
  BY <1>16, MessageTypes DEF RecvDeliver, InCall, NoMessage
<1>17. CASE RecvPushFail
  BY <1>17, MessageTypes DEF RecvPushFail, NoMessage
<1>18. CASE TimerFire
  BY <1>18 DEF TimerFire, Closers
<1>19. CASE TimerPush
  <2>1. m_chan' \in Seq(Message)
    BY <1>19, MessageTypes, PushChanType DEF TimerPush
  <2> QED BY <1>19, <2>1 DEF TimerPush
<1>20. CASE TimerRearm
  BY <1>20 DEF TimerRearm
<1>21. CASE UserClose
  BY <1>21 DEF UserClose, Closers
<1>22. ASSUME NEW k \in Closers, CloseStep(k)
       PROVE  StateTypes'
  <2>1. CASE CloseCheck(k)
    BY <2>1, ZenonT(30) DEF CloseCheck, CloseReturn
  <2>2. CASE CloseSet(k)
    BY <2>2 DEF CloseSet
  <2>3. CASE CloseRest(k)
    BY <2>3 DEF CloseRest, CloseReturn
  <2> QED BY <1>22, <2>1, <2>2, <2>3 DEF CloseStep
<1>23. CASE ServerAnswer
  <2>1. PICK m \in requests, code \in ServerCodes :
          /\ requests' = requests \ {m}
          /\ executed' = IF m.type = "kRpcHeartbeat" THEN executed
                         ELSE [executed EXCEPT ![m.body] = @ + 1]
          /\ responses' = responses \cup
               (IF ~peerUp \/ m_session # "open" THEN {}
                ELSE {IF m.type = "kRpcHeartbeat" THEN Heartbeat
                      ELSE Response(m, code)})
    BY <1>23 DEF ServerAnswer
  <2>2. m \in Message /\ m.body \in Nat
    BY <2>1 DEF Message
  <2>3. requests' \subseteq Message
    BY <2>1
  <2>5. executed' \in [1..MaxCalls -> Nat]
    <3>1. executed \in [1..MaxCalls -> Nat]
      OBVIOUS
    <3>2. [executed EXCEPT ![m.body] = @ + 1] \in [1..MaxCalls -> Nat]
      BY <3>1, CountType
    <3> QED BY <2>1, <3>1, <3>2
  <2>4. responses' \subseteq Message
    BY <2>1, <2>2, MessageTypes
  <2> QED BY <1>23, <2>3, <2>4, <2>5 DEF ServerAnswer
<1>24. CASE PeerClose
  BY <1>24 DEF PeerClose
<1>25. CASE UNCHANGED vars
  BY <1>25 DEF vars
<1> QED
  BY <1>1, <1>2, <1>3, <1>4, <1>5, <1>6, <1>7, <1>8, <1>9, <1>10, <1>11,
     <1>12, <1>13, <1>14, <1>15, <1>16, <1>17, <1>18, <1>19, <1>20, <1>21,
     <1>22, <1>23, <1>24, <1>25
  DEF Next, CallStep, RecvStep, TimerStep

\* The type invariant is inductive.
LEMMA TypeStep == TypeOK /\ [Next]_vars => TypeOK'
BY FlagTypesStep, StateTypesStep DEF TypeOK

\* The client's state always has its type (TypeOK), for every value of the
\* constants: no step of any coroutine, timer or closer leaves it.
THEOREM TypeCorrect == Spec => []TypeOK
<1>1. Init => TypeOK
  BY InitType
<1>2. TypeOK /\ [Next]_vars => TypeOK'
  BY TypeStep
<1> QED BY <1>1, <1>2, PTL DEF Spec

(***************************************************************************)
(* A call gets the answer to its own request.                              *)
(***************************************************************************)
callerVars == <<pc, id, ticket, rsp, m_seq_id, m_guard>>

\* What only depends on the callers is kept by a step that leaves them alone.
LEMMA CallersUntouched ==
  ASSUME IInv, UNCHANGED callerVars
  PROVE  /\ GuardOwner' /\ NumberRead' /\ NumbersDistinct' /\ AnswerHeld'
         /\ OwnAnswer'
         /\ \A m : Belongs(m) => Belongs(m)'
BY Zenon DEF IInv, callerVars, GuardOwner, NumberRead, NumbersDistinct,
   AnswerHeld, OwnAnswer, Belongs

\* A step that draws no number, starts no call and only ends calls keeps
\* every message with its owner.
LEMMA StillBelongs ==
  ASSUME TypeOK, m_seq_id' = m_seq_id, NEW m, Belongs(m),
         \A c \in Callers : pc'[c] \in Registered =>
           pc[c] \in Registered /\ id'[c] = id[c] /\ ticket'[c] = ticket[c]
  PROVE  Belongs(m)'
BY Zenon DEF Belongs

\* A heartbeat is nobody's.
LEMMA HeartbeatBelongs == Belongs(Heartbeat)'
BY DEF Belongs, Heartbeat

\* The initial state satisfies the invariant: nobody calls, nothing is sent.
LEMMA InitIInv == Init => IInv
<1> SUFFICES ASSUME Init PROVE IInv
  OBVIOUS
<1>1. TypeOK
  BY InitType
<1>2. GuardOwner /\ NumberRead /\ NumbersDistinct
  BY RpcClientAssumption
  DEF Init, GuardOwner, NumberRead, NumbersDistinct, Registered
<1>3. MessagesBelong
  BY DEF Init, MessagesBelong, Belongs, NoMessage, Heartbeat
<1>4. AnswerHeld /\ OwnAnswer
  BY DEF Init, AnswerHeld, OwnAnswer, NoMessage, Heartbeat
<1> QED BY <1>1, <1>2, <1>3, <1>4 DEF IInv

\* A caller's step keeps the invariant.
LEMMA CallerStep ==
  ASSUME IInv, TypeOK', NEW c \in Callers, CallCheck(c) \/ CallStep(c)
  PROVE  IInv'
<1> USE DEF IInv
<1> "none" \notin Callers
  BY RpcClientAssumption
<1>t. StateTypes /\ StateTypes'
  BY DEF TypeOK
<1>1. CASE CallCheck(c)
  <2>1. /\ m_seq_id' = m_seq_id /\ m_guard' = m_guard /\ rsp' = rsp /\ id' = id
        /\ ticket' = [ticket EXCEPT ![c] = calls + 1]
        /\ pc[c] = "idle"
        /\ pc' = pc \/ pc' = [pc EXCEPT ![c] = "lock"]
        /\ UNCHANGED <<m_chan, sendMsg, recvMsg, requests, responses>>
    BY <1>1 DEF CallCheck
  <2>2. \A d \in Callers : pc'[d] \in Registered =>
          pc[d] \in Registered /\ id'[d] = id[d] /\ ticket'[d] = ticket[d]
    BY <1>t, <2>1 DEF StateTypes, Registered
  <2>3. GuardOwner' /\ NumberRead'
    BY <1>t, <2>1 DEF StateTypes, GuardOwner, NumberRead
  <2>4. NumbersDistinct'
    BY <2>1, <2>2, Zenon DEF NumbersDistinct
  <2>5. MessagesBelong'
    BY <2>1, <2>2, StillBelongs, Zenon DEF MessagesBelong
  <2>6. \A d \in Callers :
          /\ pc[d] \in {"eraseLock", "erase"} <=> pc'[d] \in {"eraseLock", "erase"}
          /\ pc[d] \in {"eraseLock", "erase"} => ticket'[d] = ticket[d]
    BY <1>t, <2>1 DEF StateTypes
  <2>7. AnswerHeld' /\ OwnAnswer'
    BY <2>1, <2>6, Zenon DEF AnswerHeld, OwnAnswer
  <2> QED BY <2>3, <2>4, <2>5, <2>7
<1>2. CASE CallLock(c)
  <2>1. /\ m_seq_id' = m_seq_id /\ m_guard' = c /\ m_guard = "none"
        /\ rsp' = rsp /\ ticket' = ticket
        /\ id' = [id EXCEPT ![c] = m_seq_id]
        /\ pc[c] = "lock" /\ pc' = [pc EXCEPT ![c] = "insert"]
        /\ UNCHANGED <<m_chan, sendMsg, recvMsg, requests, responses>>
    BY <1>2 DEF CallLock
  <2>2. \A d \in Callers : pc'[d] \in Registered =>
          pc[d] \in Registered /\ id'[d] = id[d] /\ ticket'[d] = ticket[d]
    BY <1>t, <2>1 DEF StateTypes, Registered
  <2>3. GuardOwner' /\ NumberRead'
    BY <1>t, <2>1 DEF StateTypes, GuardOwner, NumberRead
  <2>4. NumbersDistinct'
    BY <2>1, <2>2, Zenon DEF NumbersDistinct
  <2>5. MessagesBelong'
    BY <2>1, <2>2, StillBelongs, Zenon DEF MessagesBelong
  <2>6. AnswerHeld' /\ OwnAnswer'
    BY <1>t, <2>1 DEF StateTypes, AnswerHeld, OwnAnswer
  <2> QED BY <2>3, <2>4, <2>5, <2>6
<1>3. CASE CallInsert(c)
  <2>1. /\ m_seq_id' = id[c] + 1 /\ m_guard' = "none"
        /\ rsp' = rsp /\ ticket' = ticket /\ id' = id
        /\ pc[c] = "insert" /\ pc' = [pc EXCEPT ![c] = "push"]
        /\ UNCHANGED <<m_chan, sendMsg, recvMsg, requests, responses>>
    BY <1>3 DEF CallInsert
  <2>2. m_guard = c /\ id[c] = m_seq_id
    BY <2>1 DEF GuardOwner, NumberRead
  <2>3. \A d \in Callers : pc[d] \in Registered => id[d] < id[c]
    BY <2>2 DEF NumbersDistinct
  <2>4. GuardOwner' /\ NumberRead'
    BY <1>t, <2>1, <2>2 DEF StateTypes, GuardOwner, NumberRead
  <2>5. NumbersDistinct'
    BY <1>t, <2>1, <2>2, <2>3 DEF StateTypes, NumbersDistinct, Registered
  <2>6. ASSUME NEW m \in Message, Belongs(m)
        PROVE  Belongs(m)'
    BY <1>t, <2>1, <2>2, <2>6, SMTT(30) DEF StateTypes, Belongs, Registered, Message
  <2>7. MessagesBelong'
    <3>1. \A i \in 1..Len(m_chan) : m_chan[i] \in Message
      BY <1>t DEF StateTypes
    <3> QED BY <1>t, <2>1, <2>6, <3>1 DEF StateTypes, MessagesBelong
  <2>8. AnswerHeld' /\ OwnAnswer'
    BY <1>t, <2>1 DEF StateTypes, AnswerHeld, OwnAnswer
  <2> QED BY <2>4, <2>5, <2>7, <2>8
<1>4. CASE CallPush(c)
  <2> DEFINE req == Request(id[c], ticket[c])
  <2>1. /\ m_seq_id' = m_seq_id /\ m_guard' = m_guard
        /\ rsp' = rsp /\ ticket' = ticket /\ id' = id
        /\ pc[c] = "push" /\ pc' = [pc EXCEPT ![c] = "wait"]
        /\ PushChan(req)
        /\ UNCHANGED <<sendMsg, recvMsg, requests, responses>>
    BY <1>4 DEF CallPush
  <2>2. \A d \in Callers : pc'[d] \in Registered =>
          pc[d] \in Registered /\ id'[d] = id[d] /\ ticket'[d] = ticket[d]
    BY <1>t, <2>1 DEF StateTypes, Registered
  <2>3. GuardOwner' /\ NumberRead'
    BY <1>t, <2>1 DEF StateTypes, GuardOwner, NumberRead
  <2>4. NumbersDistinct'
    BY <2>1, <2>2, Zenon DEF NumbersDistinct
  <2>5. Belongs(req)
    BY <1>t, <2>1 DEF StateTypes, Belongs, Request, NumbersDistinct, Registered
  <2>6. req \in Message
    BY <1>t, MessageTypes DEF StateTypes
  <2>7. \A i \in 1..Len(m_chan') : Belongs(m_chan[i])'
    <3> SUFFICES ASSUME NEW i \in 1..Len(m_chan')
                 PROVE  Belongs(m_chan[i])'
      OBVIOUS
    <3>1. m_chan'[i] = req \/ \E j \in 1..Len(m_chan) : m_chan'[i] = m_chan[j]
      BY <1>t, <2>1, <2>6, PushChanContent DEF StateTypes
    <3>2. PICK m : m = m_chan'[i] /\ Belongs(m)
      BY <2>5, <3>1, Zenon DEF MessagesBelong
    <3>3. Belongs(m)'
      BY <2>1, <2>2, <3>2, StillBelongs, Zenon
    <3> QED BY <3>2, <3>3, Zenon DEF Belongs
  <2>8. MessagesBelong'
    BY <2>1, <2>2, <2>7, StillBelongs, Zenon DEF MessagesBelong
  <2>9. AnswerHeld' /\ OwnAnswer'
    BY <1>t, <2>1 DEF StateTypes, AnswerHeld, OwnAnswer
  <2> QED BY <2>3, <2>4, <2>8, <2>9
<1>5. CASE CallTimeout(c)
  <2>1. /\ m_seq_id' = m_seq_id /\ m_guard' = m_guard
        /\ rsp' = rsp /\ ticket' = ticket /\ id' = id
        /\ pc[c] = "wait" /\ pc' = [pc EXCEPT ![c] = "eraseLock"]
        /\ UNCHANGED <<m_chan, sendMsg, recvMsg, requests, responses>>
    BY <1>5 DEF CallTimeout
  <2>2. \A d \in Callers : pc'[d] \in Registered =>
          pc[d] \in Registered /\ id'[d] = id[d] /\ ticket'[d] = ticket[d]
    BY <1>t, <2>1 DEF StateTypes, Registered
  <2>3. GuardOwner' /\ NumberRead'
    BY <1>t, <2>1 DEF StateTypes, GuardOwner, NumberRead
  <2>4. NumbersDistinct'
    BY <2>1, <2>2, Zenon DEF NumbersDistinct
  <2>5. MessagesBelong'
    BY <2>1, <2>2, StillBelongs, Zenon DEF MessagesBelong
  <2>6. AnswerHeld' /\ OwnAnswer'
    BY <1>t, <2>1 DEF StateTypes, AnswerHeld, OwnAnswer
  <2> QED BY <2>3, <2>4, <2>5, <2>6
<1>6. CASE CallEraseLock(c)
  <2>1. /\ m_seq_id' = m_seq_id /\ m_guard' = c /\ m_guard = "none"
        /\ rsp' = rsp /\ ticket' = ticket /\ id' = id
        /\ pc[c] = "eraseLock" /\ pc' = [pc EXCEPT ![c] = "erase"]
        /\ UNCHANGED <<m_chan, sendMsg, recvMsg, requests, responses>>
    BY <1>6 DEF CallEraseLock
  <2>2. \A d \in Callers : pc'[d] \in Registered =>
          pc[d] \in Registered /\ id'[d] = id[d] /\ ticket'[d] = ticket[d]
    BY <1>t, <2>1 DEF StateTypes, Registered
  <2>3. GuardOwner' /\ NumberRead'
    BY <1>t, <2>1 DEF StateTypes, GuardOwner, NumberRead
  <2>4. NumbersDistinct'
    BY <2>1, <2>2, Zenon DEF NumbersDistinct
  <2>5. MessagesBelong'
    BY <2>1, <2>2, StillBelongs, Zenon DEF MessagesBelong
  <2>6. AnswerHeld' /\ OwnAnswer'
    BY <1>t, <2>1 DEF StateTypes, AnswerHeld, OwnAnswer
  <2> QED BY <2>3, <2>4, <2>5, <2>6
<1>7. CASE CallErase(c)
  <2>1. /\ m_seq_id' = m_seq_id /\ m_guard' = "none"
        /\ rsp' = [rsp EXCEPT ![c] = NoMessage] /\ ticket' = ticket
        /\ id' = [id EXCEPT ![c] = 0]
        /\ pc[c] = "erase" /\ pc' = [pc EXCEPT ![c] = "idle"]
        /\ UNCHANGED <<m_chan, sendMsg, recvMsg, requests, responses>>
    BY <1>7 DEF CallErase
  <2>2. \A d \in Callers : pc'[d] \in Registered =>
          pc[d] \in Registered /\ id'[d] = id[d] /\ ticket'[d] = ticket[d]
    BY <1>t, <2>1 DEF StateTypes, Registered
  <2>3. m_guard = c
    BY <2>1 DEF GuardOwner
  <2>4. GuardOwner' /\ NumberRead'
    BY <1>t, <2>1, <2>3 DEF StateTypes, GuardOwner, NumberRead
  <2>5. NumbersDistinct'
    BY <2>1, <2>2, Zenon DEF NumbersDistinct
  <2>6. MessagesBelong'
    BY <2>1, <2>2, StillBelongs, Zenon DEF MessagesBelong
  <2>7. AnswerHeld' /\ OwnAnswer'
    BY <1>t, <2>1 DEF StateTypes, AnswerHeld, OwnAnswer, NoMessage, Heartbeat
  <2> QED BY <2>4, <2>5, <2>6, <2>7
<1> QED
  BY <1>1, <1>2, <1>3, <1>4, <1>5, <1>6, <1>7 DEF CallStep

\* A step that moves messages on, and leaves the callers alone, keeps the
\* invariant if every message under way was under way before.
LEMMA QuietStep ==
  ASSUME IInv, TypeOK', UNCHANGED callerVars,
         \A i \in 1..Len(m_chan') : Belongs(m_chan'[i]),
         Belongs(sendMsg'), Belongs(recvMsg'),
         \A m \in requests' : Belongs(m),
         \A m \in responses' : Belongs(m)
  PROVE  IInv'
<1>1. /\ GuardOwner' /\ NumberRead' /\ NumbersDistinct' /\ AnswerHeld'
      /\ OwnAnswer'
      /\ \A m : Belongs(m) => Belongs(m)'
  BY CallersUntouched
<1>2. \A i \in 1..Len(m_chan') : Belongs(m_chan[i])'
  BY <1>1, Zenon DEF callerVars, Belongs
<1>3. Belongs(sendMsg)' /\ Belongs(recvMsg)'
  BY <1>1, Zenon DEF callerVars, Belongs
<1>4. (\A m \in requests : Belongs(m))' /\ (\A m \in responses : Belongs(m))'
  BY <1>1, Zenon
<1> QED BY <1>1, <1>2, <1>3, <1>4 DEF IInv, MessagesBelong

\* The receiver hands an answer over.
LEMMA DeliverStep ==
  ASSUME IInv, TypeOK', NEW c \in Callers, RecvDeliver(c)
  PROVE  IInv'
<1> USE DEF IInv
<1>t. StateTypes /\ StateTypes'
  BY DEF TypeOK
<1>1. /\ m_seq_id' = m_seq_id /\ m_guard' = m_guard /\ ticket' = ticket
      /\ id' = id /\ rsp' = [rsp EXCEPT ![c] = recvMsg]
      /\ pc[c] = "wait" /\ pc' = [pc EXCEPT ![c] = "eraseLock"]
      /\ id[c] = recvMsg.seq /\ recvMsg' = Heartbeat
      /\ UNCHANGED <<m_chan, sendMsg, requests, responses>>
  BY DEF RecvDeliver, NoMessage
<1>2. \A d \in Callers : pc'[d] \in Registered =>
        pc[d] \in Registered /\ id'[d] = id[d] /\ ticket'[d] = ticket[d]
  BY <1>t, <1>1 DEF StateTypes, Registered
<1>3. GuardOwner' /\ NumberRead'
  BY <1>t, <1>1 DEF StateTypes, GuardOwner, NumberRead
<1>4. NumbersDistinct'
  BY <1>1, <1>2, Zenon DEF NumbersDistinct
<1>5. MessagesBelong'
  BY <1>1, <1>2, StillBelongs, HeartbeatBelongs, SMTT(30) DEF MessagesBelong, Belongs
<1>6. recvMsg.type = "kRpcMethodResponse" => recvMsg.body = ticket[c]
  BY <1>1 DEF MessagesBelong, Belongs, Registered
<1>7. AnswerHeld' /\ OwnAnswer'
  BY <1>t, <1>1, <1>6 DEF StateTypes, AnswerHeld, OwnAnswer
<1> QED BY <1>3, <1>4, <1>5, <1>7

\* The server's answer is to the call whose request it took.
LEMMA AnswerStep ==
  ASSUME IInv, TypeOK', ServerAnswer
  PROVE  IInv'
<1>1. UNCHANGED callerVars /\ UNCHANGED <<m_chan, sendMsg, recvMsg>>
  BY DEF ServerAnswer, callerVars
<1>2. PICK m \in requests, code \in ServerCodes :
        /\ requests' = requests \ {m}
        /\ responses' = responses \cup
             (IF ~peerUp \/ m_session # "open" THEN {}
              ELSE {IF m.type = "kRpcHeartbeat" THEN Heartbeat
                    ELSE Response(m, code)})
  BY DEF ServerAnswer
<1>3. Belongs(m)
  BY <1>2 DEF IInv, MessagesBelong
<1>4. m.type # "kRpcHeartbeat" => Belongs(Response(m, code))
  BY <1>3 DEF Belongs, Response
<1>5. Belongs(Heartbeat)
  BY DEF Belongs, Heartbeat
<1>6. \A r \in responses' : Belongs(r)
  BY <1>2, <1>4, <1>5 DEF IInv, MessagesBelong
<1> QED BY <1>1, <1>2, <1>6, QuietStep DEF IInv, MessagesBelong

\* Every step keeps the invariant.
LEMMA IInvStep == IInv /\ [Next]_vars => IInv'
<1> SUFFICES ASSUME IInv, [Next]_vars
             PROVE  IInv'
  OBVIOUS
<1>t. TypeOK /\ TypeOK'
  BY TypeStep DEF IInv
<1>h. Belongs(Heartbeat) /\ Heartbeat \in Message
  BY MessageTypes DEF Belongs, Heartbeat
<1>m. /\ \A i \in 1..Len(m_chan) : Belongs(m_chan[i])
      /\ Belongs(sendMsg) /\ Belongs(recvMsg)
      /\ \A m \in requests : Belongs(m)
      /\ \A m \in responses : Belongs(m)
      /\ m_chan \in Seq(Message)
  BY <1>t DEF IInv, MessagesBelong, TypeOK, StateTypes
<1>1. CASE ConnectSocket \/ ConnectStep
  <2>1. UNCHANGED callerVars /\ UNCHANGED <<m_chan, sendMsg, recvMsg>>
        /\ requests' \subseteq requests /\ responses' \subseteq responses
    BY <1>1 DEF ConnectSocket, ConnectStep, ConnectSession, ConnectGo, ConnectArm,
       callerVars
  <2> QED BY <1>t, <1>m, <2>1, QuietStep
<1>2. ASSUME NEW c \in Callers, CallCheck(c) \/ CallStep(c)
      PROVE  IInv'
  BY <1>2, <1>t, CallerStep
<1>3. CASE SendPop
  <2>1. UNCHANGED callerVars /\ UNCHANGED <<recvMsg, requests, responses>>
        /\ m_chan # <<>> /\ m_chan' = Tail(m_chan) /\ sendMsg' = Head(m_chan)
    BY <1>3 DEF SendPop, callerVars
  <2>2. \A i \in 1..Len(m_chan') : Belongs(m_chan'[i])
    BY <1>m, <2>1, PopChanContent
  <2>3. Belongs(sendMsg')
    BY <1>m, <2>1, PopChanContent
  <2> QED BY <1>t, <1>m, <2>1, <2>2, <2>3, QuietStep
<1>4. CASE SendEnd
  <2>1. UNCHANGED callerVars
        /\ UNCHANGED <<m_chan, sendMsg, recvMsg, requests, responses>>
    BY <1>4 DEF SendEnd, callerVars
  <2> QED BY <1>t, <1>m, <2>1, QuietStep
<1>5. CASE SendWrite
  <2>1. UNCHANGED callerVars /\ UNCHANGED <<m_chan, recvMsg, responses>>
        /\ requests' \subseteq requests \cup {sendMsg} /\ sendMsg' = Heartbeat
    BY <1>5 DEF SendWrite, NoMessage, callerVars
  <2> QED BY <1>t, <1>h, <1>m, <2>1, QuietStep
<1>6. CASE RecvHeartbeat
  <2>1. UNCHANGED callerVars /\ UNCHANGED <<m_chan, sendMsg, recvMsg, requests>>
        /\ responses' \subseteq responses
    BY <1>6 DEF RecvHeartbeat, callerVars
  <2> QED BY <1>t, <1>m, <2>1, QuietStep
<1>7. CASE RecvResponse
  <2>1. UNCHANGED callerVars /\ UNCHANGED <<m_chan, sendMsg, requests>>
        /\ responses' \subseteq responses
    BY <1>7 DEF RecvResponse, callerVars
  <2>2. Belongs(recvMsg')
    <3>1. recvMsg' = recvMsg \/ recvMsg' \in responses
      BY <1>7 DEF RecvResponse
    <3> QED BY <1>m, <3>1
  <2> QED BY <1>t, <1>m, <2>1, <2>2, QuietStep
<1>8. CASE RecvNull \/ RecvIndex
  <2>1. UNCHANGED callerVars
        /\ UNCHANGED <<m_chan, sendMsg, recvMsg, requests, responses>>
    BY <1>8 DEF RecvNull, RecvIndex, callerVars
  <2> QED BY <1>t, <1>m, <2>1, QuietStep
<1>9. CASE RecvPushFail
  <2>1. UNCHANGED callerVars
        /\ UNCHANGED <<m_chan, sendMsg, requests, responses>>
    BY <1>9 DEF RecvPushFail, callerVars
  <2>2. Belongs(recvMsg')
    <3>1. recvMsg' = recvMsg \/ recvMsg' = Heartbeat
      BY <1>9 DEF RecvPushFail, NoMessage
    <3> QED BY <1>h, <1>m, <3>1
  <2> QED BY <1>t, <1>m, <2>1, <2>2, QuietStep
<1>10. ASSUME NEW c \in Callers, RecvDeliver(c)
       PROVE  IInv'
  BY <1>10, <1>t, DeliverStep
<1>11. CASE TimerFire \/ TimerRearm
  <2>1. UNCHANGED callerVars
        /\ UNCHANGED <<m_chan, sendMsg, recvMsg, requests, responses>>
    BY <1>11 DEF TimerFire, TimerRearm, callerVars
  <2> QED BY <1>t, <1>m, <2>1, QuietStep
<1>12. CASE TimerPush
  <2>1. UNCHANGED callerVars /\ PushChan(Heartbeat)
        /\ UNCHANGED <<sendMsg, recvMsg, requests, responses>>
    BY <1>12 DEF TimerPush, callerVars
  <2>2. \A i \in 1..Len(m_chan') : Belongs(m_chan'[i])
    BY <1>h, <1>m, <2>1, PushChanContent
  <2> QED BY <1>t, <1>m, <2>1, <2>2, QuietStep
<1>13. CASE UserClose
  <2>1. UNCHANGED callerVars
        /\ UNCHANGED <<m_chan, sendMsg, recvMsg, requests, responses>>
    BY <1>13 DEF UserClose, callerVars
  <2> QED BY <1>t, <1>m, <2>1, QuietStep
<1>14. ASSUME NEW k \in Closers, CloseStep(k)
       PROVE  IInv'
  <2>1. UNCHANGED callerVars /\ UNCHANGED <<m_chan, sendMsg, recvMsg, requests>>
        /\ responses' \subseteq responses
    BY <1>14 DEF CloseStep, CloseCheck, CloseSet, CloseRest, callerVars
  <2> QED BY <1>t, <1>m, <2>1, QuietStep
<1>15. CASE ServerAnswer
  BY <1>15, <1>t, AnswerStep
<1>16. CASE PeerClose
  <2>1. UNCHANGED callerVars
        /\ UNCHANGED <<m_chan, sendMsg, recvMsg, requests, responses>>
    BY <1>16 DEF PeerClose, callerVars
  <2> QED BY <1>t, <1>m, <2>1, QuietStep
<1>17. CASE UNCHANGED vars
  <2>1. UNCHANGED callerVars
        /\ UNCHANGED <<m_chan, sendMsg, recvMsg, requests, responses>>
    BY <1>17 DEF vars, callerVars
  <2> QED BY <1>t, <1>m, <2>1, QuietStep
<1> QED
  BY <1>1, <1>2, <1>3, <1>4, <1>5, <1>6, <1>7, <1>8, <1>9, <1>10, <1>11,
     <1>12, <1>13, <1>14, <1>15, <1>16, <1>17
  DEF Next, RecvStep, TimerStep

\* A call only ever comes back with the answer to its own request
\* (OwnAnswer), however answers are reordered, delayed past a timeout, or
\* overtaken by the caller's next call: call_internal and
\* handleMethodResponse never cross two calls.
THEOREM AnswersAreOwn == Spec => []OwnAnswer
<1>1. Init => IInv
  BY InitIInv
<1>2. IInv /\ [Next]_vars => IInv'
  BY IInvStep
<1>3. IInv => OwnAnswer
  BY DEF IInv
<1> QED BY <1>1, <1>2, <1>3, PTL DEF Spec

(***************************************************************************)
(* The table of pending calls.                                             *)
(***************************************************************************)
\* A step that touches neither the table nor who is registered with which
\* number keeps the table exact.
LEMMA TableUntouched ==
  ASSUME TableExact, UNCHANGED <<m_outstanding_call, orphaned>>,
         \A c \in Callers : pc[c] \in Registered <=> pc'[c] \in Registered,
         \A c \in Callers : pc[c] \in Registered => id'[c] = id[c]
  PROVE  TableExact'
<1>1. {id'[c] : c \in {d \in Callers : pc'[d] \in Registered}} =
      {id[c] : c \in {d \in Callers : pc[d] \in Registered}}
  OBVIOUS
<1> QED BY <1>1 DEF TableExact

\* Every step keeps the table exact.
LEMMA TableStep == IInv /\ TableExact /\ [Next]_vars => TableExact'
<1> SUFFICES ASSUME IInv, TableExact, [Next]_vars
             PROVE  TableExact'
  OBVIOUS
<1>t. StateTypes
  BY DEF IInv, TypeOK
<1>q. ASSUME UNCHANGED <<m_outstanding_call, orphaned, pc, id>>
      PROVE  TableExact'
  BY <1>q DEF TableExact
<1>c. ASSUME NEW c \in Callers,
             UNCHANGED <<m_outstanding_call, orphaned>>,
             NEW to, pc' = pc \/ pc' = [pc EXCEPT ![c] = to],
             pc[c] \in Registered <=> to \in Registered,
             pc[c] \notin Registered => pc'[c] \notin Registered,
             \A d \in Callers : pc[d] \in Registered => id'[d] = id[d]
      PROVE  TableExact'
  <2>1. \A d \in Callers : pc[d] \in Registered <=> pc'[d] \in Registered
    BY <1>c, <1>t, ZenonT(30) DEF StateTypes
  <2> QED BY <1>c, <2>1, TableUntouched
<1>1. CASE ConnectSocket \/ ConnectStep
  BY <1>1, <1>q DEF ConnectSocket, ConnectStep, ConnectSession, ConnectGo, ConnectArm
<1>2. ASSUME NEW c \in Callers, CallCheck(c)
      PROVE  TableExact'
  <2>1. UNCHANGED <<m_outstanding_call, orphaned, id>>
        /\ pc[c] = "idle"
    BY <1>2 DEF CallCheck
  <2>2. pc' = pc \/ pc' = [pc EXCEPT ![c] = "lock"]
    BY <1>2 DEF CallCheck
  <2> QED BY <1>c, <1>t, <2>1, <2>2 DEF StateTypes, Registered
<1>3. ASSUME NEW c \in Callers, CallLock(c)
      PROVE  TableExact'
  <2>1. UNCHANGED <<m_outstanding_call, orphaned>>
        /\ pc[c] = "lock" /\ pc' = [pc EXCEPT ![c] = "insert"]
        /\ id' = [id EXCEPT ![c] = m_seq_id]
    BY <1>3 DEF CallLock
  <2> QED BY <1>c, <1>t, <2>1 DEF StateTypes, Registered
<1>4. ASSUME NEW c \in Callers, CallInsert(c)
      PROVE  TableExact'
  <2>1. /\ UNCHANGED <<orphaned, id>>
        /\ m_outstanding_call' = m_outstanding_call \cup {id[c]}
        /\ pc[c] = "insert" /\ pc' = [pc EXCEPT ![c] = "push"]
    BY <1>4 DEF CallInsert
  <2>2. {d \in Callers : pc'[d] \in Registered} =
        {d \in Callers : pc[d] \in Registered} \cup {c}
    BY <1>t, <2>1 DEF StateTypes, Registered
  <2>3. {id'[d] : d \in {e \in Callers : pc'[e] \in Registered}} =
        {id[d] : d \in {e \in Callers : pc[e] \in Registered}} \cup {id[c]}
    BY <2>1, <2>2
  <2> QED BY <2>1, <2>3 DEF TableExact
<1>5. ASSUME NEW c \in Callers, CallPush(c)
      PROVE  TableExact'
  <2>1. UNCHANGED <<m_outstanding_call, orphaned, id>>
        /\ pc[c] = "push" /\ pc' = [pc EXCEPT ![c] = "wait"]
    BY <1>5 DEF CallPush
  <2> QED BY <1>c, <1>t, <2>1 DEF StateTypes, Registered
<1>6. ASSUME NEW c \in Callers, CallTimeout(c)
      PROVE  TableExact'
  <2>1. UNCHANGED <<m_outstanding_call, orphaned, id>>
        /\ pc[c] = "wait" /\ pc' = [pc EXCEPT ![c] = "eraseLock"]
    BY <1>6 DEF CallTimeout
  <2> QED BY <1>c, <1>t, <2>1 DEF StateTypes, Registered
<1>7. ASSUME NEW c \in Callers, CallEraseLock(c)
      PROVE  TableExact'
  <2>1. UNCHANGED <<m_outstanding_call, orphaned, id>>
        /\ pc[c] = "eraseLock" /\ pc' = [pc EXCEPT ![c] = "erase"]
    BY <1>7 DEF CallEraseLock
  <2> QED BY <1>c, <1>t, <2>1 DEF StateTypes, Registered
<1>8. ASSUME NEW c \in Callers, CallErase(c)
      PROVE  TableExact'
  <2>1. /\ m_outstanding_call' = m_outstanding_call \ {id[c]}
        /\ orphaned' = orphaned \ {id[c]}
        /\ id' = [id EXCEPT ![c] = 0]
        /\ pc[c] = "erase" /\ pc' = [pc EXCEPT ![c] = "idle"]
    BY <1>8 DEF CallErase
  <2>2. {d \in Callers : pc'[d] \in Registered} =
        {d \in Callers : pc[d] \in Registered} \ {c}
    BY <1>t, <2>1 DEF StateTypes, Registered
  <2>3. \A d \in Callers : pc[d] \in Registered /\ d # c =>
          id'[d] = id[d] /\ id[d] # id[c]
    BY <1>t, <2>1 DEF StateTypes, IInv, NumbersDistinct, Registered
  <2>4. {id'[d] : d \in {e \in Callers : pc'[e] \in Registered}} =
        {id[d] : d \in {e \in Callers : pc[e] \in Registered}} \ {id[c]}
    BY <2>2, <2>3
  <2> QED BY <2>1, <2>4 DEF TableExact
<1>9. CASE SendPop \/ SendEnd \/ SendWrite
  BY <1>9, <1>q DEF SendPop, SendEnd, SendWrite
<1>10. CASE RecvHeartbeat
  BY <1>10, <1>q DEF RecvHeartbeat
<1>11. CASE RecvResponse
  BY <1>11, <1>q DEF RecvResponse
<1>12. CASE RecvNull
  BY <1>12, <1>q DEF RecvNull
<1>13. CASE RecvIndex
  <2>1. UNCHANGED <<pc, id>>
    BY <1>13 DEF RecvIndex
  <2>2. CASE UNCHANGED <<m_outstanding_call, orphaned>>
    BY <1>q, <2>1, <2>2
  <2>3. CASE /\ m_outstanding_call' = m_outstanding_call \cup {recvMsg.seq}
             /\ orphaned' = orphaned \cup {recvMsg.seq}
    BY <2>1, <2>3 DEF TableExact
  <2> QED BY <1>13, <2>2, <2>3 DEF RecvIndex
<1>14. ASSUME NEW c \in Callers, RecvDeliver(c)
       PROVE  TableExact'
  <2>1. UNCHANGED <<m_outstanding_call, orphaned, id>>
        /\ pc[c] = "wait" /\ pc' = [pc EXCEPT ![c] = "eraseLock"]
    BY <1>14 DEF RecvDeliver
  <2>2. \A d \in Callers : pc[d] \in Registered <=> pc'[d] \in Registered
    BY <1>t, <2>1 DEF StateTypes, Registered
  <2> QED BY <2>1, <2>2, TableUntouched
<1>15. CASE RecvPushFail
  BY <1>15, <1>q DEF RecvPushFail
<1>16. CASE TimerStep
  BY <1>16, <1>q DEF TimerStep, TimerFire, TimerPush, TimerRearm
<1>17. CASE UserClose
  BY <1>17, <1>q DEF UserClose
<1>18. ASSUME NEW k \in Closers, CloseStep(k)
       PROVE  TableExact'
  BY <1>18, <1>q DEF CloseStep, CloseCheck, CloseSet, CloseRest
<1>19. CASE ServerAnswer \/ PeerClose
  BY <1>19, <1>q DEF ServerAnswer, PeerClose
<1>20. CASE UNCHANGED vars
  BY <1>20, <1>q DEF vars
<1> QED
  BY <1>1, <1>2, <1>3, <1>4, <1>5, <1>6, <1>7, <1>8, <1>9, <1>10, <1>11,
     <1>12, <1>13, <1>14, <1>15, <1>16, <1>17, <1>18, <1>19, <1>20
  DEF Next, CallStep, RecvStep

\* The table of pending calls holds exactly the calls in progress and what
\* operator[] in handleMethodResponse added (TableExact).
THEOREM TableIsExact == Spec => []TableExact
<1>1. Init => IInv /\ TableExact
  <2>1. Init => TableExact
    BY DEF Init, TableExact, Registered
  <2> QED BY <2>1, InitIInv
<1>2. IInv /\ TableExact /\ [Next]_vars => (IInv /\ TableExact)'
  BY IInvStep, TableStep
<1> QED BY <1>1, <1>2, PTL DEF Spec

(***************************************************************************)
(* InsertTakes.  Every entry of the table, a caller's or operator[]'s, has *)
(* a number drawn before: the receiver only makes an entry for a number    *)
(* that find() has just seen in the table.                                 *)
(***************************************************************************)
Drawn == /\ \A n \in m_outstanding_call : n < m_seq_id
         /\ receiver = "index" => recvMsg.seq < m_seq_id

\* A step that adds no entry and does not look one up.
LEMMA DrawnQuiet ==
  ASSUME Drawn, UNCHANGED m_seq_id, m_outstanding_call' \subseteq m_outstanding_call,
         receiver' = "index" => receiver = "index" /\ recvMsg' = recvMsg
  PROVE  Drawn'
BY DEF Drawn

\* Every step keeps the numbers drawn.
LEMMA DrawnStep == IInv /\ Drawn /\ [Next]_vars => Drawn'
<1> SUFFICES ASSUME IInv, Drawn, [Next]_vars
             PROVE  Drawn'
  OBVIOUS
<1>t. m_seq_id \in Nat /\ m_outstanding_call \subseteq Nat
  BY DEF IInv, TypeOK, StateTypes
<1>1. ASSUME NEW c \in Callers, CallInsert(c)
      PROVE  Drawn'
  <2>1. id[c] = m_seq_id
    BY <1>1 DEF CallInsert, IInv, NumberRead
  <2>2. /\ m_seq_id' = m_seq_id + 1 /\ m_outstanding_call' = m_outstanding_call \cup {m_seq_id}
        /\ UNCHANGED <<receiver, recvMsg>>
    BY <1>1, <2>1 DEF CallInsert
  <2>3. recvMsg.seq \in Nat
    BY DEF IInv, TypeOK, StateTypes, Message
  <2> QED BY <1>t, <2>2, <2>3 DEF Drawn
<1>2. ASSUME NEW c \in Callers, CallErase(c)
      PROVE  Drawn'
  BY <1>2, DrawnQuiet DEF CallErase
<1>3. ASSUME NEW c \in Callers,
             \/ CallCheck(c) \/ CallLock(c) \/ CallPush(c) \/ CallTimeout(c) \/ CallEraseLock(c)
      PROVE  Drawn'
  BY <1>3, DrawnQuiet DEF CallCheck, CallLock, CallPush, CallTimeout, CallEraseLock
<1>4. CASE RecvResponse
  <2>1. UNCHANGED <<m_seq_id, m_outstanding_call>>
    BY <1>4 DEF RecvResponse
  <2>2. receiver' = "index" => recvMsg'.seq \in m_outstanding_call
    BY <1>4 DEF RecvResponse
  <2> QED BY <2>1, <2>2 DEF Drawn
<1>5. CASE RecvIndex
  <2>1. /\ receiver = "index" /\ UNCHANGED <<m_seq_id, recvMsg>>
        /\ m_outstanding_call' \subseteq m_outstanding_call \cup {recvMsg.seq}
    BY <1>5 DEF RecvIndex
  <2> QED BY <2>1 DEF Drawn
<1>6. CASE RecvHeartbeat \/ RecvNull \/ RecvPushFail \/ \E c \in Callers : RecvDeliver(c)
  <2>1. UNCHANGED <<m_seq_id, m_outstanding_call>>
    BY <1>6 DEF RecvHeartbeat, RecvNull, RecvPushFail, RecvDeliver
  <2>2. receiver' # "index"
    BY <1>6 DEF RecvHeartbeat, RecvNull, RecvPushFail, RecvDeliver
  <2> QED BY <2>1, <2>2, DrawnQuiet
<1>7. CASE \/ ConnectSocket \/ ConnectStep \/ SendPop \/ SendEnd \/ SendWrite
             \/ TimerStep \/ UserClose \/ ServerAnswer \/ PeerClose \/ UNCHANGED vars
  <2>1. UNCHANGED <<m_seq_id, m_outstanding_call, recvMsg>>
    BY <1>7 DEF ConnectSocket, ConnectStep, ConnectSession, ConnectGo, ConnectArm,
       SendPop, SendEnd, SendWrite, TimerStep, TimerFire, TimerPush, TimerRearm,
       UserClose, ServerAnswer, PeerClose, vars
  <2>2. receiver' \in {receiver, "recv"}
    BY <1>7 DEF ConnectSocket, ConnectStep, ConnectSession, ConnectGo, ConnectArm,
       SendPop, SendEnd, SendWrite, TimerStep, TimerFire, TimerPush, TimerRearm,
       UserClose, ServerAnswer, PeerClose, vars
  <2> QED BY <2>1, <2>2, DrawnQuiet
<1>8. ASSUME NEW k \in Closers, CloseStep(k)
      PROVE  Drawn'
  <2>1. UNCHANGED <<m_seq_id, m_outstanding_call, recvMsg>>
    BY <1>8 DEF CloseStep, CloseCheck, CloseSet, CloseRest
  <2>2. receiver' \in {receiver, "off"}
    BY <1>8 DEF CloseStep, CloseCheck, CloseSet, CloseRest, CloseReturn
  <2> QED BY <2>1, <2>2, DrawnQuiet
<1> QED
  BY <1>1, <1>2, <1>3, <1>4, <1>5, <1>6, <1>7, <1>8 DEF Next, CallStep, RecvStep

\* A call's insert() always takes: no other call, and no entry operator[]
\* left behind, has its number, for any number of callers and calls.
THEOREM InsertsTake == Spec => InsertTakes
<1>1. Init => IInv /\ Drawn
  <2>1. Init => Drawn
    BY DEF Init, Drawn
  <2> QED BY <2>1, InitIInv
<1>2. IInv /\ Drawn /\ [Next]_vars => (IInv /\ Drawn)'
  BY IInvStep, DrawnStep
<1>3. IInv /\ Drawn =>
        [\A c \in Callers :
           pc[c] = "insert" /\ pc'[c] = "push" => id[c] \notin m_outstanding_call]_vars
  <2> SUFFICES ASSUME IInv, Drawn, NEW c \in Callers, pc[c] = "insert",
                      id[c] \in m_outstanding_call
               PROVE  FALSE
    OBVIOUS
  <2>1. id[c] = m_seq_id /\ m_seq_id \in Nat
    BY DEF IInv, NumberRead, TypeOK, StateTypes
  <2> QED BY <2>1 DEF Drawn
<1> QED BY <1>1, <1>2, <1>3, PTL DEF Spec, InsertTakes

(***************************************************************************)
(* RpcClient implements RpcCall.  A call runs at most once because its     *)
(* request is at one place at a time (the caller, the channel, the sender, *)
(* the connection) and not yet run there; an answer is of a call that ran. *)
(***************************************************************************)
\* The steps of a call before its request is in the channel.
Unsent == {"lock", "insert", "push"}

\* A request under way is of a call that was made, has not run, and has left
\* its caller.
Unrun(m) ==
  m.type # "kRpcHeartbeat" =>
    /\ m.body \in 1..calls /\ executed[m.body] = 0
    /\ \A c \in Callers : pc[c] \in Unsent => ticket[c] # m.body

\* An answer under way is of a call that has run, with a code of the server.
Ran(m) ==
  m.type # "kRpcHeartbeat" =>
    m.body \in 1..calls /\ executed[m.body] = 1 /\ m.code \in ServerCodes

\* Two requests of the same call.
SameCall(m, n) ==
  m.type # "kRpcHeartbeat" /\ n.type # "kRpcHeartbeat" /\ m.body = n.body

RequestsUnrun ==
  /\ \A i \in 1..Len(m_chan) : Unrun(m_chan[i])
  /\ Unrun(sendMsg)
  /\ \A m \in requests : Unrun(m)

AnswersRan ==
  /\ \A m \in responses : Ran(m)
  /\ Ran(recvMsg)
  /\ \A c \in Callers : Ran(rsp[c])

\* The request of a call is at one place at a time.
RequestsOnce ==
  /\ \A i, j \in 1..Len(m_chan) : SameCall(m_chan[i], m_chan[j]) => i = j
  /\ \A i \in 1..Len(m_chan) : ~SameCall(m_chan[i], sendMsg)
  /\ \A i \in 1..Len(m_chan), m \in requests : ~SameCall(m_chan[i], m)
  /\ \A m \in requests : ~SameCall(sendMsg, m)
  /\ \A m, n \in requests : SameCall(m, n) => m = n

\* Callers that have not sent their request hold the tickets of distinct
\* calls, none of which has run; nor has a call that is still to be made.
TicketsFresh ==
  /\ calls <= MaxCalls
  /\ \A t \in 1..MaxCalls : t > calls => executed[t] = 0
  /\ \A c \in Callers : pc[c] # "idle" => ticket[c] \in 1..calls
  /\ \A c \in Callers : pc[c] \in Unsent => executed[ticket[c]] = 0
  /\ \A c, d \in Callers : pc[c] \in Unsent /\ pc[d] \in Unsent
                             /\ ticket[c] = ticket[d] => c = d

RInv == IInv /\ RequestsUnrun /\ AnswersRan /\ RequestsOnce /\ TicketsFresh

\* A push on the open channel puts the message behind the others.
LEMMA PushChanIndex ==
  ASSUME NEW m \in Message, m_chan \in Seq(Message), PushChan(m)
  PROVE  \/ m_chan' = m_chan
         \/ /\ Len(m_chan') = Len(m_chan) + 1 /\ Len(m_chan) \in Nat
            /\ m_chan'[Len(m_chan) + 1] = m
            /\ \A i \in 1..Len(m_chan) : m_chan'[i] = m_chan[i]
BY DEF PushChan

\* A step that neither makes nor runs a call, and only takes callers out of
\* the steps before the push, keeps requests unrun and answers run.
LEMMA StillUnrun ==
  ASSUME UNCHANGED <<calls, executed>>,
         \A c \in Callers : pc'[c] \in Unsent =>
           pc[c] \in Unsent /\ ticket'[c] = ticket[c]
  PROVE  /\ \A m : Unrun(m) => Unrun(m)'
         /\ \A m : Ran(m) => Ran(m)'
BY Zenon DEF Unrun, Ran

\* A heartbeat is of no call.
LEMMA HeartbeatOfNoCall ==
  /\ Unrun(Heartbeat) /\ Ran(Heartbeat)
  /\ \A m : ~SameCall(m, Heartbeat) /\ ~SameCall(Heartbeat, m)
BY DEF Unrun, Ran, SameCall, Heartbeat

\* The initial state: no calls and no messages.
LEMMA InitRInv == Init => RInv
<1> SUFFICES ASSUME Init PROVE RInv
  OBVIOUS
<1>1. IInv
  BY InitIInv
<1>2. /\ m_chan = <<>> /\ Len(m_chan) = 0 /\ requests = {} /\ responses = {}
      /\ sendMsg = Heartbeat /\ recvMsg = Heartbeat
      /\ rsp = [c \in Callers |-> Heartbeat]
  BY DEF Init, NoMessage
<1>3. RequestsUnrun /\ AnswersRan /\ RequestsOnce
  BY <1>2, HeartbeatOfNoCall DEF RequestsUnrun, AnswersRan, RequestsOnce
<1>4. TicketsFresh
  BY RpcClientAssumption DEF Init, TicketsFresh, Unsent
<1> QED BY <1>1, <1>3, <1>4 DEF RInv

\* A step that leaves the requests and who has sent one alone keeps the
\* invariant, if the answers stay answers of calls that ran.
LEMMA RQuietStep ==
  ASSUME RInv, IInv',
         UNCHANGED <<calls, executed, m_chan, sendMsg>>,
         requests' \subseteq requests,
         \A c \in Callers : pc'[c] \in Unsent =>
           pc[c] \in Unsent /\ ticket'[c] = ticket[c],
         \A c \in Callers : pc'[c] # "idle" =>
           pc[c] # "idle" /\ ticket'[c] = ticket[c],
         \A m \in responses' : Ran(m),
         Ran(recvMsg'),
         \A c \in Callers : Ran(rsp'[c])
  PROVE  RInv'
<1>1. RequestsUnrun'
  BY StillUnrun, Zenon DEF RInv, RequestsUnrun
<1>2. AnswersRan'
  BY StillUnrun, Zenon DEF RInv, AnswersRan
<1>3. RequestsOnce'
  BY SMTT(30) DEF RInv, RequestsOnce, SameCall
<1>4. TicketsFresh'
  BY DEF RInv, TicketsFresh
<1> QED BY <1>1, <1>2, <1>3, <1>4 DEF RInv

\* A call that is made has a number no message bears.
LEMMA RCheckStep ==
  ASSUME RInv, IInv', NEW c \in Callers, CallCheck(c)
  PROVE  RInv'
<1>t. StateTypes
  BY DEF RInv, IInv, TypeOK
<1>1. /\ calls < MaxCalls /\ calls' = calls + 1
      /\ ticket' = [ticket EXCEPT ![c] = calls + 1]
      /\ pc' = pc \/ pc' = [pc EXCEPT ![c] = "lock"]
      /\ pc[c] = "idle"
      /\ UNCHANGED <<executed, m_chan, sendMsg, recvMsg, rsp, requests, responses>>
  BY DEF CallCheck
<1>2. calls \in Nat /\ MaxCalls \in Nat /\ ticket \in [Callers -> Nat]
      /\ pc \in [Callers -> InCall \cup {"idle"}]
  BY <1>t, RpcClientAssumption DEF StateTypes
<1>3. \A d \in Callers : d # c => pc'[d] = pc[d] /\ ticket'[d] = ticket[d]
  BY <1>1, <1>2
<1>4. ticket'[c] = calls + 1 /\ pc'[c] \in {"idle", "lock"}
  BY <1>1, <1>2
<1>5. ASSUME NEW m, Unrun(m)
      PROVE  Unrun(m)'
  <2>1. CASE m.type = "kRpcHeartbeat"
    BY <2>1 DEF Unrun
  <2>2. CASE m.type # "kRpcHeartbeat"
    <3>1. m.body \in 1..calls' /\ m.body # calls + 1 /\ executed'[m.body] = 0
      BY <1>1, <1>2, <1>5, <2>2 DEF Unrun
    <3>2. \A d \in Callers : pc'[d] \in Unsent => ticket'[d] # m.body
      BY <1>3, <1>4, <1>5, <2>2, <3>1 DEF Unrun
    <3> QED BY <3>1, <3>2 DEF Unrun
  <2> QED BY <2>1, <2>2
<1>6. ASSUME NEW m, Ran(m)
      PROVE  Ran(m)'
  BY <1>1, <1>2, <1>6 DEF Ran
<1>7. RequestsUnrun' /\ AnswersRan'
  BY <1>1, <1>5, <1>6, Zenon DEF RInv, RequestsUnrun, AnswersRan
<1>8. RequestsOnce'
  BY <1>1, SMTT(30) DEF RInv, RequestsOnce, SameCall
<1>9. TicketsFresh'
  <2>1. TicketsFresh
    BY DEF RInv
  <2>2. calls' <= MaxCalls /\ executed[calls + 1] = 0
        /\ \A t \in 1..MaxCalls : t > calls' => executed'[t] = 0
    BY <1>1, <1>2, <2>1 DEF TicketsFresh
  <2>3. \A d \in Callers : pc'[d] # "idle" => ticket'[d] \in 1..calls'
    BY <1>1, <1>2, <1>3, <1>4, <2>1 DEF TicketsFresh
  <2>4. \A d \in Callers : pc'[d] \in Unsent => executed'[ticket'[d]] = 0
    BY <1>1, <1>3, <1>4, <2>1, <2>2 DEF TicketsFresh
  <2>5. \A d \in Callers : d # c /\ pc[d] \in Unsent => ticket[d] # calls + 1
    BY <1>2, <2>1 DEF TicketsFresh, Unsent
  <2>6. \A d, e \in Callers : pc'[d] \in Unsent /\ pc'[e] \in Unsent
                                /\ ticket'[d] = ticket'[e] => d = e
    BY <1>3, <1>4, <2>1, <2>5 DEF TicketsFresh
  <2> QED BY <2>2, <2>3, <2>4, <2>6 DEF TicketsFresh
<1> QED BY <1>7, <1>8, <1>9 DEF RInv

\* A push moves the request of a call from its caller into the channel.
LEMMA RPushStep ==
  ASSUME RInv, IInv', NEW c \in Callers, CallPush(c)
  PROVE  RInv'
<1> DEFINE req == Request(id[c], ticket[c])
<1>t. StateTypes
  BY DEF RInv, IInv, TypeOK
<1>m. req \in Message /\ m_chan \in Seq(Message) /\ PushChan(req)
      /\ req.type = "kRpcMethodRequest" /\ req.body = ticket[c]
  BY <1>t, MessageTypes DEF CallPush, StateTypes, Request
<1> HIDE DEF req
<1>1. /\ UNCHANGED <<calls, ticket, executed, sendMsg, recvMsg, rsp, requests,
                     responses>>
      /\ pc[c] = "push" /\ pc' = [pc EXCEPT ![c] = "wait"]
  BY DEF CallPush
<1>2. \A d \in Callers : pc'[d] \in Unsent => pc[d] \in Unsent /\ d # c
  BY <1>t, <1>1 DEF StateTypes, Unsent
<1>3. \A m : (Unrun(m) => Unrun(m)') /\ (Ran(m) => Ran(m)')
  BY <1>1, <1>2, StillUnrun
<1>4. \A m : m = req => Unrun(m)'
  <2>1. ticket[c] \in 1..calls /\ executed[ticket[c]] = 0
    BY <1>1 DEF RInv, TicketsFresh, Unsent
  <2>2. \A d \in Callers : pc'[d] \in Unsent => ticket[d] # ticket[c]
    BY <1>1, <1>2 DEF RInv, TicketsFresh, Unsent
  <2> QED BY <1>m, <1>1, <2>1, <2>2 DEF Unrun
<1>5. \A m : Unrun(m) => ~SameCall(m, req) /\ ~SameCall(req, m)
  BY <1>m, <1>1 DEF Unrun, SameCall, Unsent
<1>6. TicketsFresh'
  BY <1>t, <1>1, <1>2 DEF RInv, TicketsFresh, StateTypes
<1>7. AnswersRan'
  BY <1>1, <1>3, Zenon DEF RInv, AnswersRan
<1>8. CASE m_chan' = m_chan
  BY <1>1, <1>3, <1>6, <1>7, <1>8, SMTT(30)
  DEF RInv, RequestsUnrun, RequestsOnce, SameCall
<1>9. CASE /\ Len(m_chan') = Len(m_chan) + 1 /\ Len(m_chan) \in Nat
           /\ m_chan'[Len(m_chan) + 1] = req
           /\ \A i \in 1..Len(m_chan) : m_chan'[i] = m_chan[i]
  <2>1. \A i \in 1..Len(m_chan') : i \in 1..Len(m_chan) \/ i = Len(m_chan) + 1
    BY <1>9
  <2>2. (\A i \in 1..Len(m_chan) : Unrun(m_chan[i]))'
    BY <1>3, <1>4, <1>9, <2>1 DEF RInv, RequestsUnrun
  <2>3. RequestsUnrun'
    BY <1>1, <1>3, <2>2, Zenon DEF RInv, RequestsUnrun
  <2>4. /\ \A i \in 1..Len(m_chan) :
             ~SameCall(m_chan[i], req) /\ ~SameCall(req, m_chan[i])
        /\ ~SameCall(req, sendMsg)
        /\ \A m \in requests : ~SameCall(req, m)
    BY <1>5 DEF RInv, RequestsUnrun
  <2>5. \A i, j \in 1..Len(m_chan') : SameCall(m_chan'[i], m_chan'[j]) => i = j
    <3>1. \A i, j \in 1..Len(m_chan) : SameCall(m_chan[i], m_chan[j]) => i = j
      BY DEF RInv, RequestsOnce
    <3>2. ASSUME NEW i \in 1..Len(m_chan'), NEW j \in 1..Len(m_chan'),
                 SameCall(m_chan'[i], m_chan'[j])
          PROVE  i = j
      <4>1. CASE i \in 1..Len(m_chan) /\ j \in 1..Len(m_chan)
        BY <1>9, <3>1, <3>2, <4>1
      <4>2. CASE i \in 1..Len(m_chan) /\ j = Len(m_chan) + 1
        BY <1>9, <2>4, <3>2, <4>2
      <4>3. CASE i = Len(m_chan) + 1 /\ j \in 1..Len(m_chan)
        BY <1>9, <2>4, <3>2, <4>3
      <4> QED BY <2>1, <4>1, <4>2, <4>3
    <3> QED BY <3>2
  <2>6. \A i \in 1..Len(m_chan') : ~SameCall(m_chan'[i], sendMsg)
    BY <1>5, <1>9, <2>1, <2>4 DEF RInv, RequestsOnce, RequestsUnrun
  <2>7. \A i \in 1..Len(m_chan'), m \in requests : ~SameCall(m_chan'[i], m)
    <3>1. \A i \in 1..Len(m_chan), m \in requests : ~SameCall(m_chan[i], m)
      BY DEF RInv, RequestsOnce
    <3> QED BY <1>9, <2>1, <2>4, <3>1
  <2>8. RequestsOnce'
    BY <1>1, <2>5, <2>6, <2>7, Zenon DEF RInv, RequestsOnce, SameCall
  <2> QED BY <1>6, <1>7, <2>3, <2>8 DEF RInv
<1> QED BY <1>m, <1>8, <1>9, PushChanIndex

\* The sender takes the first request from the channel.
LEMMA RPopStep ==
  ASSUME RInv, IInv', SendPop
  PROVE  RInv'
<1>t. m_chan \in Seq(Message)
  BY DEF RInv, IInv, TypeOK, StateTypes
<1>1. /\ UNCHANGED <<calls, ticket, pc, executed, recvMsg, rsp, requests, responses>>
      /\ m_chan # <<>> /\ sendMsg' = Head(m_chan) /\ m_chan' = Tail(m_chan)
  BY DEF SendPop
<1>2. \A m : (Unrun(m) => Unrun(m)') /\ (Ran(m) => Ran(m)')
  BY <1>1, StillUnrun
<1>3. /\ sendMsg' = m_chan[1] /\ 1 \in 1..Len(m_chan)
      /\ \A i \in 1..Len(m_chan') :
           /\ m_chan'[i] = m_chan[i + 1] /\ i + 1 \in 1..Len(m_chan)
           /\ i + 1 # 1 /\ i \in Nat
  BY <1>t, <1>1, PopChanContent
<1>4. RequestsUnrun'
  <2>1. Unrun(sendMsg)' /\ (\A i \in 1..Len(m_chan) : Unrun(m_chan[i]))'
    BY <1>2, <1>3 DEF RInv, RequestsUnrun
  <2> QED BY <1>1, <1>2, <2>1, Zenon DEF RInv, RequestsUnrun
<1>5. AnswersRan' /\ TicketsFresh'
  BY <1>1, <1>2, Zenon DEF RInv, AnswersRan, TicketsFresh
<1>6. RequestsOnce'
  <2>1. /\ \A i, j \in 1..Len(m_chan) : SameCall(m_chan[i], m_chan[j]) => i = j
        /\ \A i \in 1..Len(m_chan), m \in requests : ~SameCall(m_chan[i], m)
        /\ \A m, n \in requests : SameCall(m, n) => m = n
    BY DEF RInv, RequestsOnce
  <2>2. \A i, j \in 1..Len(m_chan') : SameCall(m_chan'[i], m_chan'[j]) => i = j
    BY <1>3, <2>1
  <2>3. \A i \in 1..Len(m_chan') : ~SameCall(m_chan'[i], sendMsg')
    BY <1>3, <2>1
  <2>4. \A i \in 1..Len(m_chan'), m \in requests' : ~SameCall(m_chan'[i], m)
    BY <1>1, <1>3, <2>1
  <2>5. \A m \in requests' : ~SameCall(sendMsg', m)
    BY <1>1, <1>3, <2>1
  <2> QED BY <1>1, <2>1, <2>2, <2>3, <2>4, <2>5, Zenon DEF RequestsOnce, SameCall
<1> QED BY <1>4, <1>5, <1>6 DEF RInv

\* The sender puts its request on the connection, or loses it.
LEMMA RWriteStep ==
  ASSUME RInv, IInv', SendWrite
  PROVE  RInv'
<1>1. /\ UNCHANGED <<calls, ticket, pc, executed, recvMsg, rsp, m_chan, responses>>
      /\ requests' \subseteq requests \cup {sendMsg} /\ sendMsg' = Heartbeat
  BY DEF SendWrite, NoMessage
<1>2. \A m : (Unrun(m) => Unrun(m)') /\ (Ran(m) => Ran(m)')
  BY <1>1, StillUnrun
<1>h. \A m : m = Heartbeat => Unrun(m)
  BY HeartbeatOfNoCall
<1>4. RequestsUnrun'
  <2>1. (\A m \in requests : Unrun(m))'
    BY <1>1, <1>2 DEF RInv, RequestsUnrun
  <2>2. Unrun(sendMsg)'
    BY <1>1, <1>2, <1>h
  <2> QED BY <1>1, <1>2, <2>1, <2>2, Zenon DEF RInv, RequestsUnrun
<1>5. AnswersRan' /\ TicketsFresh'
  BY <1>1, <1>2, Zenon DEF RInv, AnswersRan, TicketsFresh
<1>6. RequestsOnce'
  <2>1. RequestsOnce
    BY DEF RInv
  <2>2. \A m : ~SameCall(m, sendMsg') /\ ~SameCall(sendMsg', m)
    BY <1>1, HeartbeatOfNoCall
  <2>3. \A i \in 1..Len(m_chan), m \in requests' : ~SameCall(m_chan[i], m)
    BY <1>1, <2>1 DEF RequestsOnce
  <2>4. \A m, n \in requests' : SameCall(m, n) => m = n
    BY <1>1, <2>1 DEF RequestsOnce, SameCall
  <2> QED BY <1>1, <2>1, <2>2, <2>3, <2>4, SMTT(30) DEF RequestsOnce, SameCall
<1> QED BY <1>4, <1>5, <1>6 DEF RInv

\* The server runs a call whose request reached it: that is the only request
\* of that call, so it had not run and no other message asks for it.
LEMMA RAnswerStep ==
  ASSUME RInv, IInv', ServerAnswer
  PROVE  /\ RInv'
         /\ \/ UNCHANGED executed
            \/ \E t \in 1..calls : /\ executed[t] = 0
                                   /\ executed' = [executed EXCEPT ![t] = 1]
<1>t. StateTypes
  BY DEF RInv, IInv, TypeOK
<1>1. PICK m \in requests, code \in ServerCodes :
        /\ requests' = requests \ {m}
        /\ executed' = IF m.type = "kRpcHeartbeat" THEN executed
                       ELSE [executed EXCEPT ![m.body] = @ + 1]
        /\ responses' = responses \cup
             (IF ~peerUp \/ m_session # "open" THEN {}
              ELSE {IF m.type = "kRpcHeartbeat" THEN Heartbeat
                    ELSE Response(m, code)})
  BY DEF ServerAnswer
<1>2. UNCHANGED <<calls, ticket, pc, recvMsg, rsp, m_chan, sendMsg>>
  BY DEF ServerAnswer
<1>3. CASE m.type = "kRpcHeartbeat"
  <2>1. executed' = executed /\ responses' \subseteq responses \cup {Heartbeat}
        /\ requests' \subseteq requests
    BY <1>1, <1>3
  <2>2. Ran(recvMsg') /\ \A c \in Callers : Ran(rsp'[c])
    BY <1>2 DEF RInv, AnswersRan
  <2>3. \A n \in responses' : Ran(n)
    BY <2>1, HeartbeatOfNoCall DEF RInv, AnswersRan
  <2> QED BY <1>2, <2>1, <2>2, <2>3, RQuietStep
<1>4. CASE m.type # "kRpcHeartbeat"
  <2> DEFINE b == m.body
  <2>1. /\ b \in 1..calls /\ executed[b] = 0
        /\ \A c \in Callers : pc[c] \in Unsent => ticket[c] # b
    BY <1>4 DEF RInv, RequestsUnrun, Unrun
  <2>2. calls \in Nat /\ MaxCalls \in Nat /\ calls <= MaxCalls
        /\ executed \in [1..MaxCalls -> Nat] /\ b \in 1..MaxCalls
    BY <1>t, <2>1, RpcClientAssumption DEF RInv, TicketsFresh, StateTypes
  <2>3. executed' = [executed EXCEPT ![b] = 1]
    BY <1>1, <1>4, <2>1, <2>2
  <2>4. executed'[b] = 1 /\ \A t \in 1..MaxCalls : t # b => executed'[t] = executed[t]
    BY <2>2, <2>3
  <2>5. responses' \subseteq responses \cup {Response(m, code)}
    BY <1>1, <1>4
  <2>6. Response(m, code).body = b /\ Response(m, code).code \in ServerCodes
    BY DEF Response
  <2> HIDE DEF b
  <2>7. ASSUME NEW n, Unrun(n), n.type # "kRpcHeartbeat" => n.body # b
        PROVE  Unrun(n)'
    BY <1>2, <2>2, <2>4, <2>7 DEF Unrun
  <2>8. ASSUME NEW n, Ran(n)
        PROVE  Ran(n)'
    BY <1>2, <2>1, <2>2, <2>4, <2>8 DEF Ran
  <2>9. (\A n \in responses : Ran(n))'
    <3>1. ASSUME NEW n, n = Response(m, code)
          PROVE  Ran(n)'
      BY <1>2, <2>1, <2>4, <2>6, <3>1 DEF Ran
    <3> QED BY <2>5, <2>8, <3>1 DEF RInv, AnswersRan
  <2>10. AnswersRan'
    BY <1>2, <2>8, <2>9, Zenon DEF RInv, AnswersRan
  <2>11. RequestsOnce
    BY DEF RInv
  <2>12. /\ \A i \in 1..Len(m_chan) : m_chan[i].type # "kRpcHeartbeat" => m_chan[i].body # b
         /\ sendMsg.type # "kRpcHeartbeat" => sendMsg.body # b
         /\ \A n \in requests' : n.type # "kRpcHeartbeat" => n.body # b
    BY <1>1, <1>4, <2>11 DEF RequestsOnce, SameCall, b
  <2>13. RequestsUnrun'
    <3>1. Unrun(sendMsg)' /\ (\A i \in 1..Len(m_chan) : Unrun(m_chan[i]))'
      BY <1>2, <2>7, <2>12 DEF RInv, RequestsUnrun
    <3>2. (\A n \in requests : Unrun(n))'
      BY <1>1, <2>7, <2>12 DEF RInv, RequestsUnrun
    <3> QED BY <3>1, <3>2 DEF RequestsUnrun
  <2>14. requests' \subseteq requests
    BY <1>1
  <2>15. RequestsOnce'
    BY <1>2, <2>11, <2>14, SMTT(30) DEF RequestsOnce, SameCall
  <2>16. TicketsFresh'
    <3>1. TicketsFresh
      BY DEF RInv
    <3>2. \A c \in Callers : pc[c] \in Unsent => ticket[c] \in 1..MaxCalls
      BY <2>2, <3>1 DEF TicketsFresh, Unsent
    <3>3. \A t \in 1..MaxCalls : t > calls' => executed'[t] = 0
      BY <1>2, <2>1, <2>2, <2>4, <3>1 DEF TicketsFresh
    <3>4. \A c \in Callers : pc'[c] \in Unsent => executed'[ticket'[c]] = 0
      BY <1>2, <2>1, <2>4, <3>1, <3>2 DEF TicketsFresh
    <3> QED BY <1>2, <3>1, <3>3, <3>4 DEF TicketsFresh
  <2> QED BY <2>1, <2>3, <2>10, <2>13, <2>15, <2>16 DEF RInv
<1> QED BY <1>3, <1>4

\* A heartbeat pushed by the timer asks for no call.
LEMMA RBeatStep ==
  ASSUME RInv, IInv', TimerPush
  PROVE  RInv'
<1>m. m_chan \in Seq(Message) /\ Heartbeat \in Message /\ PushChan(Heartbeat)
  BY MessageTypes DEF RInv, IInv, TypeOK, StateTypes, TimerPush
<1>1. UNCHANGED <<calls, ticket, pc, executed, sendMsg, recvMsg, rsp, requests,
                  responses>>
  BY DEF TimerPush
<1>2. \A m : (Unrun(m) => Unrun(m)') /\ (Ran(m) => Ran(m)')
  BY <1>1, StillUnrun
<1>3. AnswersRan' /\ TicketsFresh'
  BY <1>1, <1>2, Zenon DEF RInv, AnswersRan, TicketsFresh
<1>4. \A m : m = Heartbeat => /\ Unrun(m)
                              /\ \A n : ~SameCall(m, n) /\ ~SameCall(n, m)
  BY HeartbeatOfNoCall
<1>5. CASE m_chan' = m_chan
  BY <1>1, <1>2, <1>3, <1>5, SMTT(30)
  DEF RInv, RequestsUnrun, RequestsOnce, SameCall
<1>6. CASE /\ Len(m_chan') = Len(m_chan) + 1 /\ Len(m_chan) \in Nat
           /\ m_chan'[Len(m_chan) + 1] = Heartbeat
           /\ \A i \in 1..Len(m_chan) : m_chan'[i] = m_chan[i]
  <2>1. \A i \in 1..Len(m_chan') :
          (i \in 1..Len(m_chan) /\ m_chan'[i] = m_chan[i]) \/ m_chan'[i] = Heartbeat
    BY <1>6
  <2>2. (\A i \in 1..Len(m_chan) : Unrun(m_chan[i]))'
    BY <1>2, <1>4, <2>1 DEF RInv, RequestsUnrun
  <2>3. RequestsUnrun'
    BY <1>1, <1>2, <2>2, Zenon DEF RInv, RequestsUnrun
  <2>4. \A i, j \in 1..Len(m_chan') : SameCall(m_chan'[i], m_chan'[j]) => i = j
    BY <1>4, <2>1 DEF RInv, RequestsOnce
  <2>5. \A i \in 1..Len(m_chan') : ~SameCall(m_chan'[i], sendMsg)
    BY <1>4, <2>1 DEF RInv, RequestsOnce
  <2>6. \A i \in 1..Len(m_chan'), m \in requests : ~SameCall(m_chan'[i], m)
    BY <1>4, <2>1 DEF RInv, RequestsOnce
  <2>7. RequestsOnce'
    BY <1>1, <2>4, <2>5, <2>6, Zenon DEF RInv, RequestsOnce, SameCall
  <2> QED BY <1>3, <2>3, <2>7 DEF RInv
<1> QED BY <1>m, <1>5, <1>6, PushChanIndex

\* Every step keeps the invariant.
LEMMA RInvStep == RInv /\ [Next]_vars => RInv'
<1> SUFFICES ASSUME RInv, [Next]_vars
             PROVE  RInv'
  OBVIOUS
<1>i. IInv'
  BY IInvStep DEF RInv
<1>t. StateTypes
  BY DEF RInv, IInv, TypeOK
<1>a. /\ \A m \in responses : Ran(m)
      /\ Ran(recvMsg)
      /\ \A c \in Callers : Ran(rsp[c])
  BY DEF RInv, AnswersRan
<1>h. \A m : m = Heartbeat => Ran(m)
  BY HeartbeatOfNoCall
<1>q. ASSUME UNCHANGED <<calls, executed, m_chan, sendMsg, pc, ticket, rsp>>,
             requests' \subseteq requests, responses' \subseteq responses,
             Ran(recvMsg')
      PROVE  RInv'
  <2>1. /\ \A m \in responses' : Ran(m)
        /\ \A c \in Callers : Ran(rsp'[c])
    BY <1>a, <1>q
  <2> QED BY <1>i, <1>q, <2>1, RQuietStep
<1>1. CASE ConnectSocket \/ ConnectStep
  <2>1. /\ UNCHANGED <<calls, executed, m_chan, sendMsg, pc, ticket, rsp, recvMsg>>
        /\ requests' \subseteq requests /\ responses' \subseteq responses
    BY <1>1 DEF ConnectSocket, ConnectStep, ConnectSession, ConnectGo, ConnectArm
  <2> QED BY <1>a, <1>q, <2>1
<1>2. ASSUME NEW c \in Callers, CallCheck(c)
      PROVE  RInv'
  BY <1>2, <1>i, RCheckStep
<1>3. ASSUME NEW c \in Callers, CallPush(c)
      PROVE  RInv'
  BY <1>3, <1>i, RPushStep
<1>4. ASSUME NEW c \in Callers,
             \/ CallLock(c) \/ CallInsert(c) \/ CallTimeout(c)
             \/ CallEraseLock(c) \/ CallErase(c)
      PROVE  RInv'
  <2>1. UNCHANGED <<calls, executed, m_chan, sendMsg, ticket, recvMsg, requests,
                    responses>>
    BY <1>4 DEF CallLock, CallInsert, CallTimeout, CallEraseLock, CallErase
  <2>2. rsp' = rsp \/ rsp' = [rsp EXCEPT ![c] = Heartbeat]
    BY <1>4 DEF CallLock, CallInsert, CallTimeout, CallEraseLock, CallErase, NoMessage
  <2>3. \A d \in Callers : Ran(rsp'[d])
    BY <1>a, <1>h, <1>t, <2>2 DEF StateTypes
  <2>4. PICK to : /\ pc' = [pc EXCEPT ![c] = to]
                  /\ pc[c] # "idle" /\ (to \in Unsent => pc[c] \in Unsent)
    BY <1>4 DEF CallLock, CallInsert, CallTimeout, CallEraseLock, CallErase, Unsent
  <2>5. \A d \in Callers : /\ pc'[d] \in Unsent => pc[d] \in Unsent
                           /\ pc'[d] # "idle" => pc[d] # "idle"
    BY <1>t, <2>4 DEF StateTypes
  <2> QED BY <1>a, <1>i, <2>1, <2>3, <2>5, RQuietStep
<1>5. CASE SendPop
  BY <1>5, <1>i, RPopStep
<1>6. CASE SendWrite
  BY <1>6, <1>i, RWriteStep
<1>7. CASE SendEnd
  BY <1>7, <1>a, <1>q DEF SendEnd
<1>8. CASE RecvHeartbeat
  <2>1. /\ UNCHANGED <<calls, executed, m_chan, sendMsg, pc, ticket, rsp, recvMsg,
                       requests>>
        /\ responses' \subseteq responses
    BY <1>8 DEF RecvHeartbeat
  <2> QED BY <1>a, <1>q, <2>1
<1>9. CASE RecvResponse
  <2>1. /\ UNCHANGED <<calls, executed, m_chan, sendMsg, pc, ticket, rsp, requests>>
        /\ responses' \subseteq responses
        /\ recvMsg' = recvMsg \/ recvMsg' \in responses
    BY <1>9 DEF RecvResponse
  <2>2. Ran(recvMsg')
    BY <1>a, <2>1
  <2> QED BY <1>q, <2>1, <2>2
<1>10. CASE RecvNull \/ RecvIndex
  <2>1. UNCHANGED <<calls, executed, m_chan, sendMsg, pc, ticket, rsp, recvMsg,
                    requests, responses>>
    BY <1>10 DEF RecvNull, RecvIndex
  <2> QED BY <1>a, <1>q, <2>1
<1>11. CASE RecvPushFail
  <2>1. /\ UNCHANGED <<calls, executed, m_chan, sendMsg, pc, ticket, rsp, requests,
                       responses>>
        /\ recvMsg' = recvMsg \/ recvMsg' = Heartbeat
    BY <1>11 DEF RecvPushFail, NoMessage
  <2>2. Ran(recvMsg')
    BY <1>a, <1>h, <2>1
  <2> QED BY <1>q, <2>1, <2>2
<1>12. ASSUME NEW c \in Callers, RecvDeliver(c)
       PROVE  RInv'
  <2>1. /\ UNCHANGED <<calls, executed, m_chan, sendMsg, ticket, requests, responses>>
        /\ rsp' = [rsp EXCEPT ![c] = recvMsg] /\ recvMsg' = Heartbeat
        /\ pc[c] = "wait" /\ pc' = [pc EXCEPT ![c] = "eraseLock"]
    BY <1>12 DEF RecvDeliver, NoMessage
  <2>2. \A d \in Callers : Ran(rsp'[d])
    BY <1>a, <1>t, <2>1 DEF StateTypes
  <2>3. \A d \in Callers : /\ pc'[d] \in Unsent => pc[d] \in Unsent
                           /\ pc'[d] # "idle" => pc[d] # "idle"
    BY <1>t, <2>1 DEF StateTypes, Unsent
  <2>4. Ran(recvMsg')
    BY <1>h, <2>1
  <2> QED BY <1>a, <1>i, <2>1, <2>2, <2>3, <2>4, RQuietStep
<1>13. CASE TimerFire \/ TimerRearm
  <2>1. UNCHANGED <<calls, executed, m_chan, sendMsg, pc, ticket, rsp, recvMsg,
                    requests, responses>>
    BY <1>13 DEF TimerFire, TimerRearm
  <2> QED BY <1>a, <1>q, <2>1
<1>14. CASE TimerPush
  BY <1>14, <1>i, RBeatStep
<1>15. CASE UserClose \/ PeerClose
  <2>1. UNCHANGED <<calls, executed, m_chan, sendMsg, pc, ticket, rsp, recvMsg,
                    requests, responses>>
    BY <1>15 DEF UserClose, PeerClose
  <2> QED BY <1>a, <1>q, <2>1
<1>16. ASSUME NEW k \in Closers, CloseStep(k)
       PROVE  RInv'
  <2>1. /\ UNCHANGED <<calls, executed, m_chan, sendMsg, pc, ticket, rsp, recvMsg,
                       requests>>
        /\ responses' \subseteq responses
    BY <1>16 DEF CloseStep, CloseCheck, CloseSet, CloseRest
  <2> QED BY <1>a, <1>q, <2>1
<1>17. CASE ServerAnswer
  BY <1>17, <1>i, RAnswerStep
<1>18. CASE UNCHANGED vars
  BY <1>18, <1>a, <1>q DEF vars
<1> QED
  BY <1>1, <1>2, <1>3, <1>4, <1>5, <1>6, <1>7, <1>8, <1>9, <1>10, <1>11,
     <1>12, <1>13, <1>14, <1>15, <1>16, <1>17, <1>18
  DEF Next, CallStep, RecvStep, TimerStep

\* What the abstract specification sees of a step that moves no caller in or
\* out of a call is a stutter.
LEMMA Stutters ==
  ASSUME UNCHANGED <<ticket, outcome, calls, executed>>,
         \A c \in Callers : (pc'[c] # "idle") <=> (pc[c] # "idle")
  PROVE  UNCHANGED Abstract!vars
<1>1. [c \in Callers |-> pc'[c] # "idle"] = [c \in Callers |-> pc[c] # "idle"]
  BY Zenon
<1> QED BY <1>1 DEF Abstract!vars

\* Every step of the client is a step of RpcCall, or a stutter.
LEMMA Simulates == RInv /\ RInv' /\ [Next]_vars => [Abstract!Next]_(Abstract!vars)
<1> SUFFICES ASSUME RInv, RInv', [Next]_vars
             PROVE  [Abstract!Next]_(Abstract!vars)
  OBVIOUS
<1> DEFINE calling == [c \in Callers |-> pc[c] # "idle"]
<1>t. /\ StateTypes
      /\ pc \in [Callers -> InCall \cup {"idle"}]
  BY DEF RInv, IInv, TypeOK, StateTypes
<1>u. ASSUME UNCHANGED <<pc, ticket, outcome, calls, executed>>
      PROVE  UNCHANGED Abstract!vars
  BY <1>u, Stutters
<1>1. CASE ConnectSocket \/ ConnectStep
  BY <1>1, <1>u DEF ConnectSocket, ConnectStep, ConnectSession, ConnectGo, ConnectArm
<1>2. ASSUME NEW c \in Callers, CallCheck(c)
      PROVE  Abstract!Next
  <2>1. /\ pc[c] = "idle" /\ calls < MaxCalls /\ calls' = calls + 1
        /\ ticket' = [ticket EXCEPT ![c] = calls + 1]
        /\ UNCHANGED executed
    BY <1>2 DEF CallCheck
  <2>2. ~calling[c]
    BY <2>1
  <2>3. CASE m_session = "null" \/ m_is_closed
    <3>1. /\ outcome' = [outcome EXCEPT ![c] = "kRpcServerClosed"]
          /\ pc' = pc
      BY <1>2, <2>3 DEF CallCheck
    <3>2. Abstract!Refuse(c)
      BY <2>1, <2>2, <3>1 DEF Abstract!Refuse
    <3> QED BY <3>2 DEF Abstract!Next
  <2>4. CASE ~(m_session = "null" \/ m_is_closed)
    <3>1. /\ outcome' = [outcome EXCEPT ![c] = "none"]
          /\ pc' = [pc EXCEPT ![c] = "lock"]
      BY <1>2, <2>4 DEF CallCheck
    <3>2. calling' = [calling EXCEPT ![c] = TRUE]
      BY <1>t, <3>1
    <3>3. Abstract!Begin(c)
      BY <2>1, <2>2, <3>1, <3>2 DEF Abstract!Begin
    <3> QED BY <3>3 DEF Abstract!Next
  <2> QED BY <2>3, <2>4
<1>3. ASSUME NEW c \in Callers,
             \/ CallLock(c) \/ CallInsert(c) \/ CallPush(c) \/ CallTimeout(c)
             \/ CallEraseLock(c) \/ RecvDeliver(c)
      PROVE  UNCHANGED Abstract!vars
  <2>1. UNCHANGED <<ticket, outcome, calls, executed>>
    BY <1>3 DEF CallLock, CallInsert, CallPush, CallTimeout, CallEraseLock, RecvDeliver
  <2>2. PICK to : pc' = [pc EXCEPT ![c] = to] /\ pc[c] # "idle" /\ to # "idle"
    BY <1>3 DEF CallLock, CallInsert, CallPush, CallTimeout, CallEraseLock, RecvDeliver
  <2>3. \A d \in Callers : (pc'[d] # "idle") <=> (pc[d] # "idle")
    BY <1>t, <2>2
  <2> QED BY <2>1, <2>3, Stutters
<1>4. ASSUME NEW c \in Callers, CallErase(c)
      PROVE  Abstract!Next
  <2>1. /\ pc[c] = "erase" /\ pc' = [pc EXCEPT ![c] = "idle"]
        /\ UNCHANGED <<ticket, calls, executed>>
    BY <1>4 DEF CallErase
  <2>2. PICK o \in CallOutcomes(rsp[c]) : outcome' = [outcome EXCEPT ![c] = o]
    BY <1>4 DEF CallErase
  <2>3. rsp[c] \in Message /\ Ran(rsp[c])
    BY <1>t DEF StateTypes, RInv, AnswersRan
  <2>4. o \in Abstract!LocalOutcomes \cup Abstract!ServerOutcomes
    BY <2>2, <2>3, RpcClientAssumption
    DEF CallOutcomes, Ran, Abstract!LocalOutcomes, Abstract!ServerOutcomes, Message
  <2>5. ASSUME o \in Abstract!ServerOutcomes
        PROVE  executed[ticket[c]] = 1
    <3>1. rsp[c].type = "kRpcMethodResponse"
      BY <2>2, <2>5 DEF CallOutcomes, Abstract!ServerOutcomes
    <3>2. rsp[c].body = ticket[c]
      BY <2>1, <3>1 DEF RInv, IInv, OwnAnswer
    <3> QED BY <2>3, <3>1, <3>2 DEF Ran
  <2>6. calling[c]
    BY <2>1
  <2>7. calling' = [calling EXCEPT ![c] = FALSE]
    BY <1>t, <2>1
  <2>8. Abstract!Return(c, o)
    BY <2>1, <2>2, <2>5, <2>6, <2>7 DEF Abstract!Return
  <2> QED BY <2>4, <2>8 DEF Abstract!Next
<1>5. CASE SendPop \/ SendEnd \/ SendWrite
  BY <1>5, <1>u DEF SendPop, SendEnd, SendWrite
<1>6. CASE RecvHeartbeat \/ RecvResponse \/ RecvNull \/ RecvIndex \/ RecvPushFail
  BY <1>6, <1>u DEF RecvHeartbeat, RecvResponse, RecvNull, RecvIndex, RecvPushFail
<1>7. CASE TimerStep
  BY <1>7, <1>u DEF TimerStep, TimerFire, TimerPush, TimerRearm
<1>8. CASE UserClose \/ PeerClose
  BY <1>8, <1>u DEF UserClose, PeerClose
<1>9. ASSUME NEW k \in Closers, CloseStep(k)
      PROVE  UNCHANGED Abstract!vars
  BY <1>9, <1>u DEF CloseStep, CloseCheck, CloseSet, CloseRest
<1>10. CASE ServerAnswer
  <2>1. UNCHANGED <<pc, ticket, outcome, calls>>
    BY <1>10 DEF ServerAnswer
  <2>2. CASE UNCHANGED executed
    BY <1>u, <2>1, <2>2
  <2>3. ASSUME NEW t \in 1..calls, executed[t] = 0,
               executed' = [executed EXCEPT ![t] = 1]
        PROVE  Abstract!Next
    <3>1. Abstract!Execute(t)
      BY <2>1, <2>3 DEF Abstract!Execute
    <3> QED BY <3>1 DEF Abstract!Next
  <2>4. IInv'
    BY DEF RInv
  <2>5. \/ UNCHANGED executed
        \/ \E t \in 1..calls : executed[t] = 0 /\ executed' = [executed EXCEPT ![t] = 1]
    BY <1>10, <2>4, RAnswerStep
  <2> QED BY <2>2, <2>3, <2>5
<1>11. CASE UNCHANGED vars
  BY <1>11, <1>u DEF vars
<1> QED
  BY <1>1, <1>2, <1>3, <1>4, <1>5, <1>6, <1>7, <1>8, <1>9, <1>10, <1>11
  DEF Next, CallStep, RecvStep

\* RpcClient implements RpcCall (ImplementsRpcCall): whatever the connection,
\* the channel, the table, the heartbeat and close() do, call() runs a call
\* at the server at most once and reports an answer only of a call that ran.
THEOREM ImplementsCall == Spec => ImplementsRpcCall
<1>1. Init => RInv
  BY InitRInv
<1>2. RInv /\ [Next]_vars => RInv'
  BY RInvStep
<1>3. Init => Abstract!Init
  <2> SUFFICES ASSUME Init PROVE Abstract!Init
    OBVIOUS
  <2>1. \A c \in Callers : pc[c] = "idle"
    BY DEF Init
  <2>2. [c \in Callers |-> pc[c] # "idle"] = [c \in Callers |-> FALSE]
    BY <2>1, Zenon
  <2>3. /\ ticket = [c \in Callers |-> 0] /\ outcome = [c \in Callers |-> "none"]
        /\ calls = 0 /\ executed = [t \in 1..MaxCalls |-> 0]
    BY DEF Init
  <2> QED BY <2>2, <2>3, Zenon DEF Abstract!Init
<1>4. RInv /\ RInv' /\ [Next]_vars => [Abstract!Next]_(Abstract!vars)
  BY Simulates
<1> QED
  BY <1>1, <1>2, <1>3, <1>4, PTL DEF Spec, ImplementsRpcCall, Abstract!Spec
=============================================================================
