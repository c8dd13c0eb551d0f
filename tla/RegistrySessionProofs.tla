----------------------- MODULE RegistrySessionProofs -----------------------
(***************************************************************************)
(* Proofs about RegistrySession for any services and any channel size.     *)
(***************************************************************************)
EXTENDS RegistrySession, TLAPS

(***************************************************************************)
(* The inductive invariant.  That the registry hears of the provider       *)
(* before its services is a matter of order over several steps: the        *)
(* announcement is put into the channel first, the sender takes messages   *)
(* out in order, and after a message that is lost on the way, or dropped   *)
(* by a sender that ends, no other arrives.                                *)
(***************************************************************************)
\* Until start() has put its requests into the channel nobody empties it,
\* and before bindRegistry there is nothing in it and no connection.
StartedLast ==
  /\ main # "serve" => /\ sender = "off" /\ receiver = "off" /\ timer = "off"
                       /\ registered = {}
  /\ main = "bind" => m_registry_send_chan = <<>> /\ m_registry_session = "null"

\* No message can arrive any more.
Severed == main # "bind" /\ (m_registry_session # "open" \/ ~peerUp)

\* The announcement is ahead of every other message.
AnnouncementAhead ==
  \/ sender = "write" /\ sendMsg = "provider"
  \/ /\ sender # "write"
     /\ Len(m_registry_send_chan) > 0 /\ m_registry_send_chan[1] = "provider"

IInv == /\ TypeOK /\ StartedLast /\ AnnouncedFirst
        /\ main = "bind" \/ announced \/ Severed \/ AnnouncementAhead

USE DEF registry

(***************************************************************************)
(* Type correctness.                                                       *)
(***************************************************************************)
\* A push keeps the channel within its capacity, with what was at its head.
LEMMA PushType ==
  ASSUME NEW m \in Message, m_registry_send_chan \in Seq(Message), Push(m)
  PROVE  /\ m_registry_send_chan' \in Seq(Message)
         /\ Len(m_registry_send_chan') <= ChanSize
         /\ Len(m_registry_send_chan') > 0
         /\ m_registry_send_chan'[1] =
              IF Len(m_registry_send_chan) = 0 THEN m ELSE m_registry_send_chan[1]
BY RegistrySessionAssumption DEF Push

\* The Boolean variables, and the others.
FlagTypes == /\ m_registry_heartbeat_rsp \in BOOLEAN /\ announced \in BOOLEAN
             /\ asked \in BOOLEAN /\ answered \in BOOLEAN /\ peerUp \in BOOLEAN
             /\ hbAnswered \in BOOLEAN
StateTypes ==
  /\ m_registry_session \in {"null", "open", "closed"}
  /\ m_registry_send_chan \in Seq(Message) /\ Len(m_registry_send_chan) <= ChanSize
  /\ main \in {"bind", "start", "register", "serve"} /\ todo \subseteq Services
  /\ sender \in {"off", "pop", "write"} /\ sendMsg \in Message \cup {"none"}
  /\ receiver \in {"off", "recv"} /\ timer \in {"off", "armed", "push", "rearm"}
  /\ registered \subseteq Services

\* Together they are the type invariant.
LEMMA TypeParts == TypeOK <=> FlagTypes /\ StateTypes
BY Zenon DEF TypeOK, FlagTypes, StateTypes

\* The initial state has its type.
LEMMA InitType == Init => TypeOK
<1> SUFFICES ASSUME Init PROVE FlagTypes /\ StateTypes
  BY TypeParts
<1>1. FlagTypes
  BY Zenon DEF Init, FlagTypes
<1>2. StateTypes
  BY RegistrySessionAssumption DEF Init, StateTypes
<1> QED BY <1>1, <1>2

\* Every step keeps the Boolean variables Boolean.
LEMMA FlagTypesStep == FlagTypes /\ [Next]_vars => FlagTypes'
<1> SUFFICES ASSUME FlagTypes, [Next]_vars
             PROVE  FlagTypes'
  OBVIOUS
<1>1. CASE MainStep
  BY <1>1, Zenon DEF FlagTypes, MainStep, bindRegistry, StartTest,
     registerServiceToRegistry, StartRest
<1>2. CASE SendPop \/ SendWrite
  BY <1>2, Zenon DEF FlagTypes, SendPop, SendWrite
<1>3. CASE RecvHeartbeat \/ RecvNull
  BY <1>3, Zenon DEF FlagTypes, RecvHeartbeat, RecvNull
<1>4. CASE TimerStep
  BY <1>4, Zenon DEF FlagTypes, TimerStep, TimerFire, TimerPush, TimerRearm
<1>5. CASE RegistryAnswer \/ RegistryLeave
  BY <1>5, Zenon DEF FlagTypes, RegistryAnswer, RegistryLeave
<1>6. CASE UNCHANGED vars
  BY <1>6, Zenon DEF FlagTypes, vars
<1> QED BY <1>1, <1>2, <1>3, <1>4, <1>5, <1>6 DEF Next

\* Every step keeps the type of the others.
LEMMA StateTypesStep == StateTypes /\ [Next]_vars => StateTypes'
<1> SUFFICES ASSUME StateTypes, [Next]_vars
             PROVE  StateTypes'
  OBVIOUS
<1> USE RegistrySessionAssumption DEF StateTypes, Message
<1>1. CASE bindRegistry
  BY <1>1, PushType DEF bindRegistry
<1>2. CASE StartTest
  BY <1>2 DEF StartTest
<1>3. CASE registerServiceToRegistry
  BY <1>3, PushType DEF registerServiceToRegistry
<1>4. CASE StartRest
  BY <1>4 DEF StartRest
<1>5. CASE SendPop
  BY <1>5 DEF SendPop
<1>6. CASE SendWrite
  BY <1>6 DEF SendWrite
<1>7. CASE RecvHeartbeat
  BY <1>7 DEF RecvHeartbeat
<1>8. CASE RecvNull
  BY <1>8 DEF RecvNull
<1>9. CASE TimerFire
  BY <1>9 DEF TimerFire
<1>10. CASE TimerPush
  BY <1>10, PushType DEF TimerPush
<1>11. CASE TimerRearm
  BY <1>11 DEF TimerRearm
<1>12. CASE RegistryAnswer
  BY <1>12 DEF RegistryAnswer
<1>13. CASE RegistryLeave
  BY <1>13 DEF RegistryLeave
<1>14. CASE UNCHANGED vars
  BY <1>14 DEF vars
<1> QED
  BY <1>1, <1>2, <1>3, <1>4, <1>5, <1>6, <1>7, <1>8, <1>9, <1>10, <1>11,
     <1>12, <1>13, <1>14
     DEF Next, MainStep, TimerStep

\* Every step keeps the types.
LEMMA TypeStep == TypeOK /\ [Next]_vars => TypeOK'
BY FlagTypesStep, StateTypesStep, TypeParts, PTL

\* The connection's state keeps its type: in particular no push, of start()
\* or of the heartbeat timer, takes the channel beyond its capacity.
THEOREM TypeCorrect == Spec => []TypeOK
<1>1. Init => TypeOK
  BY InitType
<1>2. TypeOK /\ [Next]_vars => TypeOK'
  BY TypeStep
<1> QED BY <1>1, <1>2, PTL DEF Spec

(***************************************************************************)
(* The invariant.                                                          *)
(***************************************************************************)
\* Every step keeps the invariant.
LEMMA IInvStep == IInv /\ [Next]_vars => IInv'
<1> SUFFICES ASSUME IInv, [Next]_vars
             PROVE  IInv'
  OBVIOUS
<1>t. TypeOK /\ TypeOK'
  BY TypeStep DEF IInv
<1> USE RegistrySessionAssumption DEF IInv, StartedLast, Severed, AnnouncementAhead,
        AnnouncedFirst
<1>1. CASE bindRegistry
  BY <1>t, <1>1, PushType DEF bindRegistry, TypeOK, Message
<1>2. CASE StartTest
  BY <1>t, <1>2 DEF StartTest, TypeOK, Message
<1>3. CASE registerServiceToRegistry
  BY <1>t, <1>3, PushType DEF registerServiceToRegistry, TypeOK, Message
<1>4. CASE StartRest
  BY <1>t, <1>4 DEF StartRest, TypeOK, Message
<1>5. CASE SendPop
  BY <1>t, <1>5 DEF SendPop, TypeOK, Message
<1>6. CASE SendWrite
  BY <1>t, <1>6 DEF SendWrite, TypeOK, Message
<1>7. CASE RecvHeartbeat
  BY <1>t, <1>7 DEF RecvHeartbeat, TypeOK, Message
<1>8. CASE RecvNull
  BY <1>t, <1>8 DEF RecvNull, TypeOK, Message
<1>9. CASE TimerFire
  BY <1>t, <1>9 DEF TimerFire, TypeOK, Message
<1>10. CASE TimerPush
  BY <1>t, <1>10, PushType DEF TimerPush, TypeOK, Message
<1>11. CASE TimerRearm
  BY <1>t, <1>11 DEF TimerRearm, TypeOK, Message
<1>12. CASE RegistryAnswer
  BY <1>t, <1>12 DEF RegistryAnswer, TypeOK, Message
<1>13. CASE RegistryLeave
  BY <1>t, <1>13 DEF RegistryLeave, TypeOK, Message
<1>14. CASE UNCHANGED vars
  BY <1>t, <1>14 DEF vars
<1> QED
  BY <1>1, <1>2, <1>3, <1>4, <1>5, <1>6, <1>7, <1>8, <1>9, <1>10, <1>11,
     <1>12, <1>13, <1>14
     DEF Next, MainStep, TimerStep

\* Whatever is lost, and whenever the connection ends, the registry never
\* gets a service of a provider it has not heard the port of.
THEOREM AnnouncementFirst == Spec => []AnnouncedFirst
<1>1. Init => IInv
  BY InitType DEF Init, IInv, StartedLast, AnnouncedFirst
<1>2. IInv /\ [Next]_vars => IInv'
  BY IInvStep
<1>3. IInv => AnnouncedFirst
  BY DEF IInv
<1> QED BY <1>1, <1>2, <1>3, PTL DEF Spec
(***************************************************************************)
(* RequestsOnce: a request is at one place at a time.  It is still to be   *)
(* made, in the channel at one position, in the sender's hand, or with the *)
(* registry, or it was lost; it goes on from each place and never back.    *)
(***************************************************************************)
ToMake(m) == m \in todo \/ (m = "provider" /\ main = "bind")
Queued(m) == \E i \in 1..Len(m_registry_send_chan) : m_registry_send_chan[i] = m
InHand(m) == sender = "write" /\ sendMsg = m
Arrived(m) == m \in registered \/ (m = "provider" /\ announced)

Requests == Services \cup {"provider"}

OnePlace ==
  \A m \in Requests :
    /\ ToMake(m) => ~Queued(m) /\ ~InHand(m) /\ ~Arrived(m)
    /\ Queued(m) => ~InHand(m) /\ ~Arrived(m)
    /\ InHand(m) => ~Arrived(m)
    /\ \A i, j \in 1..Len(m_registry_send_chan) :
         m_registry_send_chan[i] = m /\ m_registry_send_chan[j] = m => i = j

\* A push puts one message at the end.
LEMMA PushQueues ==
  ASSUME NEW k \in Message, m_registry_send_chan \in Seq(Message), Push(k),
         NEW m \in Requests
  PROVE  /\ Queued(m)' <=> Queued(m) \/ m = k
         /\ (/\ \A i, j \in 1..Len(m_registry_send_chan) :
                  m_registry_send_chan[i] = m /\ m_registry_send_chan[j] = m => i = j
             /\ m = k => ~Queued(m))
            => \A i, j \in 1..Len(m_registry_send_chan') :
                 m_registry_send_chan'[i] = m /\ m_registry_send_chan'[j] = m => i = j
<1> DEFINE q == m_registry_send_chan
<1>1. /\ Len(q') = Len(q) + 1 /\ Len(q) \in Nat /\ q'[Len(q) + 1] = k
      /\ \A i \in 1..Len(q) : q'[i] = q[i]
  BY DEF Push
<1> HIDE DEF q
<1>2. \A i \in 1..Len(q') : i \in 1..Len(q) \/ i = Len(q) + 1
  BY <1>1
<1>3. \A i \in 1..Len(q) : i \in 1..Len(q')
  BY <1>1
<1>4. Len(q) + 1 \in 1..Len(q')
  BY <1>1
<1>5. Queued(m) <=> \E i \in 1..Len(q) : q[i] = m
  BY DEF Queued, q
<1>6. Queued(m)' <=> \E i \in 1..Len(q') : q'[i] = m
  BY DEF Queued, q
<1>7. Queued(m)' <=> Queued(m) \/ m = k
  BY <1>1, <1>2, <1>3, <1>4, <1>5, <1>6
<1>8. ASSUME \A i, j \in 1..Len(q) : q[i] = m /\ q[j] = m => i = j,
             m = k => ~Queued(m)
      PROVE  \A i, j \in 1..Len(q') : q'[i] = m /\ q'[j] = m => i = j
  <2> SUFFICES ASSUME NEW i \in 1..Len(q'), NEW j \in 1..Len(q'), q'[i] = m, q'[j] = m
               PROVE  i = j
    OBVIOUS
  <2>1. CASE m = k
    BY <1>1, <1>2, <1>5, <1>8, <2>1
  <2>2. CASE m # k
    BY <1>1, <1>2, <1>8, <2>2
  <2> QED BY <2>1, <2>2
<1> QED BY <1>7, <1>8 DEF q

\* A pop takes the head out, and with it the one place of that request.
LEMMA PopQueues ==
  ASSUME m_registry_send_chan \in Seq(Message), m_registry_send_chan # <<>>,
         m_registry_send_chan' = Tail(m_registry_send_chan), NEW m \in Requests,
         \A i, j \in 1..Len(m_registry_send_chan) :
           m_registry_send_chan[i] = m /\ m_registry_send_chan[j] = m => i = j
  PROVE  /\ Queued(m)' => Queued(m) /\ m # Head(m_registry_send_chan)
         /\ m = Head(m_registry_send_chan) => Queued(m)
         /\ \A i, j \in 1..Len(m_registry_send_chan') :
              m_registry_send_chan'[i] = m /\ m_registry_send_chan'[j] = m => i = j
<1> DEFINE q == m_registry_send_chan
<1>1. /\ Len(q) \in Nat /\ Len(q) > 0 /\ Len(q') = Len(q) - 1 /\ Head(q) = q[1]
      /\ \A i \in 1..Len(q') : q'[i] = q[i + 1]
  OBVIOUS
<1> HIDE DEF q
<1>2. \A i \in 1..Len(q') : i + 1 \in 1..Len(q) /\ i + 1 # 1
  BY <1>1
<1>3. 1 \in 1..Len(q)
  BY <1>1
<1>4. Queued(m) <=> \E i \in 1..Len(q) : q[i] = m
  BY DEF Queued, q
<1>5. Queued(m)' <=> \E i \in 1..Len(q') : q'[i] = m
  BY DEF Queued, q
<1>6. \A i, j \in 1..Len(q) : q[i] = m /\ q[j] = m => i = j
  BY DEF q
<1>7. ASSUME Queued(m)' PROVE Queued(m) /\ m # Head(q)
  <2>1. PICK i \in 1..Len(q') : q'[i] = m
    BY <1>5, <1>7
  <2>2. i + 1 \in 1..Len(q) /\ i + 1 # 1 /\ q[i + 1] = m
    BY <1>1, <1>2, <2>1
  <2>3. m # q[1]
    BY <1>3, <1>6, <2>2
  <2> QED BY <1>1, <1>4, <2>2, <2>3
<1>8. m = Head(q) => Queued(m)
  BY <1>1, <1>3, <1>4
<1>9. ASSUME NEW i \in 1..Len(q'), NEW j \in 1..Len(q'), q'[i] = m, q'[j] = m
      PROVE  i = j
  <2>1. q[i + 1] = m /\ q[j + 1] = m /\ i + 1 \in 1..Len(q) /\ j + 1 \in 1..Len(q)
    BY <1>1, <1>2, <1>9
  <2>2. i + 1 = j + 1
    BY <1>6, <2>1
  <2> QED BY <2>2
<1> QED BY <1>7, <1>8, <1>9 DEF q

\* A step that leaves every request where it is, or loses it.
LEMMA NothingMoves ==
  ASSUME OnePlace, UNCHANGED m_registry_send_chan,
         \A m \in Requests : /\ ToMake(m)' => ToMake(m)
                             /\ InHand(m)' => InHand(m)
                             /\ Arrived(m)' => Arrived(m)
  PROVE  OnePlace'
<1>1. \A m : Queued(m)' <=> Queued(m)
  BY DEF Queued
<1> QED BY <1>1 DEF OnePlace

\* Every step keeps each request at one place.
LEMMA OnePlaceStep == IInv /\ OnePlace /\ [Next]_vars => OnePlace'
<1> SUFFICES ASSUME IInv, OnePlace, [Next]_vars
             PROVE  OnePlace'
  OBVIOUS
<1>t. m_registry_send_chan \in Seq(Message) /\ todo \subseteq Services
  BY DEF IInv, TypeOK
<1>n. /\ "provider" \in Message /\ "heartbeat" \in Message /\ Services \subseteq Message
      /\ "heartbeat" \notin Requests /\ "provider" \notin Services /\ "provider" \in Requests
  BY RegistrySessionAssumption DEF Message, Requests
<1>p. ASSUME NEW k \in Message, Push(k), k \in Requests => ToMake(k),
             \A m \in Requests : /\ ToMake(m)' => ToMake(m) /\ m # k
                                 /\ InHand(m)' <=> InHand(m)
                                 /\ Arrived(m)' <=> Arrived(m)
      PROVE  OnePlace'
  <2> SUFFICES ASSUME NEW m \in Requests
               PROVE  /\ ToMake(m)' => ~Queued(m)' /\ ~InHand(m)' /\ ~Arrived(m)'
                      /\ Queued(m)' => ~InHand(m)' /\ ~Arrived(m)'
                      /\ InHand(m)' => ~Arrived(m)'
                      /\ \A i, j \in 1..Len(m_registry_send_chan') :
                           /\ m_registry_send_chan'[i] = m /\ m_registry_send_chan'[j] = m
                           => i = j
    BY DEF OnePlace
  <2>1. Queued(m)' <=> Queued(m) \/ m = k
    BY <1>t, <1>p, PushQueues
  <2>2. m = k => ToMake(m) /\ ~Queued(m)
    BY <1>p DEF OnePlace
  <2>3. \A i, j \in 1..Len(m_registry_send_chan') :
          m_registry_send_chan'[i] = m /\ m_registry_send_chan'[j] = m => i = j
    BY <1>t, <1>p, <2>2, PushQueues DEF OnePlace
  <2> QED BY <1>p, <2>1, <2>2, <2>3 DEF OnePlace
<1>1. CASE bindRegistry
  <2>1. /\ main = "bind" /\ main' = "start"
        /\ UNCHANGED <<todo, sender, sendMsg, announced, registered>>
    BY <1>1 DEF bindRegistry
  <2>2. \A m \in Requests : /\ ToMake(m)' => ToMake(m) /\ m # "provider"
                            /\ (InHand(m)' <=> InHand(m)) /\ (Arrived(m)' <=> Arrived(m))
    BY <1>t, <1>n, <2>1 DEF ToMake, InHand, Arrived
  <2>3. CASE Push("provider")
    BY <1>n, <1>p, <2>1, <2>2, <2>3 DEF ToMake
  <2>4. CASE UNCHANGED m_registry_send_chan
    BY <2>2, <2>4, NothingMoves
  <2> QED BY <1>1, <2>3, <2>4 DEF bindRegistry
<1>2. CASE registerServiceToRegistry
  <2>1. PICK s \in todo : Push(s) /\ todo' = todo \ {s}
    BY <1>2 DEF registerServiceToRegistry
  <2>2. UNCHANGED <<main, sender, sendMsg, announced, registered>> /\ main = "register"
    BY <1>2 DEF registerServiceToRegistry
  <2>3. \A m \in Requests : /\ ToMake(m)' => ToMake(m) /\ m # s
                            /\ (InHand(m)' <=> InHand(m)) /\ (Arrived(m)' <=> Arrived(m))
    BY <2>1, <2>2 DEF ToMake, InHand, Arrived
  <2>4. s \in Message /\ ToMake(s)
    BY <1>t, <1>n DEF ToMake
  <2> QED BY <1>p, <2>1, <2>3, <2>4
<1>3. CASE TimerPush
  <2>1. Push("heartbeat") /\ UNCHANGED <<main, todo, sender, sendMsg, announced, registered>>
    BY <1>3 DEF TimerPush
  <2>2. \A m \in Requests : /\ ToMake(m)' => ToMake(m) /\ m # "heartbeat"
                            /\ (InHand(m)' <=> InHand(m)) /\ (Arrived(m)' <=> Arrived(m))
    BY <1>n, <2>1 DEF ToMake, InHand, Arrived
  <2> QED BY <1>n, <1>p, <2>1, <2>2
<1>4. CASE SendPop
  <2>1. /\ m_registry_send_chan # <<>> /\ m_registry_send_chan' = Tail(m_registry_send_chan)
        /\ sender = "pop" /\ UNCHANGED <<main, todo, announced, registered>>
        /\ sender' = "write" => sendMsg' = Head(m_registry_send_chan)
    BY <1>4 DEF SendPop
  <2> SUFFICES ASSUME NEW m \in Requests
               PROVE  /\ ToMake(m)' => ~Queued(m)' /\ ~InHand(m)' /\ ~Arrived(m)'
                      /\ Queued(m)' => ~InHand(m)' /\ ~Arrived(m)'
                      /\ InHand(m)' => ~Arrived(m)'
                      /\ \A i, j \in 1..Len(m_registry_send_chan') :
                           /\ m_registry_send_chan'[i] = m /\ m_registry_send_chan'[j] = m
                           => i = j
    BY DEF OnePlace
  <2>2. ToMake(m)' <=> ToMake(m)
    BY <2>1 DEF ToMake
  <2>3. Arrived(m)' <=> Arrived(m)
    BY <2>1 DEF Arrived
  <2>4. InHand(m)' => m = Head(m_registry_send_chan)
    BY <2>1 DEF InHand
  <2>5. \A i, j \in 1..Len(m_registry_send_chan) :
          m_registry_send_chan[i] = m /\ m_registry_send_chan[j] = m => i = j
    BY DEF OnePlace
  <2>6. /\ Queued(m)' => Queued(m) /\ m # Head(m_registry_send_chan)
        /\ m = Head(m_registry_send_chan) => Queued(m)
        /\ \A i, j \in 1..Len(m_registry_send_chan') :
             m_registry_send_chan'[i] = m /\ m_registry_send_chan'[j] = m => i = j
    BY <1>t, <2>1, <2>5, PopQueues
  <2> QED BY <2>2, <2>3, <2>4, <2>6 DEF OnePlace
<1>5. CASE SendWrite
  <2>1. /\ sender = "write" /\ sender' = "pop" /\ UNCHANGED <<m_registry_send_chan, main, todo>>
        /\ registered' \subseteq registered \cup ({sendMsg} \cap Services)
        /\ announced' => announced \/ sendMsg = "provider"
    BY <1>5 DEF SendWrite
  <2>2. \A m \in Requests : /\ (ToMake(m)' <=> ToMake(m)) /\ ~InHand(m)'
                            /\ Arrived(m)' => Arrived(m) \/ InHand(m)
    BY <2>1 DEF ToMake, InHand, Arrived
  <2>3. \A m \in Requests : Queued(m)' <=> Queued(m)
    BY <2>1 DEF Queued
  <2> QED BY <2>1, <2>2, <2>3 DEF OnePlace
<1>6. CASE \/ StartTest \/ StartRest \/ RecvHeartbeat \/ RecvNull \/ TimerFire \/ TimerRearm
           \/ RegistryAnswer \/ RegistryLeave \/ UNCHANGED vars
  <2>1. /\ UNCHANGED <<m_registry_send_chan, todo, sendMsg, announced, registered>>
        /\ main' = "bind" => main = "bind"
        /\ sender' = "write" => sender = "write"
    BY <1>6 DEF StartTest, StartRest, RecvHeartbeat, RecvNull, TimerFire, TimerRearm,
       RegistryAnswer, RegistryLeave, vars
  <2>2. \A m \in Requests : /\ ToMake(m)' => ToMake(m)
                            /\ InHand(m)' => InHand(m)
                            /\ Arrived(m)' => Arrived(m)
    BY <2>1 DEF ToMake, InHand, Arrived
  <2> QED BY <2>1, <2>2, NothingMoves
<1> QED BY <1>1, <1>2, <1>3, <1>4, <1>5, <1>6 DEF Next, MainStep, TimerStep

\* A request that is in the sender's hand has not arrived, and if the
\* connection is there and it is a service, the announcement has.
LEMMA HandedOnce ==
  ASSUME IInv, OnePlace, sender = "write", m_registry_session = "open", peerUp
  PROVE  /\ sendMsg = "provider" => ~announced
         /\ sendMsg \in Services => announced /\ sendMsg \notin registered
<1>1. ASSUME sendMsg = "provider" PROVE ~announced
  <2>1. sendMsg \in Requests /\ InHand(sendMsg)
    BY <1>1 DEF Requests, InHand
  <2> QED BY <1>1, <2>1 DEF OnePlace, Arrived
<1>2. ASSUME sendMsg \in Services PROVE announced /\ sendMsg \notin registered
  <2>1. sendMsg \in Requests /\ InHand(sendMsg)
    BY <1>2 DEF Requests, InHand
  <2>2. sendMsg \notin registered
    BY <2>1 DEF OnePlace, Arrived
  <2>3. sendMsg # "provider"
    BY <1>2, RegistrySessionAssumption
  <2>4. ~Severed /\ ~AnnouncementAhead /\ main # "bind"
    BY <2>3 DEF IInv, StartedLast, Severed, AnnouncementAhead
  <2> QED BY <2>2, <2>4 DEF IInv
<1> QED BY <1>1, <1>2

\* However often the timer and start() push, and whatever is lost, the
\* registry gets the port of a provider once and first, and each of its
\* services at most once: the order RpcServiceRegistry takes for granted.
THEOREM RequestsArriveOnce == Spec => RequestsOnce
<1>1. Init => IInv /\ OnePlace
  <2>1. Init => IInv
    BY InitType DEF Init, IInv, StartedLast, AnnouncedFirst
  <2>2. Init => OnePlace
    BY DEF Init, OnePlace, Queued, InHand, Arrived
  <2> QED BY <2>1, <2>2
<1>2. IInv /\ OnePlace /\ [Next]_vars => (IInv /\ OnePlace)'
  BY IInvStep, OnePlaceStep
<1>3. IInv /\ OnePlace =>
        [(sender = "write" /\ sender' = "pop" /\ m_registry_session = "open" /\ peerUp) =>
           /\ sendMsg = "provider" => ~announced
           /\ sendMsg \in Services => announced /\ sendMsg \notin registered]_vars
  BY HandedOnce
<1> QED BY <1>1, <1>2, <1>3, PTL DEF Spec, RequestsOnce
=============================================================================
