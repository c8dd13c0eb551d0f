-------------------------- MODULE RegistrySession --------------------------
(***************************************************************************)
(* RpcServer's connection to the service registry (rpc/rpc_server.cpp):    *)
(* bindRegistry, the part of start() that registers the services, the      *)
(* sender and receiver coroutines of the connection and the heartbeat      *)
(* timer.  start() puts its requests in m_registry_send_chan before the    *)
(* coroutine that empties it exists.  The channel is never closed, and the *)
(* connection is never made again.                                         *)
(***************************************************************************)
EXTENDS Naturals, Sequences, FiniteSets

CONSTANTS Services,     \* names of m_services
          ChanSize      \* capacity of m_registry_send_chan, 200 in the code

ASSUME RegistrySessionAssumption == /\ IsFiniteSet(Services)
                                    /\ ChanSize \in Nat \ {0}
                                    /\ Services \cap {"provider", "heartbeat", "none"} = {}

VARIABLES
  m_registry_session,        \* "null", "open", "closed"
  m_registry_send_chan,
  m_registry_heartbeat_rsp,
  main,                      \* step of the thread that binds and starts
  todo,                      \* services start() has still to register
  sender, sendMsg,           \* handleRegistrySessionSend, the message it holds
  receiver,                  \* handleRegistrySessionRecv
  timer,                     \* the heartbeat timer and its callback
  announced, registered,     \* what the registry has received
  asked, answered,           \* a heartbeat on its way there, and back
  peerUp,                    \* has the registry its end open
  hbAnswered                 \* ghost: was the latest heartbeat answered

registry == <<announced, registered, asked, answered, peerUp>>
vars == <<m_registry_session, m_registry_send_chan, m_registry_heartbeat_rsp,
          main, todo, sender, sendMsg, receiver, timer, registry, hbAnswered>>

Message == Services \cup {"provider", "heartbeat"}

Init ==
  /\ m_registry_session = "null" /\ m_registry_send_chan = <<>>
  /\ m_registry_heartbeat_rsp = FALSE
  /\ main = "bind" /\ todo = Services
  /\ sender = "off" /\ sendMsg = "none" /\ receiver = "off" /\ timer = "off"
  /\ announced = FALSE /\ registered = {} /\ asked = FALSE /\ answered = FALSE
  /\ peerUp = FALSE /\ hbAnswered = TRUE

\* A mutant of Push: a full channel grows.
PushUnbounded(m) == m_registry_send_chan' = Append(m_registry_send_chan, m)

\* m_registry_send_chan << m waits for room.
Push(m) == /\ Len(m_registry_send_chan) < ChanSize
           /\ m_registry_send_chan' = Append(m_registry_send_chan, m)

\* A mutant of bindRegistry: the provider is not announced.
bindRegistrySilent ==
  /\ main = "bind"
  /\ m_registry_session' = "open" /\ peerUp' = TRUE
  /\ main' = "start"
  /\ UNCHANGED <<m_registry_send_chan, m_registry_heartbeat_rsp, todo, sender,
                 sendMsg, receiver, timer, announced, registered, asked,
                 answered, hbAnswered>>

\* bindRegistry: the connection is made and the provider announced, or not.
bindRegistry ==
  /\ main = "bind"
  /\ \/ /\ m_registry_session' = "open" /\ peerUp' = TRUE /\ Push("provider")
     \/ UNCHANGED <<m_registry_session, peerUp, m_registry_send_chan>>
  /\ main' = "start"
  /\ UNCHANGED <<m_registry_heartbeat_rsp, todo, sender, sendMsg, receiver, timer,
                 announced, registered, asked, answered, hbAnswered>>

\* start() tests the connection once; without it the server serves alone.
StartTest ==
  /\ main = "start"
  /\ main' = IF m_registry_session = "open" THEN "register" ELSE "serve"
  /\ UNCHANGED <<m_registry_session, m_registry_send_chan, m_registry_heartbeat_rsp,
                 todo, sender, sendMsg, receiver, timer, registry, hbAnswered>>

registerServiceToRegistry ==
  /\ main = "register"
  /\ \E s \in todo : Push(s) /\ todo' = todo \ {s}
  /\ UNCHANGED <<m_registry_session, m_registry_heartbeat_rsp, main, sender,
                 sendMsg, receiver, timer, registry, hbAnswered>>

\* A mutant of StartRest: the sender is not started.
StartRestNoSender ==
  /\ main = "register" /\ todo = {}
  /\ main' = "serve"
  /\ m_registry_heartbeat_rsp' = TRUE /\ timer' = "armed"
  /\ receiver' = "recv"
  /\ UNCHANGED <<m_registry_session, m_registry_send_chan, todo, sender, sendMsg,
                 registry, hbAnswered>>

\* All are in the channel: the timer is armed and the coroutines started.
StartRest ==
  /\ main = "register" /\ todo = {}
  /\ main' = "serve"
  /\ m_registry_heartbeat_rsp' = TRUE /\ timer' = "armed"
  /\ receiver' = "recv" /\ sender' = "pop"
  /\ UNCHANGED <<m_registry_session, m_registry_send_chan, todo, sendMsg,
                 registry, hbAnswered>>

\* A mutant of SendPop: the message stays in the channel.
SendPopPeeks ==
  /\ sender = "pop" /\ m_registry_send_chan # <<>> /\ m_registry_session = "open"
  /\ sender' = "write" /\ sendMsg' = Head(m_registry_send_chan)
  /\ UNCHANGED <<m_registry_session, m_registry_send_chan, m_registry_heartbeat_rsp, main,
                 todo, receiver, timer, registry, hbAnswered>>

\* handleRegistrySessionSend: ends at the first message it cannot send.
SendPop ==
  /\ sender = "pop" /\ m_registry_send_chan # <<>>
  /\ m_registry_send_chan' = Tail(m_registry_send_chan)
  /\ IF m_registry_session = "open"
       THEN sender' = "write" /\ sendMsg' = Head(m_registry_send_chan)
       ELSE sender' = "off" /\ UNCHANGED sendMsg
  /\ UNCHANGED <<m_registry_session, m_registry_heartbeat_rsp, main, todo,
                 receiver, timer, registry, hbAnswered>>

\* What is written is received, if both ends are there.
SendWrite ==
  /\ sender = "write"
  /\ sender' = "pop" /\ sendMsg' = "none"
  /\ LET arrives == m_registry_session = "open" /\ peerUp IN
     /\ announced' = (announced \/ (arrives /\ sendMsg = "provider"))
     /\ registered' = registered \cup
                        (IF arrives THEN {sendMsg} \cap Services ELSE {})
     /\ asked' = (asked \/ (arrives /\ sendMsg = "heartbeat"))
  /\ UNCHANGED <<m_registry_session, m_registry_send_chan, m_registry_heartbeat_rsp,
                 main, todo, receiver, timer, answered, peerUp, hbAnswered>>

\* handleRegistrySessionRecv: answers to registrations change nothing.
RecvHeartbeat ==
  /\ receiver = "recv" /\ answered
  /\ answered' = FALSE
  /\ m_registry_heartbeat_rsp' = TRUE /\ hbAnswered' = TRUE
  /\ UNCHANGED <<m_registry_session, m_registry_send_chan, main, todo, sender,
                 sendMsg, receiver, timer, announced, registered, asked, peerUp>>

\* The session is closed and the timer stopped: an armed one, not a running
\* callback.
RecvNull ==
  /\ receiver = "recv" /\ (~peerUp \/ m_registry_session = "closed")
  /\ m_registry_session' = "closed"
  /\ timer' = IF timer = "armed" THEN "off" ELSE timer
  /\ receiver' = "off"
  /\ UNCHANGED <<m_registry_send_chan, m_registry_heartbeat_rsp, main, todo,
                 sender, sendMsg, registry, hbAnswered>>

\* registry_heartbeat_cb: no answer closes the session and ends the timer.
TimerFire ==
  /\ timer = "armed"
  /\ IF m_registry_heartbeat_rsp
       THEN timer' = "push" /\ UNCHANGED m_registry_session
       ELSE timer' = "off" /\ m_registry_session' = "closed"
  /\ UNCHANGED <<m_registry_send_chan, m_registry_heartbeat_rsp, main, todo,
                 sender, sendMsg, receiver, registry, hbAnswered>>

TimerPush ==
  /\ timer = "push" /\ Push("heartbeat")
  /\ timer' = "rearm" /\ hbAnswered' = FALSE
  /\ UNCHANGED <<m_registry_session, m_registry_heartbeat_rsp, main, todo, sender,
                 sendMsg, receiver, registry>>

\* A mutant of TimerRearm: the flag is not cleared.
TimerRearmKeepsFlag ==
  /\ timer = "rearm"
  /\ timer' = "armed"
  /\ UNCHANGED <<m_registry_session, m_registry_send_chan, m_registry_heartbeat_rsp,
                 main, todo, sender, sendMsg, receiver, registry, hbAnswered>>

\* The timer is armed again and then the flag cleared, in one step: the
\* timer's period is far longer than the callback.
TimerRearm ==
  /\ timer = "rearm"
  /\ timer' = "armed" /\ m_registry_heartbeat_rsp' = FALSE
  /\ UNCHANGED <<m_registry_session, m_registry_send_chan, main, todo, sender,
                 sendMsg, receiver, registry, hbAnswered>>

\* The registry, external: answers a heartbeat, or goes away.
RegistryAnswer ==
  /\ asked /\ peerUp
  /\ asked' = FALSE /\ answered' = TRUE
  /\ UNCHANGED <<m_registry_session, m_registry_send_chan, m_registry_heartbeat_rsp,
                 main, todo, sender, sendMsg, receiver, timer, announced,
                 registered, peerUp, hbAnswered>>

RegistryLeave ==
  /\ peerUp /\ peerUp' = FALSE
  /\ UNCHANGED <<m_registry_session, m_registry_send_chan, m_registry_heartbeat_rsp,
                 main, todo, sender, sendMsg, receiver, timer, announced,
                 registered, asked, answered, hbAnswered>>

MainStep == bindRegistry \/ StartTest \/ registerServiceToRegistry \/ StartRest
TimerStep == TimerFire \/ TimerPush \/ TimerRearm

Next == \/ MainStep \/ SendPop \/ SendWrite \/ RecvHeartbeat \/ RecvNull
        \/ TimerStep \/ RegistryAnswer \/ RegistryLeave

Spec == Init /\ [][Next]_vars

\* Every thread and coroutine that can go on does, an armed timer expires,
\* and a write ends: the registry reads, or its end is closed.
FairSpec == /\ Spec
            /\ WF_vars(MainStep) /\ WF_vars(SendPop) /\ WF_vars(SendWrite)
            /\ WF_vars(RecvHeartbeat) /\ WF_vars(RecvNull) /\ WF_vars(TimerStep)

(***************************************************************************)
(* Properties.                                                             *)
(***************************************************************************)
\* The type of the connection's state.
TypeOK ==
  /\ m_registry_session \in {"null", "open", "closed"}
  /\ m_registry_send_chan \in Seq(Message) /\ Len(m_registry_send_chan) <= ChanSize
  /\ m_registry_heartbeat_rsp \in BOOLEAN
  /\ main \in {"bind", "start", "register", "serve"} /\ todo \subseteq Services
  /\ sender \in {"off", "pop", "write"} /\ sendMsg \in Message \cup {"none"}
  /\ receiver \in {"off", "recv"} /\ timer \in {"off", "armed", "push", "rearm"}
  /\ announced \in BOOLEAN /\ registered \subseteq Services
  /\ asked \in BOOLEAN /\ answered \in BOOLEAN /\ peerUp \in BOOLEAN
  /\ hbAnswered \in BOOLEAN

\* The registry learns the provider's port before the first of its services,
\* which it would otherwise list under the empty address.
AnnouncedFirst == registered # {} => announced

\* What the registry counts on of a provider: its port comes once and first,
\* and each service once, for a service sent again would be listed twice and
\* a second port would leave what is listed under the first behind.
RequestsOnce ==
  [][(sender = "write" /\ sender' = "pop" /\ m_registry_session = "open" /\ peerUp) =>
       /\ sendMsg = "provider" => ~announced
       /\ sendMsg \in Services => announced /\ sendMsg \notin registered]_vars

\* The heartbeats stop once the connection is closed, although StopTimer may
\* come while the callback is about to arm the timer again.
ClosedQuiesces ==
  m_registry_session = "closed" ~> (timer = "off" /\ receiver = "off")

\* A registry that goes silent is given up.
SilentRegistryGivenUp == []<>hbAnswered \/ <>[](m_registry_session = "closed")

\* "Register the services with the registry" (start): a server connected to
\* a registry that stays gets all its services registered.
AllRegistered ==
  m_registry_session = "open" ~>
    (registered = Services \/ ~peerUp \/ m_registry_session = "closed")
=============================================================================
