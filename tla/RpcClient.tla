----------------------------- MODULE RpcClient -----------------------------
(***************************************************************************)
(* RpcClient of rpc/rpc_client.{h,cpp}: the coroutines that call, the      *)
(* sender and receiver coroutines of the connection, the heartbeat timer,  *)
(* and close(), which the user, the receiver and the timer all run.  They  *)
(* are scheduled on several threads, so every step on shared state may     *)
(* interleave with every other.                                            *)
(*                                                                         *)
(* libgo (channels, mutex, timer, scheduler) and the server at the other   *)
(* end of the TCP connection are external and modelled from their use.     *)
(* Undefined behaviour of the code (an unlocked access of the table while  *)
(* another thread holds m_guard, a channel destroyed under its user, the   *)
(* uninitialised m_worker) is a choice between the sensible outcome and a  *)
(* crash of the process.                                                   *)
(***************************************************************************)
EXTENDS Naturals, Sequences, FiniteSets

CONSTANTS Callers,      \* coroutines calling through this client
          ChanSize,     \* rpc_client.channel_size, capacity of m_chan
          MaxCalls,     \* bound: calls made in a behaviour
          MaxConnects,  \* bound: successful connects in a behaviour
          TimerArmed,   \* bound: FALSE stops connect() before it arms the timer
          CallTimed,    \* FALSE iff rpc_client.method_call_timeout is -1
          ServerCodes   \* codes the server answers with

ASSUME RpcClientAssumption == /\ ChanSize \in Nat \ {0}
                              /\ MaxCalls \in Nat
                              /\ MaxConnects \in Nat
                              /\ TimerArmed \in BOOLEAN
                              /\ CallTimed \in BOOLEAN
                              /\ ServerCodes \subseteq {"kRpcSuccess", "kRpcNoMethod"}
                              /\ "none" \notin Callers

VARIABLES
  m_is_closed, m_session, m_seq_id, m_guard, m_is_heartbeat_response,
  m_outstanding_call,   \* ids the table has an entry for
  orphaned,             \* ids whose entry operator[] made: nobody's channel
  m_chan, chanClosed,   \* the queue of messages to send; is it closed
  pc, id, rsp,          \* of each caller: step, sequence number, answer
  outcome,              \* of each caller: code of its latest call
  sender, sendMsg,      \* handleSend and the message it holds
  receiver, recvMsg,    \* handleRecv and the message it holds
  timer,                \* the heartbeat timer and its callback
  closer,               \* close(), as run by each of Closers
  requests, responses,  \* messages at, and coming back from, the server
  peerUp,               \* has the server its end of the connection open
  crashed,              \* has undefined behaviour ended the process
  connects,             \* connects so far
  connecting,           \* the step connect() has come to
  calls, ticket,        \* ghosts: calls made, number of a caller's call
  executed,             \* ghost: how often the server ran each call
  hbAnswered            \* ghost: was the latest heartbeat answered

callVars == <<pc, id, rsp, outcome, ticket>>
tableVars == <<m_seq_id, m_outstanding_call, orphaned>>
connVars == <<m_is_closed, m_session, connects, connecting>>
chanVars == <<m_chan, chanClosed>>
coVars == <<sender, sendMsg, receiver, recvMsg>>
hbVars == <<m_is_heartbeat_response, timer, hbAnswered>>
netVars == <<requests, responses, peerUp, executed>>
vars == <<callVars, tableVars, m_guard, connVars, chanVars, coVars, hbVars,
          netVars, closer, crashed, calls>>

Closers == {"user", "receiver", "timer"}

(***************************************************************************)
(* Messages.  "body" stands for the payload: the number of the call whose  *)
(* arguments, or result, it is.                                            *)
(***************************************************************************)
Codes == ServerCodes \cup {"kRpcDefault"}
Message == [type : {"kRpcHeartbeat", "kRpcMethodRequest", "kRpcMethodResponse"},
            seq : Nat, body : Nat, code : Codes]
Heartbeat == [type |-> "kRpcHeartbeat", seq |-> 0, body |-> 0, code |-> "kRpcDefault"]
Request(s, b) ==
  [type |-> "kRpcMethodRequest", seq |-> s, body |-> b, code |-> "kRpcDefault"]
Response(m, c) ==
  [type |-> "kRpcMethodResponse", seq |-> m.seq, body |-> m.body, code |-> c]

\* The value of a message variable that holds none; only its type is read.
NoMessage == Heartbeat

Outcomes == {"kRpcDefault", "kRpcServerClosed", "kRpcCallTimeout",
             "kRpcSuccess", "kRpcNoMethod", "kRpcRetTypeNotMatch"}

InCall == {"lock", "insert", "push", "wait", "eraseLock", "erase"}

\* The steps of a call between the insertion and the erasure of its entry.
Registered == {"push", "wait", "eraseLock", "erase"}

Init ==
  /\ m_is_closed = TRUE /\ m_session = "null"
  /\ connects = 0 /\ connecting = "no"
  /\ m_seq_id = 0 /\ m_outstanding_call = {} /\ orphaned = {}
  /\ m_guard = "none"
  /\ m_chan = <<>> /\ chanClosed = FALSE
  /\ pc = [c \in Callers |-> "idle"]
  /\ id = [c \in Callers |-> 0]
  /\ rsp = [c \in Callers |-> NoMessage]
  /\ outcome = [c \in Callers |-> "none"]
  /\ ticket = [c \in Callers |-> 0]
  /\ sender = "off" /\ sendMsg = NoMessage
  /\ receiver = "off" /\ recvMsg = NoMessage
  /\ m_is_heartbeat_response = FALSE /\ timer = "off"
  /\ hbAnswered = TRUE
  /\ closer = [k \in Closers |-> "idle"]
  /\ requests = {} /\ responses = {} /\ peerUp = FALSE
  /\ executed = [t \in 1..MaxCalls |-> 0]
  /\ crashed = FALSE /\ calls = 0

(***************************************************************************)
(* connect().  A connect that fails changes nothing.  Each step may meet a *)
(* close(): of the user, and from "go" on of the receiver.  A client is    *)
(* reconnected here only after what the earlier connection started has     *)
(* ended.                                                                  *)
(***************************************************************************)
ConnectSocket ==
  /\ ~crashed /\ connecting = "no" /\ connects < MaxConnects
  /\ m_is_closed
  /\ sender = "off" /\ receiver = "off" /\ timer = "off"
  /\ \A k \in Closers : closer[k] = "idle"
  /\ connects' = connects + 1 /\ connecting' = "session"
  /\ m_is_closed' = FALSE
  /\ peerUp' = TRUE /\ requests' = {} /\ responses' = {}
  /\ UNCHANGED <<callVars, tableVars, m_guard, m_session, chanVars, coVars,
                 hbVars, executed, closer, crashed, calls>>

\* A close() that reads m_session at the same time may crash.
ConnectSession ==
  /\ ~crashed /\ connecting = "session"
  /\ \/ m_session' = "open" /\ connecting' = "go" /\ UNCHANGED crashed
     \/ /\ \E k \in Closers : closer[k] = "rest"
        /\ crashed' = TRUE /\ UNCHANGED <<m_session, connecting>>
  /\ UNCHANGED <<callVars, tableVars, m_guard, m_is_closed, connects, chanVars,
                 coVars, hbVars, netVars, closer, calls>>

\* m_worker is never initialised: with a garbage value the first "go" ends
\* the process.
ConnectGo ==
  /\ ~crashed /\ connecting = "go"
  /\ \/ /\ sender' = "pop" /\ receiver' = "recv"
        /\ connecting' = "arm" /\ UNCHANGED crashed
     \/ crashed' = TRUE /\ UNCHANGED <<sender, receiver, connecting>>
  /\ UNCHANGED <<callVars, tableVars, m_guard, m_is_closed, m_session, connects,
                 chanVars, sendMsg, recvMsg, hbVars, netVars, closer, calls>>

ConnectArm ==
  /\ ~crashed /\ connecting = "arm" /\ TimerArmed
  /\ m_is_heartbeat_response' = TRUE /\ hbAnswered' = TRUE
  /\ timer' = "armed" /\ connecting' = "no"
  /\ UNCHANGED <<callVars, tableVars, m_guard, m_is_closed, m_session, connects,
                 chanVars, coVars, netVars, closer, crashed, calls>>

ConnectStep == ConnectSession \/ ConnectGo \/ ConnectArm

(***************************************************************************)
(* call(): one caller's steps.                                             *)
(***************************************************************************)
\* The unlocked test of the connection; the call is refused or goes on.
CallCheck(c) ==
  /\ ~crashed /\ pc[c] = "idle" /\ calls < MaxCalls
  /\ calls' = calls + 1
  /\ ticket' = [ticket EXCEPT ![c] = calls + 1]
  /\ IF m_session = "null" \/ m_is_closed
       THEN /\ outcome' = [outcome EXCEPT ![c] = "kRpcServerClosed"]
            /\ UNCHANGED pc
       ELSE /\ outcome' = [outcome EXCEPT ![c] = "none"]
            /\ pc' = [pc EXCEPT ![c] = "lock"]
  /\ UNCHANGED <<id, rsp, tableVars, m_guard, connVars, chanVars, coVars,
                 hbVars, netVars, closer, crashed>>

\* A mutant of CallLock: the number is drawn without m_guard.
CallLockUnguarded(c) ==
  /\ ~crashed /\ pc[c] = "lock"
  /\ m_guard' = c
  /\ id' = [id EXCEPT ![c] = m_seq_id]
  /\ pc' = [pc EXCEPT ![c] = "insert"]
  /\ UNCHANGED <<rsp, outcome, ticket, tableVars, connVars, chanVars, coVars,
                 hbVars, netVars, closer, crashed, calls>>

\* m_guard.lock(), then "m_seq_id++" reads the number ...
CallLock(c) ==
  /\ ~crashed /\ pc[c] = "lock" /\ m_guard = "none"
  /\ m_guard' = c
  /\ id' = [id EXCEPT ![c] = m_seq_id]
  /\ pc' = [pc EXCEPT ![c] = "insert"]
  /\ UNCHANGED <<rsp, outcome, ticket, tableVars, connVars, chanVars, coVars,
                 hbVars, netVars, closer, crashed, calls>>

\* ... and writes it back; the caller's channel is entered, m_guard unlocked.
CallInsert(c) ==
  /\ ~crashed /\ pc[c] = "insert"
  /\ m_seq_id' = id[c] + 1
  /\ m_outstanding_call' = m_outstanding_call \cup {id[c]}
  /\ m_guard' = "none"
  /\ pc' = [pc EXCEPT ![c] = "push"]
  /\ UNCHANGED <<id, rsp, outcome, ticket, orphaned, connVars, chanVars,
                 coVars, hbVars, netVars, closer, crashed, calls>>

\* A mutant of PushChan: a push on a closed channel waits.
PushChanWaits(msg) ==
  /\ ~chanClosed /\ Len(m_chan) < ChanSize
  /\ m_chan' = Append(m_chan, msg)
  /\ UNCHANGED chanClosed

\* m_chan << msg waits for room; a closed channel drops the message.
PushChan(msg) ==
  /\ chanClosed \/ Len(m_chan) < ChanSize
  /\ m_chan' = IF chanClosed THEN m_chan ELSE Append(m_chan, msg)
  /\ UNCHANGED chanClosed

CallPush(c) ==
  /\ ~crashed /\ pc[c] = "push"
  /\ PushChan(Request(id[c], ticket[c]))
  /\ pc' = [pc EXCEPT ![c] = "wait"]
  /\ UNCHANGED <<id, rsp, outcome, ticket, tableVars, m_guard, connVars,
                 coVars, hbVars, netVars, closer, crashed, calls>>

\* A mutant of CallTimeout: the call returns before its entry is erased.
CallTimeoutReturns(c) ==
  /\ ~crashed /\ pc[c] = "wait" /\ CallTimed
  /\ pc' = [pc EXCEPT ![c] = "idle"]
  /\ outcome' = [outcome EXCEPT ![c] = "kRpcCallTimeout"]
  /\ UNCHANGED <<id, rsp, ticket, tableVars, m_guard, connVars, chanVars,
                 coVars, hbVars, netVars, closer, crashed, calls>>

\* TimedPop gives up; recv_chan >> rsp, used without a timeout, never does.
CallTimeout(c) ==
  /\ ~crashed /\ pc[c] = "wait" /\ CallTimed
  /\ pc' = [pc EXCEPT ![c] = "eraseLock"]
  /\ UNCHANGED <<id, rsp, outcome, ticket, tableVars, m_guard, connVars,
                 chanVars, coVars, hbVars, netVars, closer, crashed, calls>>

CallEraseLock(c) ==
  /\ ~crashed /\ pc[c] = "eraseLock" /\ m_guard = "none"
  /\ m_guard' = c
  /\ pc' = [pc EXCEPT ![c] = "erase"]
  /\ UNCHANGED <<id, rsp, outcome, ticket, tableVars, connVars, chanVars,
                 coVars, hbVars, netVars, closer, crashed, calls>>

\* What the call comes back with: a payload may not decode as the type.
CallOutcomes(m) ==
  IF m.type # "kRpcMethodResponse" THEN {"kRpcCallTimeout"}
  ELSE IF m.code # "kRpcSuccess" THEN {m.code}
  ELSE {"kRpcSuccess", "kRpcRetTypeNotMatch"}

\* Erases the entry, closes the channel, unlocks and returns; the locals of
\* the call are gone.
CallErase(c) ==
  /\ ~crashed /\ pc[c] = "erase"
  /\ m_outstanding_call' = m_outstanding_call \ {id[c]}
  /\ orphaned' = orphaned \ {id[c]}
  /\ m_guard' = "none"
  /\ pc' = [pc EXCEPT ![c] = "idle"]
  /\ \E o \in CallOutcomes(rsp[c]) : outcome' = [outcome EXCEPT ![c] = o]
  /\ id' = [id EXCEPT ![c] = 0] /\ rsp' = [rsp EXCEPT ![c] = NoMessage]
  /\ UNCHANGED <<ticket, m_seq_id, connVars, chanVars, coVars,
                 hbVars, netVars, closer, crashed, calls>>

CallStep(c) == CallLock(c) \/ CallInsert(c) \/ CallPush(c) \/ CallTimeout(c)
                 \/ CallEraseLock(c) \/ CallErase(c)

(***************************************************************************)
(* handleSend(): the sender coroutine.                                     *)
(***************************************************************************)
SendPop ==
  /\ ~crashed /\ sender = "pop" /\ m_chan # <<>>
  /\ sendMsg' = Head(m_chan) /\ m_chan' = Tail(m_chan)
  /\ sender' = "write"
  /\ UNCHANGED <<callVars, tableVars, m_guard, connVars, chanClosed, receiver,
                 recvMsg, hbVars, netVars, closer, crashed, calls>>

\* pop() fails once the channel is closed, whatever is left in it.
SendEnd ==
  /\ ~crashed /\ sender = "pop" /\ chanClosed
  /\ sender' = "off"
  /\ UNCHANGED <<callVars, tableVars, m_guard, connVars, chanVars, sendMsg,
                 receiver, recvMsg, hbVars, netVars, closer, crashed, calls>>

\* A mutant of SendWrite: a message that was written may be written again.
SendWriteRetries ==
  /\ ~crashed /\ sender = "write"
  /\ requests' = IF m_session = "open" /\ peerUp
                   THEN requests \cup {sendMsg} ELSE requests
  /\ \/ sender' = "pop" /\ sendMsg' = NoMessage
     \/ UNCHANGED <<sender, sendMsg>>
  /\ UNCHANGED <<callVars, tableVars, m_guard, connVars, chanVars, receiver,
                 recvMsg, hbVars, responses, peerUp, executed, closer, crashed,
                 calls>>

\* sendProtocol: a message that cannot be written is logged and forgotten.
SendWrite ==
  /\ ~crashed /\ sender = "write"
  /\ requests' = IF m_session = "open" /\ peerUp
                   THEN requests \cup {sendMsg} ELSE requests
  /\ sender' = "pop" /\ sendMsg' = NoMessage
  /\ UNCHANGED <<callVars, tableVars, m_guard, connVars, chanVars, receiver,
                 recvMsg, hbVars, responses, peerUp, executed, closer, crashed,
                 calls>>

(***************************************************************************)
(* handleRecv(), handleHeartbeat(), handleMethodResponse(): the receiver.  *)
(***************************************************************************)
\* recvProtocol() returns a heartbeat; handleHeartbeat().
RecvHeartbeat ==
  /\ ~crashed /\ receiver = "recv" /\ Heartbeat \in responses
  /\ responses' = responses \ {Heartbeat}
  /\ m_is_heartbeat_response' = TRUE /\ hbAnswered' = TRUE
  /\ UNCHANGED <<callVars, tableVars, m_guard, connVars, chanVars, coVars,
                 timer, requests, peerUp, executed, closer, crashed, calls>>

\* recvProtocol() returns an answer and handleMethodResponse() looks its
\* number up, without m_guard: while a caller changes the table the lookup
\* may miss the entry or crash.
RecvResponse ==
  /\ ~crashed /\ receiver = "recv"
  /\ \E m \in responses \ {Heartbeat} :
       /\ responses' = responses \ {m}
       /\ \/ /\ m.seq \in m_outstanding_call
             /\ receiver' = "index" /\ recvMsg' = m /\ UNCHANGED crashed
          \/ /\ m.seq \notin m_outstanding_call \/ m_guard # "none"
             /\ UNCHANGED <<receiver, recvMsg, crashed>>
          \/ /\ m_guard # "none"
             /\ crashed' = TRUE /\ UNCHANGED <<receiver, recvMsg>>
  /\ UNCHANGED <<callVars, tableVars, m_guard, connVars, chanVars, sender,
                 sendMsg, hbVars, requests, peerUp, executed, closer, calls>>

\* recvProtocol() returns nullptr: the receiver runs close() and ends.
RecvNull ==
  /\ ~crashed /\ receiver = "recv"
  /\ ~peerUp \/ m_session = "closed"
  /\ receiver' = "closing"
  /\ closer' = [closer EXCEPT !["receiver"] = "check"]
  /\ UNCHANGED <<callVars, tableVars, m_guard, connVars, chanVars, sender,
                 sendMsg, recvMsg, hbVars, netVars, crashed, calls>>

\* operator[] finds the caller's channel, or makes an entry that is nobody's
\* and on which the unbuffered push then waits for ever.
RecvIndex ==
  /\ ~crashed /\ receiver = "index"
  /\ \/ /\ recvMsg.seq \in m_outstanding_call
        /\ receiver' = "pushing"
        /\ UNCHANGED <<m_outstanding_call, orphaned, crashed>>
     \/ /\ recvMsg.seq \notin m_outstanding_call \/ m_guard # "none"
        /\ m_outstanding_call' = m_outstanding_call \cup {recvMsg.seq}
        /\ orphaned' = orphaned \cup {recvMsg.seq}
        /\ receiver' = "stuck"
        /\ UNCHANGED crashed
     \/ /\ m_guard # "none"
        /\ crashed' = TRUE
        /\ UNCHANGED <<receiver, m_outstanding_call, orphaned>>
  /\ UNCHANGED <<callVars, m_seq_id, m_guard, connVars, chanVars, sender,
                 sendMsg, recvMsg, hbVars, netVars, closer, calls>>

\* The push meets the caller's pop.
RecvDeliver(c) ==
  /\ ~crashed /\ receiver = "pushing"
  /\ pc[c] = "wait" /\ id[c] = recvMsg.seq
  /\ rsp' = [rsp EXCEPT ![c] = recvMsg]
  /\ pc' = [pc EXCEPT ![c] = "eraseLock"]
  /\ receiver' = "recv" /\ recvMsg' = NoMessage
  /\ UNCHANGED <<id, outcome, ticket, tableVars, m_guard, connVars, chanVars,
                 sender, sendMsg, hbVars, netVars, closer, crashed, calls>>

\* The caller gave up and closed the channel: the push fails, or touches
\* the channel after the table's entry and the caller's frame are gone.
RecvPushFail ==
  /\ ~crashed /\ receiver = "pushing"
  /\ ~ \E c \in Callers : pc[c] \in Registered /\ id[c] = recvMsg.seq
  /\ \/ receiver' = "recv" /\ recvMsg' = NoMessage /\ UNCHANGED crashed
     \/ crashed' = TRUE /\ UNCHANGED <<receiver, recvMsg>>
  /\ UNCHANGED <<callVars, tableVars, m_guard, connVars, chanVars, sender,
                 sendMsg, hbVars, netVars, closer, calls>>

RecvStep == \/ RecvHeartbeat \/ RecvResponse \/ RecvNull
            \/ RecvIndex \/ RecvPushFail
            \/ \E c \in Callers : RecvDeliver(c)

(***************************************************************************)
(* The heartbeat timer and its callback.                                   *)
(***************************************************************************)
\* The timer expires; the callback tests the flag.
TimerFire ==
  /\ ~crashed /\ timer = "armed"
  /\ IF m_is_heartbeat_response
       THEN timer' = "push" /\ UNCHANGED closer
       ELSE timer' = "closing" /\ closer' = [closer EXCEPT !["timer"] = "check"]
  /\ UNCHANGED <<callVars, tableVars, m_guard, connVars, chanVars, coVars,
                 m_is_heartbeat_response, hbAnswered, netVars, crashed, calls>>

TimerPush ==
  /\ ~crashed /\ timer = "push"
  /\ PushChan(Heartbeat)
  /\ hbAnswered' = FALSE
  /\ timer' = "rearm"
  /\ UNCHANGED <<callVars, tableVars, m_guard, connVars, coVars,
                 m_is_heartbeat_response, netVars, closer, crashed,
                 calls>>

\* A mutant of TimerRearm: the flag is not cleared.
TimerRearmKeepsFlag ==
  /\ ~crashed /\ timer = "rearm"
  /\ timer' = "armed"
  /\ UNCHANGED <<callVars, tableVars, m_guard, connVars, chanVars, coVars,
                 m_is_heartbeat_response, hbAnswered, netVars, closer, crashed,
                 calls>>

\* The flag is cleared and the timer armed again.
TimerRearm ==
  /\ ~crashed /\ timer = "rearm"
  /\ m_is_heartbeat_response' = FALSE
  /\ timer' = "armed"
  /\ UNCHANGED <<callVars, tableVars, m_guard, connVars, chanVars, coVars,
                 hbAnswered, netVars, closer, crashed, calls>>

TimerStep == TimerFire \/ TimerPush \/ TimerRearm

(***************************************************************************)
(* close(), as run by the user, the receiver and the timer's callback.     *)
(***************************************************************************)
UserClose ==
  /\ ~crashed /\ closer["user"] = "idle" /\ ~m_is_closed
  /\ closer' = [closer EXCEPT !["user"] = "check"]
  /\ UNCHANGED <<callVars, tableVars, m_guard, connVars, chanVars, coVars,
                 hbVars, netVars, crashed, calls>>

\* close() returns to its caller: for the receiver and the callback that is
\* their last statement.
CloseReturn(k) ==
  /\ closer' = [closer EXCEPT ![k] = "idle"]
  /\ receiver' = IF k = "receiver" THEN "off" ELSE receiver

CloseCheck(k) ==
  /\ ~crashed /\ closer[k] = "check"
  /\ IF m_is_closed
       THEN /\ CloseReturn(k)
            /\ timer' = IF k = "timer" THEN "off" ELSE timer
       ELSE /\ closer' = [closer EXCEPT ![k] = "set"]
            /\ UNCHANGED <<receiver, timer>>
  /\ UNCHANGED <<callVars, tableVars, m_guard, connVars, chanVars, sender,
                 sendMsg, recvMsg, m_is_heartbeat_response, hbAnswered,
                 netVars, crashed, calls>>

CloseSet(k) ==
  /\ ~crashed /\ closer[k] = "set"
  /\ m_is_closed' = TRUE
  /\ closer' = [closer EXCEPT ![k] = "rest"]
  /\ UNCHANGED <<callVars, tableVars, m_guard, m_session, connects, connecting,
                 chanVars, coVars, hbVars, netVars, crashed, calls>>

\* Closes the channel and the session, so that what is on its way back is
\* lost, and stops the timer: one that is armed, not a running callback.  A
\* session or timer that connect() has still to make is left alone.
CloseRest(k) ==
  /\ ~crashed /\ closer[k] = "rest"
  /\ chanClosed' = TRUE
  /\ m_session' = IF m_session = "open" THEN "closed" ELSE m_session
  /\ responses' = {}
  /\ CloseReturn(k)
  /\ timer' = IF k = "timer" \/ timer = "armed" THEN "off" ELSE timer
  /\ UNCHANGED <<callVars, tableVars, m_guard, m_is_closed, connects,
                 connecting, m_chan, sender, sendMsg, recvMsg,
                 m_is_heartbeat_response, hbAnswered, requests, peerUp,
                 executed, crashed, calls>>

CloseStep(k) == CloseCheck(k) \/ CloseSet(k) \/ CloseRest(k)

(***************************************************************************)
(* The server: answers what reached it, in any order, or goes away.        *)
(***************************************************************************)
ServerAnswer ==
  /\ ~crashed
  /\ \E m \in requests, code \in ServerCodes :
       /\ requests' = requests \ {m}
       /\ executed' = IF m.type = "kRpcHeartbeat" THEN executed
                      ELSE [executed EXCEPT ![m.body] = @ + 1]
       /\ responses' = responses \cup
            (IF ~peerUp \/ m_session # "open" THEN {}
             ELSE {IF m.type = "kRpcHeartbeat" THEN Heartbeat
                   ELSE Response(m, code)})
  /\ UNCHANGED <<callVars, tableVars, m_guard, connVars, chanVars, coVars,
                 hbVars, peerUp, closer, crashed, calls>>

PeerClose ==
  /\ ~crashed /\ peerUp
  /\ peerUp' = FALSE
  /\ UNCHANGED <<callVars, tableVars, m_guard, connVars, chanVars, coVars,
                 hbVars, requests, responses, executed, closer, crashed, calls>>

Next == \/ ConnectSocket \/ ConnectStep
        \/ \E c \in Callers : CallCheck(c) \/ CallStep(c)
        \/ SendPop \/ SendEnd \/ SendWrite
        \/ RecvStep
        \/ TimerStep
        \/ UserClose
        \/ \E k \in Closers : CloseStep(k)
        \/ ServerAnswer \/ PeerClose

Spec == Init /\ [][Next]_vars

(***************************************************************************)
(* Fairness.  The scheduler runs every coroutine that can go on, a timer   *)
(* that is armed expires, and so does TimedPop.  libgo's mutex and channel *)
(* serve waiters in turn: a wait for m_guard, or for room in m_chan, ends  *)
(* if that is free again and again (strong fairness).  Nothing is assumed  *)
(* of the user and of the server's answers.  PeerReads is kept apart: a    *)
(* write ends only if the peer takes the bytes, or the connection closes.  *)
(***************************************************************************)
Fairness == /\ WF_vars(ConnectStep)
            /\ \A c \in Callers : SF_vars(CallStep(c))
            /\ WF_vars(SendPop \/ SendEnd)
            /\ WF_vars(SendWrite /\ (m_session = "closed" \/ ~peerUp))
            /\ WF_vars(RecvStep)
            /\ SF_vars(TimerStep)
            /\ \A k \in Closers : WF_vars(CloseStep(k))

PeerReads == WF_vars(SendWrite)

\* The program, whatever the peer does.
FairSpec == Spec /\ Fairness

\* The program with a peer that goes on reading.
LiveSpec == Spec /\ Fairness /\ PeerReads

(***************************************************************************)
(* Safety.                                                                 *)
(***************************************************************************)
FlagTypes ==
  /\ m_is_closed \in BOOLEAN /\ chanClosed \in BOOLEAN
  /\ m_is_heartbeat_response \in BOOLEAN /\ hbAnswered \in BOOLEAN
  /\ peerUp \in BOOLEAN /\ crashed \in BOOLEAN

StateTypes ==
  /\ m_session \in {"null", "open", "closed"} /\ m_seq_id \in Nat
  /\ connecting \in {"no", "session", "go", "arm"}
  /\ m_outstanding_call \subseteq Nat /\ orphaned \subseteq Nat
  /\ m_guard \in Callers \cup {"none"}
  /\ m_chan \in Seq(Message)
  /\ pc \in [Callers -> InCall \cup {"idle"}]
  /\ id \in [Callers -> Nat] /\ ticket \in [Callers -> Nat]
  /\ rsp \in [Callers -> Message]
  /\ outcome \in [Callers -> Outcomes \cup {"none"}]
  /\ sender \in {"off", "pop", "write"} /\ sendMsg \in Message
  /\ receiver \in {"off", "recv", "index", "pushing", "stuck", "closing"}
  /\ recvMsg \in Message
  /\ timer \in {"off", "armed", "push", "rearm", "closing"}
  /\ closer \in [Closers -> {"idle", "check", "set", "rest"}]
  /\ requests \subseteq Message /\ responses \subseteq Message
  /\ connects \in Nat /\ calls \in Nat /\ executed \in [1..MaxCalls -> Nat]

\* The type of the client's state, with the coroutines' steps.
TypeOK == FlagTypes /\ StateTypes

\* A call only ever comes back with the answer to its own request, although
\* answers arrive in any order, late, and after the caller has started
\* another call.
OwnAnswer ==
  \A c \in Callers :
    /\ pc[c] \in {"eraseLock", "erase"}
    /\ rsp[c].type = "kRpcMethodResponse"
    => rsp[c].body = ticket[c]

\* The table holds exactly the calls in progress, and the entries operator[]
\* made: nothing else leaks, and no call in progress is unfindable.
TableExact ==
  m_outstanding_call =
    {id[c] : c \in {d \in Callers : pc[d] \in Registered}} \cup orphaned

\* insert() leaves the table as it is where the number has an entry already,
\* and nobody looks at what it returns: the call would wait while its answer
\* goes to another's channel, or to an entry operator[] made.  It never
\* finds one.
InsertTakes ==
  [][\A c \in Callers :
       pc[c] = "insert" /\ pc'[c] = "push" => id[c] \notin m_outstanding_call]_vars

(***************************************************************************)
(* Liveness.                                                               *)
(***************************************************************************)
\* A call with a timeout returns, even when the send queue is full, the
\* connection closes or the receiver is stuck.
CallReturns ==
  \A c \in Callers : pc[c] \in InCall ~> (pc[c] = "idle" \/ crashed)

\* What connect() started has ended.  Two receivers are excused: one stuck
\* on an entry of nobody, and one of a session that connect() made after a
\* close() had looked for it, as long as the peer keeps that open.
Quiet ==
  /\ connecting = "no" /\ timer = "off" /\ sender = "off"
  /\ \/ receiver \in {"off", "stuck"}
     \/ m_session = "open" /\ peerUp /\ \A k \in Closers : closer[k] = "idle"

\* Whenever the client is closed, by whichever of the three closers and also
\* in the middle of connect(), its sender, its timer and its receiver end:
\* neither a full queue nor the callback that re-arms the timer after
\* StopTimer() keeps one alive.
CloseQuiesces == m_is_closed ~> (crashed \/ Quiet)

\* A peer that goes away is noticed, by the receiver or else by the timer.
DeadPeerNoticed == (~peerUp /\ connects > 0) ~> (m_is_closed \/ crashed)

\* A peer that stops answering heartbeats is given up: the timer does not
\* go on sending heartbeats for ever.
SilentPeerGivenUp == []<>hbAnswered \/ <>[](timer = "off" \/ crashed)

(***************************************************************************)
(* RpcClient implements RpcCall.                                           *)
(***************************************************************************)
Abstract == INSTANCE RpcCall WITH
              calling <- [c \in Callers |-> pc[c] # "idle"]

\* At most one run per call, and answers only of calls that ran.
ImplementsRpcCall == Abstract!Spec
=============================================================================
