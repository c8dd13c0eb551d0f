----------------------------- MODULE RpcServer -----------------------------
(***************************************************************************)
(* The serving side of RpcServer (rpc/rpc_server.{h,cpp}): handleClient,   *)
(* which runs for every connection TcpServer accepted, the alive timer of  *)
(* the connection, the coroutine started for every request, and            *)
(* RpcSession::sendProtocol, through which these coroutines share the      *)
(* connection.  The RpcSession is shared by handleClient and the request   *)
(* coroutines, and closes the socket when the last of them lets it go.     *)
(*                                                                         *)
(* A request is known by its number on its connection.  Its kind, chosen   *)
(* when it is handled, is what the server makes of it: a heartbeat, a      *)
(* method call that succeeds, one that fails (no such method, arguments    *)
(* that do not match, an exception) with a payload shorter, or not         *)
(* shorter, than the message of that failure, a payload without a method   *)
(* name, or any other type.                                                *)
(***************************************************************************)
EXTENDS Naturals, Sequences

CONSTANTS Conns,        \* connections accepted in a behaviour
          MaxRequests,  \* bound: requests sent on a connection
          Kinds         \* kinds of requests that are sent

AllKinds == {"heartbeat", "success", "failShort", "failLong", "nameless", "other"}

ASSUME RpcServerAssumption == /\ MaxRequests \in Nat
                              /\ Kinds \subseteq AllKinds

VARIABLES
  m_sock,      \* connection -> the server's socket
  m_mutex,     \* connection -> request whose coroutine holds the mutex, or 0
  handler,     \* connection -> step of handleClient
  timer,       \* connection -> the alive timer
  firing,      \* connection -> has its callback been started and not yet run
  task,        \* connection -> request -> step of its coroutine
  rsp,         \* connection -> request -> the answer its coroutine holds
  sent,        \* connection -> requests sent so far
  received,    \* connection -> requests handleClient has received
  peerUp,      \* connection -> has the client its end open
  out,         \* connection -> parts of answers the client gets, in order
  crashed

vars == <<m_sock, m_mutex, handler, timer, task, rsp, sent, received, peerUp,
          out, firing, crashed>>

Requests == 1..MaxRequests
Active == {"run", "check", "encode", "lock", "first", "second"}

Init ==
  /\ m_sock = [c \in Conns |-> "none"]
  /\ m_mutex = [c \in Conns |-> 0]
  /\ handler = [c \in Conns |-> "off"]
  /\ timer = [c \in Conns |-> "off"]
  /\ task = [c \in Conns |-> [i \in Requests |-> "none"]]
  /\ rsp = [c \in Conns |-> [i \in Requests |-> "none"]]
  /\ sent = [c \in Conns |-> 0]
  /\ received = [c \in Conns |-> 0]
  /\ peerUp = [c \in Conns |-> FALSE]
  /\ out = [c \in Conns |-> <<>>]
  /\ firing = [c \in Conns |-> FALSE]
  /\ crashed = FALSE

(***************************************************************************)
(* The client, external: sends requests, goes away at any time.            *)
(***************************************************************************)
ClientSend(c) ==
  /\ ~crashed /\ peerUp[c] /\ sent[c] < MaxRequests
  /\ sent' = [sent EXCEPT ![c] = @ + 1]
  /\ UNCHANGED <<m_sock, m_mutex, handler, timer, task, rsp, received, peerUp,
                 out, crashed, firing>>

ClientLeave(c) ==
  /\ ~crashed /\ peerUp[c]
  /\ peerUp' = [peerUp EXCEPT ![c] = FALSE]
  /\ UNCHANGED <<m_sock, m_mutex, handler, timer, task, sent, rsp, received,
                 out, crashed, firing>>

(***************************************************************************)
(* handleClient.                                                           *)
(***************************************************************************)
\* TcpServer starts handleClient; the alive timer is armed.
Accept(c) ==
  /\ ~crashed /\ handler[c] = "off"
  /\ m_sock' = [m_sock EXCEPT ![c] = "open"]
  /\ peerUp' = [peerUp EXCEPT ![c] = TRUE]
  /\ timer' = [timer EXCEPT ![c] = "armed"]
  /\ handler' = [handler EXCEPT ![c] = "test"]
  /\ UNCHANGED <<m_mutex, task, sent, rsp, received, out,
                 crashed, firing>>

\* A mutant of Release: nobody closes the socket.
ReleaseNothing(c, handlers, tasks) == UNCHANGED m_sock

\* One of those that share the session ends: the last one closes the socket.
Release(c, handlers, tasks) ==
  m_sock' = IF handlers[c] = "done" /\ \A i \in Requests : tasks[c][i] \notin Active
              THEN [m_sock EXCEPT ![c] = "closed"] ELSE m_sock

HandlerEnds(c) == /\ handler' = [handler EXCEPT ![c] = "done"]
                  /\ Release(c, handler', task)

\* while (client->isConnected())
TestConnected(c) ==
  /\ ~crashed /\ handler[c] = "test"
  /\ IF m_sock[c] = "open"
       THEN handler' = [handler EXCEPT ![c] = "recv"] /\ UNCHANGED m_sock
       ELSE HandlerEnds(c)
  /\ UNCHANGED <<m_mutex, timer, task, sent, rsp, received, peerUp, out,
                 crashed, firing>>

\* recvProtocol returns a request.
Recv(c) ==
  /\ ~crashed /\ handler[c] = "recv" /\ m_sock[c] = "open"
  /\ received[c] < sent[c]
  /\ received' = [received EXCEPT ![c] = @ + 1]
  /\ handler' = [handler EXCEPT ![c] = "reset"]
  /\ UNCHANGED <<rsp, m_sock, m_mutex, timer, task, sent, peerUp, out,
                 crashed, firing>>

\* A mutant of RecvNull: the timer is not stopped.
RecvNullTimerLeft(c) ==
  /\ ~crashed /\ handler[c] = "recv"
  /\ HandlerEnds(c)
  /\ UNCHANGED <<m_mutex, timer, task, sent, rsp, received, peerUp, out,
                 crashed, firing>>

\* recvProtocol returns nullptr; the timer is stopped and the loop left.
RecvNull(c) ==
  /\ ~crashed /\ handler[c] = "recv"
  /\ timer' = [timer EXCEPT ![c] = "off"]
  /\ HandlerEnds(c)
  /\ UNCHANGED <<m_mutex, task, sent, rsp, received, peerUp, out,
                 crashed, firing>>

\* The socket was closed by the timer, or the client has closed its end.
RecvClosed(c) ==
  /\ m_sock[c] = "closed" \/ (~peerUp[c] /\ received[c] = sent[c])
  /\ RecvNull(c)

\* The client is there and may go on reading, or not: what came is no message
\* (magic, version, a payload cut off), its end is closed for writing only,
\* or nothing came within the receive timeout.
RecvRefused(c) == m_sock[c] = "open" /\ RecvNull(c)

\* An error text that is not all there: readStringVint throws, uncaught.
RecvThrows(c) ==
  /\ ~crashed /\ handler[c] = "recv" /\ m_sock[c] = "open" /\ crashed' = TRUE
  /\ UNCHANGED <<m_sock, m_mutex, handler, timer, task, rsp, sent, received,
                 peerUp, out, firing>>

\* The timer is stopped and armed again, whether or not it expired since ...
ResetTimer(c) ==
  /\ ~crashed /\ handler[c] = "reset"
  /\ timer' = [timer EXCEPT ![c] = "armed"]
  /\ handler' = [handler EXCEPT ![c] = "go"]
  /\ UNCHANGED <<m_sock, m_mutex, task, sent, rsp, received, peerUp, out,
                 crashed, firing>>

\* ... and the request's coroutine is started.
Go(c) ==
  /\ ~crashed /\ handler[c] = "go"
  /\ task' = [task EXCEPT ![c][received[c]] = "run"]
  /\ handler' = [handler EXCEPT ![c] = "test"]
  /\ UNCHANGED <<m_sock, m_mutex, timer, sent, rsp, received, peerUp, out,
                 crashed, firing>>

\* The timer expires: its callback is started, and no StopTimer() stops it.
Expire(c) ==
  /\ ~crashed /\ timer[c] = "armed"
  /\ timer' = [timer EXCEPT ![c] = "off"]
  /\ firing' = [firing EXCEPT ![c] = TRUE]
  /\ UNCHANGED <<m_sock, m_mutex, handler, task, sent, rsp, received, peerUp,
                 out, crashed>>

\* on_timeout: client->close().
OnTimeout(c) ==
  /\ ~crashed /\ firing[c]
  /\ firing' = [firing EXCEPT ![c] = FALSE]
  /\ m_sock' = [m_sock EXCEPT ![c] = "closed"]
  /\ UNCHANGED <<m_mutex, handler, timer, task, sent, rsp, received, peerUp,
                 out, crashed>>

(***************************************************************************)
(* The coroutine of request i.                                             *)
(***************************************************************************)
StepTo(c, i, step) == task' = [task EXCEPT ![c][i] = step]

Answer(c, i, answer) == rsp' = [rsp EXCEPT ![c][i] = answer]

TaskEnds(c, i) == /\ StepTo(c, i, "done") /\ Answer(c, i, "none")
                  /\ Release(c, handler, task')

\* handleMethodCall, handleHeartbeat.  The answer to a method call carries
\* the Serializer the request was read from, not the one with the result.  A
\* payload without a name throws, and nobody catches it; a request of another
\* type has no answer.
Handle(c, i) ==
  /\ ~crashed /\ task[c][i] = "run"
  /\ \E kind \in Kinds :
       \/ /\ kind = "nameless"
          /\ crashed' = TRUE /\ UNCHANGED <<task, m_sock, rsp>>
       \/ kind = "other" /\ TaskEnds(c, i) /\ UNCHANGED crashed
       \/ /\ kind \in {"heartbeat", "success", "failShort", "failLong"}
          /\ Answer(c, i, IF kind = "heartbeat" THEN "success" ELSE kind)
          /\ StepTo(c, i, "check") /\ UNCHANGED <<m_sock, crashed, firing>>
  /\ UNCHANGED <<m_mutex, handler, timer, sent, received, peerUp, out, firing>>

\* if (rsp && session->isConnected())
CheckConnected(c, i) ==
  /\ ~crashed /\ task[c][i] = "check"
  /\ IF m_sock[c] = "open"
       THEN StepTo(c, i, "encode") /\ UNCHANGED <<m_sock, rsp>>
       ELSE TaskEnds(c, i)
  /\ UNCHANGED <<m_mutex, handler, timer, sent, received, peerUp, out,
                 crashed, firing>>

\* Protocol::encode: m_payload_len does not count the message, so the rest
\* to write, m_payload_len - m_err_msg.size(), wraps around when the payload
\* is the shorter one: no memory is large enough.
Encode(c, i) ==
  /\ ~crashed /\ task[c][i] = "encode"
  /\ IF rsp[c][i] = "failShort" THEN crashed' = TRUE /\ UNCHANGED task
     ELSE StepTo(c, i, "lock") /\ UNCHANGED crashed
  /\ UNCHANGED <<m_sock, m_mutex, handler, timer, sent, rsp, received, peerUp,
                 out, firing>>

\* A mutant of Lock: the mutex is not waited for.
LockUnguarded(c, i) ==
  /\ ~crashed /\ task[c][i] = "lock"
  /\ m_mutex' = [m_mutex EXCEPT ![c] = i]
  /\ StepTo(c, i, "first")
  /\ UNCHANGED <<m_sock, handler, timer, sent, rsp, received, peerUp, out,
                 crashed, firing>>

\* sendProtocol locks the connection ...
Lock(c, i) ==
  /\ ~crashed /\ task[c][i] = "lock" /\ m_mutex[c] = 0
  /\ m_mutex' = [m_mutex EXCEPT ![c] = i]
  /\ StepTo(c, i, "first")
  /\ UNCHANGED <<m_sock, handler, timer, sent, rsp, received, peerUp, out,
                 crashed, firing>>

\* ... and writes: the socket takes a part of the answer, then the rest.
\* The answer of a failed call is longer than its header says (part 3), by
\* the length that precedes the message.  The client gets what is written
\* while it is there.
Parts(c, i, k) == IF rsp[c][i] = "failLong" /\ k = 2
                    THEN <<<<i, 2>>, <<i, 3>>>> ELSE <<<<i, k>>>>

Written(c, i, k) ==
  out' = IF peerUp[c] THEN [out EXCEPT ![c] = @ \o Parts(c, i, k)] ELSE out

\* A mutant of WriteFails: the mutex stays locked.
WriteFailsLocked(c, i) == TaskEnds(c, i) /\ UNCHANGED <<m_mutex, out, firing>>

\* The write fails, the mutex is released and the coroutine ends.
WriteFails(c, i) ==
  /\ m_mutex' = [m_mutex EXCEPT ![c] = 0]
  /\ TaskEnds(c, i) /\ UNCHANGED out

WriteFirst(c, i) ==
  /\ ~crashed /\ task[c][i] = "first"
  /\ \/ /\ m_sock[c] = "open" /\ Written(c, i, 1)
        /\ StepTo(c, i, "second") /\ UNCHANGED <<m_mutex, m_sock, rsp>>
     \/ (m_sock[c] = "closed" \/ ~peerUp[c]) /\ WriteFails(c, i)
  /\ UNCHANGED <<handler, timer, sent, received, peerUp,
                 crashed, firing>>

WriteSecond(c, i) ==
  /\ ~crashed /\ task[c][i] = "second"
  /\ \/ /\ m_sock[c] = "open" /\ Written(c, i, 2)
        /\ m_mutex' = [m_mutex EXCEPT ![c] = 0] /\ TaskEnds(c, i)
     \/ (m_sock[c] = "closed" \/ ~peerUp[c]) /\ WriteFails(c, i)
  /\ UNCHANGED <<handler, timer, sent, received, peerUp,
                 crashed, firing>>

HandlerStep(c) == \/ TestConnected(c) \/ Recv(c) \/ RecvClosed(c)
                  \/ ResetTimer(c) \/ Go(c)

TaskStep(c, i) == Handle(c, i) \/ CheckConnected(c, i) \/ Encode(c, i) \/ Lock(c, i)
WriteStep(c, i) == WriteFirst(c, i) \/ WriteSecond(c, i)

Next == \E c \in Conns :
          \/ Accept(c) \/ ClientSend(c) \/ ClientLeave(c)
          \/ HandlerStep(c) \/ RecvRefused(c) \/ RecvThrows(c)
          \/ Expire(c) \/ OnTimeout(c)
          \/ \E i \in Requests : TaskStep(c, i) \/ WriteStep(c, i)

Spec == Init /\ [][Next]_vars

\* The scheduler runs every coroutine that can go on, methods return, waiters
\* get the mutex in turn, and an armed timer expires.  Nothing is assumed of
\* the clients: a write is sure to end only when the connection is over.
FairSpec ==
  /\ Spec
  /\ \A c \in Conns : WF_vars(HandlerStep(c)) /\ WF_vars(Expire(c) \/ OnTimeout(c))
  /\ \A c \in Conns, i \in Requests :
       /\ SF_vars(TaskStep(c, i))
       /\ WF_vars(WriteStep(c, i) /\ (m_sock[c] = "closed" \/ ~peerUp[c]))

(***************************************************************************)
(* Properties.                                                             *)
(***************************************************************************)
\* The type of the server's state.
TypeOK ==
  /\ m_sock \in [Conns -> {"none", "open", "closed"}]
  /\ m_mutex \in [Conns -> 0..MaxRequests]
  /\ handler \in [Conns -> {"off", "test", "recv", "reset", "go", "done"}]
  /\ timer \in [Conns -> {"off", "armed"}]
  /\ task \in [Conns -> [Requests -> Active \cup {"none", "done"}]]
  /\ rsp \in [Conns -> [Requests -> {"none", "success", "failShort", "failLong"}]]
  /\ sent \in [Conns -> 0..MaxRequests]
  /\ received \in [Conns -> 0..MaxRequests]
  /\ peerUp \in [Conns -> BOOLEAN]
  /\ out \in [Conns -> Seq(Requests \X (1..3))]
  /\ firing \in [Conns -> BOOLEAN] /\ crashed \in BOOLEAN

\* The answers of requests handled side by side do not mix on the shared
\* connection: a client gets each answer in one piece, and once; only the
\* last one may be cut off.
AnswersWhole ==
  \A c \in Conns : \A k \in 1..Len(out[c]) :
    LET part == out[c][k] IN
    /\ IF part[2] = 1 THEN k = 1 \/ out[c][k - 1][2] > 1
       ELSE k > 1 /\ out[c][k - 1] = <<part[1], part[2] - 1>>
    /\ \A j \in 1..(k - 1) : out[c][j] # part

\* Once handleClient has ended, no alive timer is left to expire under the
\* requests still being handled: it is stopped, or the socket is closed.  Only
\* a callback started before that may still cut them off.
NoTimerLeft ==
  \A c \in Conns :
    handler[c] = "done" /\ m_sock[c] = "open" => timer[c] = "off"

\* The loop has been left while the client is connected, the timer is
\* stopped, and a coroutine writes to a client that does not read.
Abandoned(c) ==
  /\ handler[c] = "done" /\ timer[c] = "off" /\ m_sock[c] = "open" /\ peerUp[c]
  /\ \E i \in Requests : task[c][i] \in {"first", "second"}

\* A socket is closed in the end, whatever its client does or does not do, by
\* the timer or by the last one that uses its session.  The one way to keep
\* it for ever is to be Abandoned: send a request, make recvProtocol fail,
\* stay connected and not read.
EveryConnectionEnds ==
  \A c \in Conns :
    <>[](m_sock[c] # "open" \/ crashed) \/ <>[]Abandoned(c)

\* No request's coroutine waits for ever, for the mutex or in a write, but on
\* a connection that is Abandoned.
TasksEnd ==
  \A c \in Conns, i \in Requests :
    <>[](task[c][i] \notin Active \/ crashed) \/ <>[]Abandoned(c)
=============================================================================
