----------------------------- MODULE TcpServer -----------------------------
(***************************************************************************)
(* TcpServer of net/tcp_server.{h,cpp} and the Sockets of net/socket.cpp   *)
(* it owns, against the table of descriptors of the process: bind, start,  *)
(* stop and its coroutine, an accept loop for each listening socket, the   *)
(* handler of each client, and the alive timer by which RpcServer closes a *)
(* client's socket from another thread.                                    *)
(*                                                                         *)
(* A Socket knows its descriptor by number, and the kernel gives the       *)
(* lowest free number away again: close() reads the number, closes it and  *)
(* forgets it in three steps, which two threads may interleave.            *)
(***************************************************************************)
EXTENDS Integers, FiniteSets

CONSTANTS Listeners,  \* listening Socket objects, each used by one bind
          Clients,    \* Socket objects of accepted clients
          MaxFd,      \* bound: descriptors the process may have open
          MaxStarts, MaxStops,  \* bounds: calls of start() and stop()
          Free, Lost  \* a descriptor that is closed; one no Socket knows

Sockets == Listeners \cup Clients
Fds == 1..MaxFd

ASSUME TcpServerAssumption ==
  /\ Listeners \cap Clients = {} /\ {Free, Lost} \cap Sockets = {} /\ Free # Lost
  /\ MaxFd \in Nat /\ MaxStarts \in Nat /\ MaxStops \in Nat

VARIABLES m_is_stop,
          m_listen_socks, \* as a set: the order does not matter
          m_sock_fd,      \* of each Socket; 0 for -1
          m_is_connect,   \* of each Socket
          table,          \* the process's descriptors: which Socket opened them
          closing,        \* who is where in close() of which Socket
          raced,          \* Sockets two closers were in at a time
          binding,        \* bind() in progress: did an address fail
          loops,          \* accept loops: the descriptor accept was called with
          tasks,          \* coroutines of stop(): Sockets still to be closed
          handler,        \* where the handler of each client is
          starts, stops,  \* calls of start() and stop() so far
          hasty,          \* does the user go on before the last run is at rest
          crashed

vars == <<m_is_stop, m_listen_socks, m_sock_fd, m_is_connect, table, closing, raced,
          binding, loops, tasks, handler, starts, stops, hasty, crashed>>
fdVars == <<m_sock_fd, m_is_connect, table, closing, raced>>
serverVars == <<m_is_stop, m_listen_socks, binding, starts, stops>>

\* Those who run close() of a Socket: the coroutine of a stop(), the alive
\* timer, and whoever holds the last reference (a destructor).
Stopper(n) == <<"stop", n>>
Timer == <<"timer", 0>>
Owner == <<"owner", 0>>
Closers == {Timer, Owner} \cup {Stopper(n) : n \in 1..MaxStops}

\* A loop runs for a listener in the n-th start(); its state is 0 at the
\* test of m_is_stop, else the number accept was called with, -1 for -1.
Loop == Listeners \X (1..MaxStarts)
LoopAt == {0, -1} \cup Fds

Init ==
  /\ m_is_stop = TRUE /\ m_listen_socks = {}
  /\ m_sock_fd = [s \in Sockets |-> 0] /\ m_is_connect = [s \in Sockets |-> FALSE]
  /\ table = [f \in Fds |-> Free]
  /\ closing = [x \in Sockets \X Closers |-> "out"] /\ raced = {}
  /\ binding = "no" /\ loops = <<>> /\ tasks = <<>>
  /\ handler = [c \in Clients |-> "new"]
  /\ starts = 0 /\ stops = 0 /\ hasty \in BOOLEAN /\ crashed = FALSE

FreeFds == {f \in Fds : table[f] = Free}

LowestFree == CHOOSE f \in FreeFds : \A g \in FreeFds : f <= g

\* newSock, and init of an accepted one: s has the lowest free descriptor.
Opened(s) == /\ m_sock_fd' = [m_sock_fd EXCEPT ![s] = LowestFree]
             /\ table' = [table EXCEPT ![LowestFree] = s]

-----------------------------------------------------------------------------
(* Socket::close().                                                        *)

Inside(s) == {p \in Closers : closing[<<s, p>>] # "out"}

\* The test, and m_is_connect = false.
CloseEnter(s, p) ==
  /\ closing[<<s, p>>] = "out"
  /\ m_is_connect[s] \/ m_sock_fd[s] # 0
  /\ m_is_connect' = [m_is_connect EXCEPT ![s] = FALSE]
  /\ closing' = [closing EXCEPT ![<<s, p>>] = "in"]
  /\ raced' = IF Inside(s) = {} THEN raced ELSE raced \cup {s}
  /\ UNCHANGED <<m_sock_fd, table>>

\* ::close(m_sock_fd), whoever owns that descriptor by now.
CloseCall(s, p) ==
  /\ closing[<<s, p>>] = "in"
  /\ IF m_sock_fd[s] = 0
       THEN closing' = [closing EXCEPT ![<<s, p>>] = "out"] /\ UNCHANGED table
       ELSE /\ closing' = [closing EXCEPT ![<<s, p>>] = "called"]
            /\ table' = [table EXCEPT ![m_sock_fd[s]] = Free]
  /\ UNCHANGED <<m_sock_fd, m_is_connect, raced>>

\* A mutant of CloseReset: the number is kept.
CloseResetKeeps(s, p) ==
  /\ closing[<<s, p>>] = "called"
  /\ closing' = [closing EXCEPT ![<<s, p>>] = "out"]
  /\ UNCHANGED <<m_sock_fd, m_is_connect, table, raced>>

\* m_sock_fd = -1.
CloseReset(s, p) ==
  /\ closing[<<s, p>>] = "called"
  /\ m_sock_fd' = [m_sock_fd EXCEPT ![s] = 0]
  /\ closing' = [closing EXCEPT ![<<s, p>>] = "out"]
  /\ UNCHANGED <<m_is_connect, table, raced>>

CloseGoesOn(s, p) ==
  /\ ~crashed /\ (CloseCall(s, p) \/ CloseReset(s, p))
  /\ UNCHANGED <<serverVars, loops, tasks, handler, hasty, crashed>>

-----------------------------------------------------------------------------
(* bind, start, stop, as their callers run them.                           *)

\* A caller that is not hasty has one thread, and after a stop() waits until
\* the coroutine and the loops have ended.
Settled ==
  hasty \/ (binding = "no" /\ tasks = <<>> /\ (m_is_stop => loops = <<>>))

\* The last reference to each of S goes, and its destructor closes it.
Dropped(S) ==
  /\ m_sock_fd' = [s \in Sockets |-> IF s \in S THEN 0 ELSE m_sock_fd[s]]
  /\ table' = [f \in Fds |-> IF \E s \in S : m_sock_fd[s] = f THEN Free ELSE table[f]]

\* Listeners an accept loop refers to, and tasks that walk over the list.
Held == {x[1] : x \in DOMAIN loops}
Walking == {n \in DOMAIN tasks : tasks[n].begun}

\* The list is changed under a coroutine that walks over it.
Crash == /\ crashed' = TRUE
         /\ UNCHANGED <<serverVars, fdVars, loops, tasks, handler, hasty>>

\* Socket::bind and listen, on a new descriptor; one that failed is closed by
\* the destructor.
BindSocket(l, ok) == IF ok THEN Opened(l) ELSE UNCHANGED <<m_sock_fd, table>>

\* bind: the next address, whether the server runs or not.  A socket that can
\* be bound and listened to joins the list, one that cannot is closed by its
\* destructor.
BindNext(l, ok) ==
  /\ ~crashed /\ (binding # "no" \/ Settled)
  /\ m_sock_fd[l] = 0 /\ l \notin m_listen_socks \cup Held /\ Inside(l) = {}
  /\ ok => FreeFds # {}
  /\ \/ ok /\ Walking # {} /\ Crash
     \/ /\ ok => Walking = {}
        /\ binding' = IF ok /\ binding # "failed" THEN "ok" ELSE "failed"
        /\ BindSocket(l, ok)
        /\ m_listen_socks' = m_listen_socks \cup (IF ok THEN {l} ELSE {})
        /\ UNCHANGED <<m_is_stop, starts, stops, m_is_connect, closing, raced, loops,
                       tasks, handler, hasty, crashed>>

\* bind: the end.  After a failure the whole list is cleared, with the
\* sockets of earlier calls.
BindEnd ==
  /\ ~crashed /\ binding # "no"
  /\ \/ binding = "failed" /\ Walking # {} /\ Crash
     \/ /\ binding = "failed" => Walking = {}
        /\ binding' = "no"
        /\ IF binding = "ok" THEN UNCHANGED <<m_listen_socks, m_sock_fd, table>>
           ELSE m_listen_socks' = {} /\ Dropped(m_listen_socks \ Held)
        /\ UNCHANGED <<m_is_stop, starts, stops, m_is_connect, closing, raced, loops,
                       tasks, handler, hasty, crashed>>

\* start: an accept loop for every listening socket.
start ==
  /\ ~crashed /\ binding = "no" /\ Settled
  /\ m_is_stop /\ starts < MaxStarts
  /\ m_is_stop' = FALSE /\ starts' = starts + 1
  /\ loops' = [x \in DOMAIN loops \cup (m_listen_socks \X {starts'}) |->
                 IF x \in DOMAIN loops THEN loops[x] ELSE 0]
  /\ UNCHANGED <<m_listen_socks, binding, stops, fdVars, tasks, handler, hasty, crashed>>

\* stop, of a running server or not: the flag; the rest is left to a coroutine.
stop ==
  /\ ~crashed /\ Settled /\ stops < MaxStops
  /\ m_is_stop' = TRUE /\ stops' = stops + 1
  /\ tasks' = [n \in DOMAIN tasks \cup {stops'} |->
                 IF n = stops' THEN [begun |-> FALSE, left |-> {}] ELSE tasks[n]]
  /\ UNCHANGED <<m_listen_socks, binding, starts, fdVars, loops, handler, hasty, crashed>>

-----------------------------------------------------------------------------
(* The coroutine of stop().                                                *)

Without(f, x) == [y \in DOMAIN f \ {x} |-> f[y]]
Busy(p) == \E s \in Sockets : closing[<<s, p>>] # "out"

TaskBegin(n) ==
  /\ ~tasks[n].begun
  /\ tasks' = [tasks EXCEPT ![n] = [begun |-> TRUE, left |-> m_listen_socks]]
  /\ UNCHANGED <<m_listen_socks, fdVars, crashed>>

\* A mutant of TaskClose: closed in name only.
TaskCloseSkips(n) ==
  /\ tasks[n].begun /\ ~Busy(Stopper(n))
  /\ \E l \in tasks[n].left :
       tasks' = [tasks EXCEPT ![n].left = @ \ {l}]
  /\ UNCHANGED <<m_listen_socks, crashed, fdVars>>

TaskClose(n) ==
  /\ tasks[n].begun /\ ~Busy(Stopper(n))
  /\ \E l \in tasks[n].left :
       /\ tasks' = [tasks EXCEPT ![n].left = @ \ {l}]
       /\ IF m_sock_fd[l] # 0 THEN CloseEnter(l, Stopper(n)) ELSE UNCHANGED fdVars
  /\ UNCHANGED <<m_listen_socks, crashed>>

\* clear(): a socket closed by nobody and held by nobody closes itself.
TaskEnd(n) ==
  /\ tasks[n].begun /\ tasks[n].left = {} /\ ~Busy(Stopper(n))
  /\ tasks' = Without(tasks, n) /\ m_listen_socks' = {}
  /\ crashed' = (Walking # {n})
  /\ Dropped(m_listen_socks \ Held)
  /\ UNCHANGED <<m_is_connect, closing, raced>>

TaskStep(n) ==
  /\ ~crashed /\ n \in DOMAIN tasks
  /\ TaskBegin(n) \/ TaskClose(n) \/ TaskEnd(n)
  /\ UNCHANGED <<m_is_stop, binding, starts, stops, loops, handler, hasty>>

-----------------------------------------------------------------------------
(* TcpServer::startAccept.                                                 *)

\* while (!m_is_stop), and the call of accept with the number of now.
LoopTest(x) ==
  /\ loops[x] = 0
  /\ IF m_is_stop
       THEN /\ loops' = Without(loops, x)
            /\ Dropped({l \in {x[1]} : l \notin m_listen_socks
                                        /\ \A y \in DOMAIN loops : y[1] = l => y = x})
       ELSE /\ loops' = [loops EXCEPT ![x] = IF m_sock_fd[x[1]] = 0 THEN -1 ELSE m_sock_fd[x[1]]]
            /\ UNCHANGED <<m_sock_fd, table>>
  /\ UNCHANGED <<m_is_connect, handler>>

Listening(f) == f \in Fds /\ table[f] \in Listeners

\* accept fails: nothing listens there any more, or no descriptor is left.
AcceptFails(x) ==
  /\ loops[x] # 0 /\ (~Listening(loops[x]) \/ FreeFds = {})
  /\ loops' = [loops EXCEPT ![x] = 0]
  /\ UNCHANGED <<m_sock_fd, m_is_connect, table, handler>>

\* A client, and a coroutine for it.
Accept(x, c) ==
  /\ Listening(loops[x]) /\ FreeFds # {} /\ handler[c] = "new"
  /\ Opened(c) /\ m_is_connect' = [m_is_connect EXCEPT ![c] = TRUE]
  /\ handler' = [handler EXCEPT ![c] = "running"]
  /\ loops' = [loops EXCEPT ![x] = 0]

\* Socket::init refuses the descriptor, and nobody closes it.
InitFails(x, c) ==
  /\ Listening(loops[x]) /\ FreeFds # {} /\ handler[c] = "new"
  /\ table' = [table EXCEPT ![LowestFree] = Lost]
  /\ handler' = [handler EXCEPT ![c] = "gone"]
  /\ loops' = [loops EXCEPT ![x] = 0]
  /\ UNCHANGED <<m_sock_fd, m_is_connect>>

LoopRuns(x) == LoopTest(x) \/ AcceptFails(x)
LoopStep(x) ==
  /\ ~crashed /\ x \in DOMAIN loops
  /\ LoopRuns(x) \/ \E c \in Clients : Accept(x, c) \/ InitFails(x, c)
  /\ UNCHANGED <<serverVars, closing, raced, tasks, hasty, crashed>>

-----------------------------------------------------------------------------
(* The handler of a client, and its end.                                   *)

\* The alive timer fires while it is armed; a callback that had begun when the
\* handler stopped the timer closes later, and holds the Socket until then.
AliveTimer(c) ==
  /\ ~crashed /\ handler[c] \notin {"new", "gone"} /\ CloseEnter(c, Timer)
  /\ UNCHANGED <<serverVars, loops, tasks, handler, hasty, crashed>>

HandlerAt(c, a, b) == handler[c] = a /\ handler' = [handler EXCEPT ![c] = b]

\* recvProtocol fails or the socket is closed: the timer is stopped and the
\* session goes.
HandlerEnds(c) == HandlerAt(c, "running", "session") /\ UNCHANGED fdVars

\* ~SocketStream: if (isConnected()) close().
SessionTest(c) ==
  /\ HandlerAt(c, "session", IF m_is_connect[c] THEN "close" ELSE "socket")
  /\ UNCHANGED fdVars
SessionClose(c) ==
  /\ HandlerAt(c, "close", "socket")
  /\ IF m_is_connect[c] \/ m_sock_fd[c] # 0 THEN CloseEnter(c, Owner) ELSE UNCHANGED fdVars

\* ~Socket: close() again, once the timer's callback has let go of it.
SocketEnd(c) ==
  /\ HandlerAt(c, "socket", "gone") /\ Inside(c) = {}
  /\ IF m_sock_fd[c] # 0 THEN CloseEnter(c, Owner) ELSE UNCHANGED fdVars

HandlerStep(c) ==
  /\ ~crashed
  /\ HandlerEnds(c) \/ SessionTest(c) \/ SessionClose(c) \/ SocketEnd(c)
  /\ UNCHANGED <<serverVars, loops, tasks, hasty, crashed>>

\* ~TcpServer: every loop, task and handler refers to the server.
Destroy ==
  /\ ~crashed /\ binding = "no" /\ loops = <<>> /\ tasks = <<>>
  /\ \A c \in Clients : handler[c] # "running"
  /\ m_listen_socks # {} /\ m_listen_socks' = {} /\ Dropped(m_listen_socks)
  /\ UNCHANGED <<m_is_stop, binding, starts, stops, m_is_connect, closing, raced, loops,
                 tasks, handler, hasty, crashed>>

-----------------------------------------------------------------------------
Next ==
  \/ \E l \in Listeners, ok \in BOOLEAN : BindNext(l, ok)
  \/ BindEnd \/ start \/ stop \/ Destroy
  \/ \E s \in Sockets, p \in Closers : CloseGoesOn(s, p)
  \/ \E n \in 1..MaxStops : TaskStep(n)
  \/ \E x \in Loop : LoopStep(x)
  \/ \E c \in Clients : AliveTimer(c) \/ HandlerStep(c)

Spec == Init /\ [][Next]_vars

\* Threads inside close(), the accept loops and, once start() runs the
\* scheduler, the coroutines of stop() run on; no client need ever come.
Fairness ==
  /\ WF_vars(\E s \in Sockets, p \in Closers : CloseGoesOn(s, p))
  /\ WF_vars(starts > 0 /\ \E n \in 1..MaxStops : TaskStep(n))
  /\ WF_vars(\E x \in DOMAIN loops : LoopRuns(x) /\ LoopStep(x))

FairSpec == Spec /\ Fairness

(***************************************************************************)
(* Properties.                                                             *)
(***************************************************************************)
\* The type of the server's state.
TypeOK ==
  /\ m_is_stop \in BOOLEAN /\ m_listen_socks \subseteq Listeners
  /\ m_sock_fd \in [Sockets -> 0..MaxFd] /\ m_is_connect \in [Sockets -> BOOLEAN]
  /\ table \in [Fds -> Sockets \cup {Free, Lost}]
  /\ closing \in [Sockets \X Closers -> {"out", "in", "called"}]
  /\ raced \subseteq Sockets
  /\ binding \in {"no", "ok", "failed"}
  /\ DOMAIN loops \subseteq Loop /\ \A x \in DOMAIN loops : loops[x] \in LoopAt
  /\ DOMAIN tasks \subseteq 1..MaxStops
  /\ \A n \in DOMAIN tasks : tasks[n] \in [begun : BOOLEAN, left : SUBSET Listeners]
  /\ handler \in [Clients -> {"new", "running", "session", "close", "socket", "gone"}]
  /\ starts \in 0..MaxStarts /\ stops \in 0..MaxStops
  /\ hasty \in BOOLEAN /\ crashed \in BOOLEAN

\* Unless two threads were in close() of one Socket at a time, a Socket's
\* descriptor is open and its own, up to the moment close() forgets it, and
\* every open descriptor is known to the Socket that opened it: nobody
\* closes another's descriptor, however soon a number is given out again,
\* and none is lost but by a failing init.
DescriptorOwned ==
  raced = {} =>
    /\ \A s \in Sockets : m_sock_fd[s] # 0 =>
         table[m_sock_fd[s]] = s \/ \E p \in Closers : closing[<<s, p>>] = "called"
    /\ \A f \in Fds : table[f] \in Sockets => m_sock_fd[table[f]] = f

\* stop() of a caller that waits for it, once start() has run the scheduler:
\* every socket listening at that time is closed and its accept loops end,
\* before the caller goes on.
StopQuiesces ==
  \A l \in Listeners :
    (l \in m_listen_socks /\ tasks # <<>> /\ starts > 0 /\ ~hasty)
      ~> (m_sock_fd[l] = 0 /\ l \notin Held)
=============================================================================
