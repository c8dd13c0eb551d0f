-------------------------- MODULE TcpServerProofs --------------------------
(***************************************************************************)
(* Proofs about TcpServer for any sockets, descriptors and bounds.         *)
(***************************************************************************)
EXTENDS TcpServer, WellFoundedInduction, TLAPS

(***************************************************************************)
(* The inductive invariant.  DescriptorOwned alone is not inductive: it    *)
(* does not say that a Socket in the middle of close() has no descriptor   *)
(* left, that only one thread is in its close(), that a destructor never   *)
(* runs on a listening Socket a coroutine of stop() is closing, or that a  *)
(* client's Socket is closed until it is accepted.                         *)
(***************************************************************************)
\* Who closes a listening Socket is a coroutine walking over the list, which
\* then still holds that Socket.
WalkersHold ==
  ~crashed =>
    /\ \A n \in Walking : tasks[n].left \subseteq m_listen_socks
    /\ \A l \in Listeners, p \in Closers : closing[<<l, p>>] # "out" =>
         l \in m_listen_socks /\ \E n \in Walking : p = Stopper(n)

\* A coroutine of stop() has closed what it has left behind.
ClosedBehind ==
  (raced = {} /\ ~crashed) =>
    \A n \in Walking : \A l \in m_listen_socks \ tasks[n].left :
      m_sock_fd[l] = 0 \/ closing[<<l, Stopper(n)>>] # "out"

\* One thread at a time is in close() of a Socket.
OneCloser ==
  raced = {} =>
    \A s \in Sockets : \A p, q \in Closers :
      closing[<<s, p>>] # "out" /\ closing[<<s, q>>] # "out" => p = q

\* Between ::close and the assignment of -1 a Socket has a number that is no
\* longer its own, and no descriptor of the process is its own.
CalledHasNone ==
  raced = {} =>
    \A s \in Sockets, p \in Closers : closing[<<s, p>>] = "called" =>
      m_sock_fd[s] # 0 /\ \A f \in Fds : table[f] # s

\* A client's Socket has no descriptor before it is accepted.
NewClosed == \A c \in Clients : handler[c] = "new" => m_sock_fd[c] = 0

\* The coroutines of stop() are numbered by the calls.
TasksNumbered == stops \in Nat /\ DOMAIN tasks \subseteq 1..stops

FdTypes ==
  /\ m_sock_fd \in [Sockets -> 0..MaxFd]
  /\ table \in [Fds -> Sockets \cup {Free, Lost}]
  /\ closing \in [Sockets \X Closers -> {"out", "in", "called"}]
  /\ raced \subseteq Sockets

\* What concerns the Sockets and their descriptors alone.
FdInv == FdTypes /\ DescriptorOwned /\ OneCloser /\ CalledHasNone

ListTypes ==
  /\ m_listen_socks \subseteq Listeners
  /\ DOMAIN tasks \subseteq 1..MaxStops
  /\ \A n \in DOMAIN tasks : tasks[n] \in [begun : BOOLEAN, left : SUBSET Listeners]
  /\ handler \in [Clients -> {"new", "running", "session", "close", "socket", "gone"}]

IInv == /\ FdInv /\ ListTypes /\ TasksNumbered
        /\ WalkersHold /\ ClosedBehind /\ NewClosed

(***************************************************************************)
(* Descriptors.                                                            *)
(***************************************************************************)
\* A set of numbers has a lowest one.
LEMMA Lowest ==
  ASSUME NEW T, T \subseteq Nat, T # {}
  PROVE  \E x \in T : \A y \in T : x <= y
<1> DEFINE R == OpToRel(<, Nat)
<1>1. IsWellFoundedOn(R, Nat)
  BY NatLessThanWellFounded
<1>2. \A x, y \in Nat : y < x => <<y, x>> \in R
  BY DEF OpToRel
<1> HIDE DEF R
<1>3. PICK x \in T : \A y \in T : ~(<<y, x>> \in R)
  BY <1>1, WFMin
<1>4. \A y \in T : x <= y
  <2> TAKE y \in T
  <2>1. x \in Nat /\ y \in Nat
    OBVIOUS
  <2>2. ~(y < x)
    BY <1>2, <1>3, <2>1
  <2> QED BY <2>1, <2>2
<1> QED BY <1>4

\* The number the kernel gives out is free.
LEMMA LowestFreeIsFree ==
  ASSUME FreeFds # {}
  PROVE  LowestFree \in Fds /\ table[LowestFree] = Free
<1>1. FreeFds \subseteq Nat
  BY TcpServerAssumption DEF FreeFds, Fds
<1>2. \E f \in FreeFds : \A g \in FreeFds : f <= g
  BY <1>1, Lowest
<1>3. LowestFree \in FreeFds
  BY <1>2, Zenon DEF LowestFree
<1> QED BY <1>3 DEF FreeFds

\* Constants.
LEMMA Names ==
  /\ Free \notin Sockets /\ Lost \notin Sockets /\ Free # Lost
  /\ Listeners \subseteq Sockets /\ Clients \subseteq Sockets
  /\ Listeners \cap Clients = {}
  /\ MaxFd \in Nat /\ Fds = 1..MaxFd /\ \A f \in 0..MaxFd : f # 0 => f \in Fds
BY TcpServerAssumption DEF Sockets, Fds

\* A descriptor is opened for a Socket that has none.
LEMMA OpenFd ==
  ASSUME FdInv, NEW s \in Sockets, m_sock_fd[s] = 0, FreeFds # {}, Opened(s),
         UNCHANGED <<closing, raced>>
  PROVE  FdInv'
<1> DEFINE f == LowestFree
<1>1. f \in Fds /\ table[f] = Free
  BY LowestFreeIsFree
<1>2. m_sock_fd' = [m_sock_fd EXCEPT ![s] = f] /\ table' = [table EXCEPT ![f] = s]
  BY DEF Opened
<1> HIDE DEF f
<1>3. FdTypes'
  BY <1>1, <1>2, Names DEF FdInv, FdTypes, Fds
<1>4. OneCloser'
  BY DEF FdInv, OneCloser
<1>5. ASSUME raced = {}
      PROVE  /\ \A g \in Fds : table[g] # s
             /\ \A p \in Closers : closing[<<s, p>>] # "called"
  BY <1>5, Names DEF FdInv, DescriptorOwned, CalledHasNone
<1>6. DescriptorOwned'
  <2> SUFFICES ASSUME raced = {} PROVE DescriptorOwned'
    BY DEF DescriptorOwned
  <2>1. ASSUME NEW t \in Sockets, m_sock_fd'[t] # 0
        PROVE  table'[m_sock_fd'[t]] = t \/ \E p \in Closers : closing'[<<t, p>>] = "called"
    <3>1. CASE t = s
      BY <1>1, <1>2, <3>1 DEF FdInv, FdTypes
    <3>2. CASE t # s
      <4>1. m_sock_fd'[t] = m_sock_fd[t] /\ m_sock_fd[t] \in Fds
        BY <1>2, <2>1, <3>2, Names DEF FdInv, FdTypes
      <4>2. table[m_sock_fd[t]] = t \/ \E p \in Closers : closing[<<t, p>>] = "called"
        BY <2>1, <4>1 DEF FdInv, DescriptorOwned
      <4>3. table[m_sock_fd[t]] = t => m_sock_fd[t] # f
        BY <1>1, Names
      <4> QED BY <1>2, <4>1, <4>2, <4>3 DEF FdInv, FdTypes
    <3> QED BY <3>1, <3>2
  <2>2. ASSUME NEW g \in Fds, table'[g] \in Sockets
        PROVE  m_sock_fd'[table'[g]] = g
    <3>1. CASE g = f
      BY <1>1, <1>2, <3>1 DEF FdInv, FdTypes
    <3>2. CASE g # f
      <4>1. table'[g] = table[g] /\ table[g] # s
        BY <1>2, <1>5, <3>2 DEF FdInv, FdTypes
      <4> QED BY <1>2, <2>2, <4>1 DEF FdInv, FdTypes, DescriptorOwned
    <3> QED BY <3>1, <3>2
  <2> QED BY <2>1, <2>2 DEF DescriptorOwned
<1>7. CalledHasNone'
  <2> SUFFICES ASSUME raced = {}, NEW t \in Sockets, NEW p \in Closers,
                      closing[<<t, p>>] = "called"
               PROVE  m_sock_fd'[t] # 0 /\ \A g \in Fds : table'[g] # t
    BY DEF CalledHasNone
  <2>1. t # s /\ m_sock_fd[t] # 0 /\ \A g \in Fds : table[g] # t
    BY <1>5 DEF FdInv, CalledHasNone
  <2> QED BY <1>1, <1>2, <2>1 DEF FdInv, FdTypes
<1> QED BY <1>3, <1>4, <1>6, <1>7 DEF FdInv

\* A descriptor is opened that no Socket will know.
LEMMA LoseFd ==
  ASSUME FdInv, FreeFds # {}, table' = [table EXCEPT ![LowestFree] = Lost],
         UNCHANGED <<m_sock_fd, closing, raced>>
  PROVE  FdInv'
<1> DEFINE f == LowestFree
<1>1. f \in Fds /\ table[f] = Free /\ table' = [table EXCEPT ![f] = Lost]
  BY LowestFreeIsFree
<1> HIDE DEF f
<1>2. FdTypes'
  BY <1>1 DEF FdInv, FdTypes
<1>3. \A g \in Fds : table'[g] = (IF g = f THEN Lost ELSE table[g])
  BY <1>1 DEF FdInv, FdTypes
<1>4. DescriptorOwned'
  <2> SUFFICES ASSUME raced = {} PROVE DescriptorOwned'
    BY DEF DescriptorOwned
  <2>1. ASSUME NEW t \in Sockets, m_sock_fd[t] # 0
        PROVE  table'[m_sock_fd[t]] = t \/ \E p \in Closers : closing[<<t, p>>] = "called"
    <3>1. m_sock_fd[t] \in Fds
      BY <2>1, Names DEF FdInv, FdTypes
    <3> QED BY <1>1, <1>3, <2>1, <3>1, Names DEF FdInv, DescriptorOwned
  <2>2. ASSUME NEW g \in Fds, table'[g] \in Sockets
        PROVE  m_sock_fd[table'[g]] = g
    BY <1>3, <2>2, Names DEF FdInv, DescriptorOwned
  <2> QED BY <2>1, <2>2 DEF DescriptorOwned
<1>5. OneCloser' /\ CalledHasNone'
  BY <1>3, Names DEF FdInv, OneCloser, CalledHasNone
<1> QED BY <1>2, <1>4, <1>5 DEF FdInv

\* close(), the test.
LEMMA CloseEnterFd ==
  ASSUME FdInv, NEW s \in Sockets, NEW p \in Closers, CloseEnter(s, p)
  PROVE  FdInv'
<1>1. /\ closing[<<s, p>>] = "out" /\ closing' = [closing EXCEPT ![<<s, p>>] = "in"]
      /\ raced' = IF Inside(s) = {} THEN raced ELSE raced \cup {s}
      /\ UNCHANGED <<m_sock_fd, table>>
  BY DEF CloseEnter
<1>2. \A t \in Sockets, q \in Closers :
        closing'[<<t, q>>] = (IF t = s /\ q = p THEN "in" ELSE closing[<<t, q>>])
  BY <1>1 DEF FdInv, FdTypes
<1>3. FdTypes'
  BY <1>1 DEF FdInv, FdTypes
<1>4. raced' = {} => raced = {} /\ \A q \in Closers : closing[<<s, q>>] = "out"
  BY <1>1 DEF Inside
<1>5. OneCloser'
  BY <1>2, <1>4 DEF FdInv, OneCloser
<1>6. CalledHasNone'
  BY <1>1, <1>2, <1>4 DEF FdInv, CalledHasNone
<1>7. DescriptorOwned'
  BY <1>1, <1>2, <1>4 DEF FdInv, DescriptorOwned
<1> QED BY <1>3, <1>5, <1>6, <1>7 DEF FdInv

\* close(), the call of the system.
LEMMA CloseCallFd ==
  ASSUME FdInv, NEW s \in Sockets, NEW p \in Closers, CloseCall(s, p)
  PROVE  FdInv'
<1>1. closing[<<s, p>>] = "in" /\ UNCHANGED <<m_sock_fd, raced>>
  BY DEF CloseCall
<1>2. raced = {} => \A q \in Closers : closing[<<s, q>>] # "called"
                                       /\ (q # p => closing[<<s, q>>] = "out")
  BY <1>1 DEF FdInv, FdTypes, OneCloser
<1>3. CASE m_sock_fd[s] = 0
  <2>1. closing' = [closing EXCEPT ![<<s, p>>] = "out"] /\ UNCHANGED table
    BY <1>3 DEF CloseCall
  <2>2. \A t \in Sockets, q \in Closers :
          closing'[<<t, q>>] = (IF t = s /\ q = p THEN "out" ELSE closing[<<t, q>>])
    BY <2>1 DEF FdInv, FdTypes
  <2>3. FdTypes'
    BY <1>1, <2>1 DEF FdInv, FdTypes
  <2>4. OneCloser' /\ CalledHasNone'
    BY <1>1, <2>1, <2>2 DEF FdInv, OneCloser, CalledHasNone
  <2>5. DescriptorOwned'
    BY <1>1, <1>3, <2>1, <2>2 DEF FdInv, DescriptorOwned
  <2> QED BY <2>3, <2>4, <2>5 DEF FdInv
<1>4. CASE m_sock_fd[s] # 0
  <2> DEFINE f == m_sock_fd[s]
  <2>1. /\ closing' = [closing EXCEPT ![<<s, p>>] = "called"]
        /\ table' = [table EXCEPT ![f] = Free] /\ f \in Fds
    BY <1>4, Names DEF CloseCall, FdInv, FdTypes
  <2>2. \A t \in Sockets, q \in Closers :
          closing'[<<t, q>>] = (IF t = s /\ q = p THEN "called" ELSE closing[<<t, q>>])
    BY <2>1 DEF FdInv, FdTypes
  <2>3. \A g \in Fds : table'[g] = (IF g = f THEN Free ELSE table[g])
    BY <2>1 DEF FdInv, FdTypes
  <2>4. FdTypes'
    BY <1>1, <2>1 DEF FdInv, FdTypes
  <2>5. raced = {} => table[f] = s /\ \A g \in Fds : table[g] = s => g = f
    BY <1>2, <1>4 DEF FdInv, DescriptorOwned
  <2>6. OneCloser'
    BY <1>1, <1>2, <2>2 DEF FdInv, OneCloser
  <2>7. CalledHasNone'
    <3> SUFFICES ASSUME raced = {}, NEW t \in Sockets, NEW q \in Closers,
                        closing'[<<t, q>>] = "called"
                 PROVE  m_sock_fd[t] # 0 /\ \A g \in Fds : table'[g] # t
      BY <1>1 DEF CalledHasNone
    <3>1. CASE t = s
      BY <1>4, <2>3, <2>5, <3>1, Names
    <3>2. CASE t # s
      BY <2>2, <2>3, <3>2, Names DEF FdInv, CalledHasNone
    <3> QED BY <3>1, <3>2
  <2>8. DescriptorOwned'
    <3> SUFFICES ASSUME raced = {} PROVE DescriptorOwned'
      BY <1>1 DEF DescriptorOwned
    <3>1. ASSUME NEW t \in Sockets, m_sock_fd[t] # 0
          PROVE  table'[m_sock_fd[t]] = t \/ \E q \in Closers : closing'[<<t, q>>] = "called"
      <4>1. CASE t = s
        BY <2>2, <4>1
      <4>2. CASE t # s
        <5>1. m_sock_fd[t] \in Fds
          BY <3>1, Names DEF FdInv, FdTypes
        <5>2. table[m_sock_fd[t]] = t \/ \E q \in Closers : closing[<<t, q>>] = "called"
          BY <3>1 DEF FdInv, DescriptorOwned
        <5>3. table[m_sock_fd[t]] = t => m_sock_fd[t] # f
          BY <2>5, <4>2
        <5> QED BY <2>2, <2>3, <4>2, <5>1, <5>2, <5>3
      <4> QED BY <4>1, <4>2
    <3>2. ASSUME NEW g \in Fds, table'[g] \in Sockets
          PROVE  m_sock_fd[table'[g]] = g
      BY <2>3, <3>2, Names DEF FdInv, DescriptorOwned
    <3> QED BY <1>1, <3>1, <3>2 DEF DescriptorOwned
  <2> QED BY <2>4, <2>6, <2>7, <2>8 DEF FdInv
<1> QED BY <1>3, <1>4

\* close(), the number forgotten.
LEMMA CloseResetFd ==
  ASSUME FdInv, NEW s \in Sockets, NEW p \in Closers, CloseReset(s, p)
  PROVE  FdInv'
<1>1. /\ closing[<<s, p>>] = "called" /\ UNCHANGED <<table, raced>>
      /\ m_sock_fd' = [m_sock_fd EXCEPT ![s] = 0]
      /\ closing' = [closing EXCEPT ![<<s, p>>] = "out"]
  BY DEF CloseReset
<1>2. \A t \in Sockets, q \in Closers :
        closing'[<<t, q>>] = (IF t = s /\ q = p THEN "out" ELSE closing[<<t, q>>])
  BY <1>1 DEF FdInv, FdTypes
<1>3. \A t \in Sockets : m_sock_fd'[t] = (IF t = s THEN 0 ELSE m_sock_fd[t])
  BY <1>1 DEF FdInv, FdTypes
<1>4. FdTypes'
  BY <1>1, Names DEF FdInv, FdTypes
<1>5. raced = {} => /\ \A f \in Fds : table[f] # s
                    /\ \A q \in Closers : closing'[<<s, q>>] = "out"
  BY <1>1, <1>2 DEF FdInv, FdTypes, OneCloser, CalledHasNone
<1>6. OneCloser'
  BY <1>1, <1>2 DEF FdInv, OneCloser
<1>7. CalledHasNone'
  BY <1>1, <1>2, <1>3, <1>5 DEF FdInv, CalledHasNone
<1>8. DescriptorOwned'
  BY <1>1, <1>2, <1>3, <1>5 DEF FdInv, DescriptorOwned
<1> QED BY <1>4, <1>6, <1>7, <1>8 DEF FdInv

\* Destructors close Sockets that nobody is closing.
LEMMA DropFd ==
  ASSUME FdInv, NEW S \in SUBSET Sockets, Dropped(S), UNCHANGED <<closing, raced>>,
         raced = {} => \A s \in S, p \in Closers : closing[<<s, p>>] # "called"
  PROVE  FdInv'
<1>1. \A t \in Sockets : m_sock_fd'[t] = (IF t \in S THEN 0 ELSE m_sock_fd[t])
  BY DEF Dropped
<1>2. \A f \in Fds : table'[f] = (IF \E s \in S : m_sock_fd[s] = f THEN Free ELSE table[f])
  BY DEF Dropped
<1>3. FdTypes'
  <2>1. \A t \in Sockets : m_sock_fd'[t] \in 0..MaxFd
    BY <1>1, Names DEF FdInv, FdTypes
  <2>2. \A f \in Fds : table'[f] \in Sockets \cup {Free, Lost}
    BY <1>2 DEF FdInv, FdTypes
  <2>3. m_sock_fd' \in [Sockets -> 0..MaxFd] /\ table' \in [Fds -> Sockets \cup {Free, Lost}]
    BY <2>1, <2>2 DEF Dropped
  <2> QED BY <2>3 DEF FdInv, FdTypes
<1>4. OneCloser'
  BY DEF FdInv, OneCloser
<1>5. raced = {} => \A s \in S : m_sock_fd[s] # 0 => table[m_sock_fd[s]] = s
  BY DEF FdInv, DescriptorOwned
<1>6. DescriptorOwned'
  <2> SUFFICES ASSUME raced = {} PROVE DescriptorOwned'
    BY DEF DescriptorOwned
  <2>1. ASSUME NEW t \in Sockets, m_sock_fd'[t] # 0
        PROVE  table'[m_sock_fd'[t]] = t \/ \E p \in Closers : closing[<<t, p>>] = "called"
    <3>1. t \notin S /\ m_sock_fd'[t] = m_sock_fd[t] /\ m_sock_fd[t] \in Fds
      BY <1>1, <2>1, Names DEF FdInv, FdTypes
    <3>2. table[m_sock_fd[t]] = t \/ \E p \in Closers : closing[<<t, p>>] = "called"
      BY <2>1, <3>1 DEF FdInv, DescriptorOwned
    <3>3. m_sock_fd[t] # 0
      BY <2>1, <3>1
    <3>4. table[m_sock_fd[t]] = t => ~ \E s \in S : m_sock_fd[s] = m_sock_fd[t]
      BY <1>5, <3>1, <3>3
    <3> QED BY <1>2, <3>1, <3>2, <3>4
  <2>2. ASSUME NEW g \in Fds, table'[g] \in Sockets
        PROVE  m_sock_fd'[table'[g]] = g
    <3>1. table'[g] = table[g] /\ ~ \E s \in S : m_sock_fd[s] = g
      BY <1>2, <2>2, Names
    <3>2. m_sock_fd[table[g]] = g
      BY <2>2, <3>1 DEF FdInv, DescriptorOwned
    <3> QED BY <1>1, <2>2, <3>1, <3>2
  <2> QED BY <2>1, <2>2 DEF DescriptorOwned
<1>7. CalledHasNone'
  <2> SUFFICES ASSUME raced = {}, NEW t \in Sockets, NEW p \in Closers,
                      closing[<<t, p>>] = "called"
               PROVE  m_sock_fd'[t] # 0 /\ \A g \in Fds : table'[g] # t
    BY DEF CalledHasNone
  <2>1. t \notin S /\ m_sock_fd[t] # 0 /\ \A g \in Fds : table[g] # t
    BY DEF FdInv, CalledHasNone
  <2> QED BY <1>1, <1>2, <2>1, Names
<1> QED BY <1>3, <1>4, <1>6, <1>7 DEF FdInv

\* A step that leaves the descriptors alone.
LEMMA SameFd ==
  ASSUME FdInv, UNCHANGED <<m_sock_fd, table, closing, raced>>
  PROVE  FdInv'
BY DEF FdInv, FdTypes, DescriptorOwned, OneCloser, CalledHasNone

(***************************************************************************)
(* The steps.                                                              *)
(***************************************************************************)
\* A server has no descriptor at first.
LEMMA InitIInv == Init => IInv
<1> SUFFICES ASSUME Init PROVE IInv
  OBVIOUS
<1>1. FdTypes
  BY Names DEF Init, FdTypes
<1>2. \A s \in Sockets : m_sock_fd[s] = 0
  BY DEF Init
<1>3. \A f \in Fds : table[f] = Free
  BY DEF Init
<1>4. \A s \in Sockets, p \in Closers : closing[<<s, p>>] = "out"
  BY DEF Init
<1>5. DescriptorOwned /\ OneCloser /\ CalledHasNone
  BY <1>2, <1>3, <1>4, Names DEF DescriptorOwned, OneCloser, CalledHasNone
<1>6. DOMAIN tasks = {} /\ m_listen_socks = {} /\ stops = 0
  BY DEF Init
<1>7. ListTypes
  BY <1>6 DEF Init, ListTypes
<1>8. WalkersHold /\ ClosedBehind /\ TasksNumbered
  BY <1>4, <1>6, Names DEF WalkersHold, ClosedBehind, TasksNumbered, Walking
<1>9. NewClosed
  BY <1>2, Names DEF NewClosed
<1> QED BY <1>1, <1>5, <1>7, <1>8, <1>9 DEF IInv, FdInv

\* A step of someone else: what the coroutines of stop() rely on stays true
\* if no listening Socket is opened and nobody enters its close().
LEMMA TasksUndisturbed ==
  ASSUME IInv, UNCHANGED <<m_listen_socks, tasks, stops>>,
         crashed' = crashed, raced' = {} => raced = {},
         \A l \in Listeners : \A p \in Closers :
           closing'[<<l, p>>] # "out" => closing[<<l, p>>] # "out",
         \A l \in Listeners : m_sock_fd'[l] = 0
           \/ (/\ m_sock_fd'[l] = m_sock_fd[l]
               /\ \A p \in Closers : closing[<<l, p>>] # "out" => closing'[<<l, p>>] # "out")
  PROVE  WalkersHold' /\ ClosedBehind' /\ TasksNumbered'
<1>1. Walking' = Walking
  BY DEF Walking
<1>2. \A n \in Walking : Stopper(n) \in Closers
  BY DEF IInv, ListTypes, Walking, Closers
<1>3. WalkersHold'
  BY <1>1 DEF IInv, WalkersHold
<1>4. ClosedBehind'
  <2> SUFFICES ASSUME raced' = {}, ~crashed, NEW n \in Walking,
                      NEW l \in m_listen_socks \ tasks[n].left
               PROVE  m_sock_fd'[l] = 0 \/ closing'[<<l, Stopper(n)>>] # "out"
    BY <1>1 DEF ClosedBehind
  <2>1. m_sock_fd[l] = 0 \/ closing[<<l, Stopper(n)>>] # "out"
    BY DEF IInv, ClosedBehind
  <2>2. l \in Listeners
    BY DEF IInv, ListTypes
  <2> QED BY <1>2, <2>1, <2>2
<1>5. TasksNumbered'
  BY DEF IInv, TasksNumbered
<1> QED BY <1>3, <1>4, <1>5

\* A process that has ended.
LEMMA CrashStep ==
  ASSUME IInv, Crash
  PROVE  IInv'
<1>1. /\ crashed' = TRUE
      /\ UNCHANGED <<m_listen_socks, stops, m_sock_fd, table, closing, raced, tasks, handler>>
  BY DEF Crash, serverVars, fdVars
<1>2. FdInv'
  BY <1>1, SameFd DEF IInv
<1>3. ListTypes' /\ TasksNumbered' /\ NewClosed'
  BY <1>1 DEF IInv, ListTypes, TasksNumbered, NewClosed
<1>4. WalkersHold' /\ ClosedBehind'
  BY <1>1 DEF WalkersHold, ClosedBehind
<1> QED BY <1>2, <1>3, <1>4 DEF IInv

\* Nobody is in close() of a listening Socket while no coroutine walks.
LEMMA NoWalker ==
  ASSUME IInv, ~crashed, Walking = {}
  PROVE  \A l \in Listeners, p \in Closers : closing[<<l, p>>] = "out"
BY DEF IInv, WalkersHold

\* Without a coroutine that walks there is nothing to say of them.
LEMMA NobodyWalks ==
  ASSUME Walking' = {}, \A l \in Listeners, p \in Closers : closing'[<<l, p>>] = "out"
  PROVE  WalkersHold' /\ ClosedBehind'
BY DEF WalkersHold, ClosedBehind

\* bind, an address.
LEMMA BindNextStep ==
  ASSUME IInv, NEW l \in Listeners, NEW ok \in BOOLEAN, BindNext(l, ok)
  PROVE  IInv'
<1>1. ~crashed /\ m_sock_fd[l] = 0 /\ (ok => FreeFds # {})
  BY DEF BindNext
<1>2. CASE ok /\ Walking # {} /\ Crash
  BY <1>2, CrashStep
<1>3. CASE /\ ok => Walking = {}
           /\ BindSocket(l, ok)
           /\ m_listen_socks' = m_listen_socks \cup (IF ok THEN {l} ELSE {})
           /\ UNCHANGED <<stops, closing, raced, tasks, handler, crashed>>
  <2>1. CASE ok
    <3>1. Walking = {} /\ Opened(l) /\ m_listen_socks' = m_listen_socks \cup {l}
      BY <1>3, <2>1 DEF BindSocket
    <3>2. FdInv'
      BY <1>1, <1>3, <2>1, <3>1, OpenFd, Names DEF IInv
    <3>3. ListTypes' /\ TasksNumbered'
      BY <1>3, <3>1 DEF IInv, ListTypes, TasksNumbered
    <3>4. Walking' = {}
      BY <1>3, <3>1 DEF Walking
    <3>5. WalkersHold' /\ ClosedBehind'
      BY <1>1, <1>3, <3>1, <3>4, NoWalker, NobodyWalks
    <3>6. NewClosed'
      BY <1>3, <3>1, Names DEF IInv, FdInv, FdTypes, NewClosed, Opened
    <3> QED BY <3>2, <3>3, <3>5, <3>6 DEF IInv
  <2>2. CASE ~ok
    <3>1. UNCHANGED <<m_sock_fd, table, m_listen_socks>>
      BY <1>3, <2>2 DEF BindSocket
    <3>2. FdInv'
      BY <1>3, <3>1, SameFd DEF IInv
    <3>3. ListTypes' /\ NewClosed'
      BY <1>3, <3>1 DEF IInv, ListTypes, NewClosed
    <3>4. WalkersHold' /\ ClosedBehind' /\ TasksNumbered'
      BY <1>3, <3>1, TasksUndisturbed
    <3> QED BY <3>2, <3>3, <3>4 DEF IInv
  <2> QED BY <2>1, <2>2
<1> QED BY <1>2, <1>3, Zenon DEF BindNext

\* The list is cleared, and with it go Sockets nobody is closing.
LEMMA ListCleared ==
  ASSUME IInv, ~crashed, Walking = {}, NEW S \in SUBSET m_listen_socks, Dropped(S),
         m_listen_socks' = {}, UNCHANGED <<stops, closing, raced, tasks, handler, crashed>>
  PROVE  IInv'
<1>1. \A l \in Listeners, p \in Closers : closing[<<l, p>>] = "out"
  BY NoWalker
<1>2. S \subseteq Listeners /\ S \in SUBSET Sockets
  BY Names DEF IInv, ListTypes
<1>3. FdInv'
  BY <1>1, <1>2, DropFd DEF IInv
<1>4. ListTypes' /\ TasksNumbered'
  BY DEF IInv, ListTypes, TasksNumbered
<1>5. Walking' = {}
  BY DEF Walking
<1>6. WalkersHold' /\ ClosedBehind'
  BY <1>1, <1>5, NobodyWalks
<1>7. NewClosed'
  BY Names DEF IInv, NewClosed, Dropped
<1> QED BY <1>3, <1>4, <1>6, <1>7 DEF IInv

\* bind, the end.
LEMMA BindEndStep ==
  ASSUME IInv, BindEnd, binding \in {"ok", "failed"}
  PROVE  IInv'
<1>1. CASE binding = "failed" /\ Walking # {} /\ Crash
  BY <1>1, CrashStep
<1>2. CASE /\ binding = "failed" => Walking = {}
           /\ IF binding = "ok" THEN UNCHANGED <<m_listen_socks, m_sock_fd, table>>
              ELSE m_listen_socks' = {} /\ Dropped(m_listen_socks \ Held)
           /\ UNCHANGED <<stops, closing, raced, tasks, handler, crashed>>
  <2>1. CASE binding = "ok"
    <3>1. FdInv'
      BY <1>2, <2>1, SameFd DEF IInv
    <3>2. ListTypes' /\ NewClosed'
      BY <1>2, <2>1 DEF IInv, ListTypes, NewClosed
    <3>3. WalkersHold' /\ ClosedBehind' /\ TasksNumbered'
      BY <1>2, <2>1, TasksUndisturbed
    <3> QED BY <3>1, <3>2, <3>3 DEF IInv
  <2>2. CASE binding # "ok"
    <3>1. Walking = {} /\ ~crashed
      BY <1>2, <2>2 DEF BindEnd
    <3>2. m_listen_socks' = {} /\ Dropped(m_listen_socks \ Held)
      BY <1>2, <2>2
    <3>3. m_listen_socks \ Held \in SUBSET m_listen_socks
      OBVIOUS
    <3> QED BY <1>2, <3>1, <3>2, <3>3, ListCleared
  <2> QED BY <2>1, <2>2
<1> QED BY <1>1, <1>2, Zenon DEF BindEnd

\* ~TcpServer.
LEMMA DestroyStep ==
  ASSUME IInv, Destroy
  PROVE  IInv'
<1>1. /\ ~crashed /\ tasks = <<>> /\ m_listen_socks' = {} /\ Dropped(m_listen_socks)
      /\ UNCHANGED <<stops, closing, raced, tasks, handler, crashed>>
  BY DEF Destroy
<1>2. Walking = {}
  BY <1>1 DEF Walking
<1>3. m_listen_socks \in SUBSET m_listen_socks
  OBVIOUS
<1> QED BY <1>1, <1>2, <1>3, ListCleared

\* start.
LEMMA StartStep ==
  ASSUME IInv, start
  PROVE  IInv'
<1>1. UNCHANGED <<m_listen_socks, stops, m_sock_fd, table, closing, raced, tasks, handler,
                  crashed>>
  BY DEF start, fdVars
<1>2. FdInv'
  BY <1>1, SameFd DEF IInv
<1>3. ListTypes' /\ NewClosed'
  BY <1>1 DEF IInv, ListTypes, NewClosed
<1>4. WalkersHold' /\ ClosedBehind' /\ TasksNumbered'
  BY <1>1, TasksUndisturbed
<1> QED BY <1>2, <1>3, <1>4 DEF IInv

\* stop: one more coroutine, which has not begun.
LEMMA StopStep ==
  ASSUME IInv, stop
  PROVE  IInv'
<1>1. /\ stops < MaxStops /\ stops' = stops + 1
      /\ tasks' = [n \in DOMAIN tasks \cup {stops'} |->
                     IF n = stops' THEN [begun |-> FALSE, left |-> {}] ELSE tasks[n]]
      /\ UNCHANGED <<m_listen_socks, m_sock_fd, table, closing, raced, handler, crashed>>
  BY DEF stop, fdVars
<1>2. FdInv'
  BY <1>1, SameFd DEF IInv
<1>3. stops \in Nat /\ MaxStops \in Nat /\ stops' \in Nat /\ stops' \in 1..MaxStops
      /\ stops' \notin DOMAIN tasks
  BY <1>1, TcpServerAssumption DEF IInv, TasksNumbered
<1>4. /\ DOMAIN tasks' = DOMAIN tasks \cup {stops'}
      /\ tasks'[stops'] = [begun |-> FALSE, left |-> {}]
      /\ \A n \in DOMAIN tasks : tasks'[n] = tasks[n]
  BY <1>1, <1>3
<1>5. ListTypes'
  BY <1>1, <1>3, <1>4 DEF IInv, ListTypes
<1>6. TasksNumbered'
  BY <1>1, <1>3, <1>4 DEF IInv, TasksNumbered
<1>7. Walking' = Walking /\ \A n \in Walking : tasks'[n] = tasks[n]
  BY <1>4 DEF Walking
<1>8. WalkersHold' /\ ClosedBehind'
  BY <1>1, <1>7 DEF IInv, WalkersHold, ClosedBehind
<1>9. NewClosed'
  BY <1>1 DEF IInv, NewClosed
<1> QED BY <1>2, <1>5, <1>6, <1>8, <1>9 DEF IInv

\* close() goes on.
LEMMA CloseStep ==
  ASSUME IInv, NEW s \in Sockets, NEW p \in Closers, CloseGoesOn(s, p)
  PROVE  IInv'
<1>1. UNCHANGED <<m_listen_socks, stops, tasks, handler, crashed>>
  BY DEF CloseGoesOn, serverVars
<1>2. CASE CloseCall(s, p)
  <2>1. closing[<<s, p>>] = "in" /\ UNCHANGED <<m_sock_fd, raced>>
    BY <1>2 DEF CloseCall
  <2>2. \A t \in Sockets, q \in Closers : <<t, q>> # <<s, p>> =>
          closing'[<<t, q>>] = closing[<<t, q>>]
    BY <1>2 DEF CloseCall, IInv, FdInv, FdTypes
  <2>3. m_sock_fd[s] # 0 => closing'[<<s, p>>] = "called"
    BY <1>2 DEF CloseCall, IInv, FdInv, FdTypes
  <2>4. \A l \in Listeners, q \in Closers :
          closing'[<<l, q>>] # "out" => closing[<<l, q>>] # "out"
    BY <2>1, <2>2, Names
  <2>5. \A l \in Listeners, q \in Closers :
          m_sock_fd[l] # 0 /\ closing[<<l, q>>] # "out" => closing'[<<l, q>>] # "out"
    BY <2>1, <2>2, <2>3, Names
  <2>6. WalkersHold' /\ ClosedBehind' /\ TasksNumbered'
    BY <1>1, <2>1, <2>4, <2>5, TasksUndisturbed
  <2>7. FdInv'
    BY <1>2, CloseCallFd DEF IInv
  <2>8. ListTypes' /\ NewClosed'
    BY <1>1, <2>1 DEF IInv, ListTypes, NewClosed
  <2> QED BY <2>6, <2>7, <2>8 DEF IInv
<1>3. CASE CloseReset(s, p)
  <2>1. /\ closing[<<s, p>>] = "called" /\ UNCHANGED raced
        /\ \A t \in Sockets : m_sock_fd'[t] = IF t = s THEN 0 ELSE m_sock_fd[t]
    BY <1>3 DEF CloseReset, IInv, FdInv, FdTypes
  <2>2. \A t \in Sockets, q \in Closers :
          closing'[<<t, q>>] = IF <<t, q>> = <<s, p>> THEN "out" ELSE closing[<<t, q>>]
    BY <1>3 DEF CloseReset, IInv, FdInv, FdTypes
  <2>3. \A l \in Listeners, q \in Closers :
          closing'[<<l, q>>] # "out" => closing[<<l, q>>] # "out"
    BY <2>1, <2>2, Names
  <2>4. \A l \in Listeners : m_sock_fd'[l] = 0
           \/ (/\ m_sock_fd'[l] = m_sock_fd[l]
               /\ \A q \in Closers : closing[<<l, q>>] # "out" => closing'[<<l, q>>] # "out")
    BY <2>1, <2>2, Names
  <2>5. WalkersHold' /\ ClosedBehind' /\ TasksNumbered'
    BY <1>1, <2>1, <2>3, <2>4, TasksUndisturbed
  <2>6. FdInv'
    BY <1>3, CloseResetFd DEF IInv
  <2>7. ListTypes' /\ NewClosed'
    BY <1>1, <2>1, Names DEF IInv, ListTypes, NewClosed
  <2> QED BY <2>5, <2>6, <2>7 DEF IInv
<1> QED BY <1>2, <1>3 DEF CloseGoesOn

\* The coroutine of stop() begins to walk over the list.
LEMMA TaskBeginStep ==
  ASSUME IInv, NEW n \in DOMAIN tasks, TaskBegin(n), ~crashed, UNCHANGED <<stops, handler>>
  PROVE  IInv'
<1>1. /\ ~tasks[n].begun
      /\ tasks' = [tasks EXCEPT ![n] = [begun |-> TRUE, left |-> m_listen_socks]]
      /\ UNCHANGED <<m_listen_socks, m_sock_fd, table, closing, raced, crashed>>
  BY DEF TaskBegin, fdVars
<1>2. /\ DOMAIN tasks' = DOMAIN tasks
      /\ tasks'[n] = [begun |-> TRUE, left |-> m_listen_socks]
      /\ \A m \in DOMAIN tasks : m # n => tasks'[m] = tasks[m]
  BY <1>1
<1>3. Walking' = Walking \cup {n} /\ n \notin Walking
  BY <1>1, <1>2 DEF Walking
<1>4. FdInv'
  BY <1>1, SameFd DEF IInv
<1>5. ListTypes' /\ TasksNumbered' /\ NewClosed'
  BY <1>1, <1>2 DEF IInv, ListTypes, TasksNumbered, NewClosed
<1>6. \A m \in Walking : m # n /\ tasks'[m] = tasks[m]
  BY <1>2, <1>3 DEF Walking
<1>7. WalkersHold'
  BY <1>1, <1>2, <1>3, <1>6 DEF IInv, WalkersHold
<1>8. ClosedBehind'
  BY <1>1, <1>2, <1>3, <1>6 DEF IInv, ClosedBehind
<1> QED BY <1>4, <1>5, <1>7, <1>8 DEF IInv

\* The coroutine of stop() closes a Socket.
LEMMA TaskCloseStep ==
  ASSUME IInv, NEW n \in DOMAIN tasks, TaskClose(n), ~crashed, UNCHANGED <<stops, handler>>
  PROVE  IInv'
<1>1. tasks[n].begun /\ UNCHANGED <<m_listen_socks, crashed>>
  BY DEF TaskClose
<1>2. PICK l \in tasks[n].left :
        /\ tasks' = [tasks EXCEPT ![n].left = @ \ {l}]
        /\ IF m_sock_fd[l] # 0 THEN CloseEnter(l, Stopper(n)) ELSE UNCHANGED fdVars
  BY DEF TaskClose
<1>3. n \in Walking /\ Stopper(n) \in Closers
  BY <1>1 DEF IInv, ListTypes, Walking, Closers
<1>4. l \in m_listen_socks /\ l \in Listeners /\ l \in Sockets
  BY <1>2, <1>3, Names DEF IInv, ListTypes, WalkersHold
<1>5. tasks[n] \in [begun : BOOLEAN, left : SUBSET Listeners]
  BY DEF IInv, ListTypes
<1>6. /\ DOMAIN tasks' = DOMAIN tasks
      /\ tasks'[n] = [tasks[n] EXCEPT !.left = @ \ {l}]
      /\ \A m \in DOMAIN tasks : m # n => tasks'[m] = tasks[m]
  BY <1>2
<1>7. tasks'[n].begun = tasks[n].begun /\ tasks'[n].left = tasks[n].left \ {l}
      /\ tasks'[n] \in [begun : BOOLEAN, left : SUBSET Listeners]
  BY <1>5, <1>6
<1>8. Walking' = Walking
  BY <1>1, <1>6, <1>7 DEF Walking
<1>9. ListTypes' /\ TasksNumbered'
  <2>1. \A m \in DOMAIN tasks' : tasks'[m] \in [begun : BOOLEAN, left : SUBSET Listeners]
    BY <1>6, <1>7 DEF IInv, ListTypes
  <2> QED BY <1>1, <1>6, <2>1 DEF IInv, ListTypes, TasksNumbered
<1>10. \A m \in Walking : tasks'[m].left \subseteq tasks[m].left
                          /\ (m # n => tasks'[m].left = tasks[m].left)
  BY <1>6, <1>7 DEF Walking
<1>11. CASE m_sock_fd[l] # 0
  <2>1. /\ closing' = [closing EXCEPT ![<<l, Stopper(n)>>] = "in"]
        /\ raced' = IF Inside(l) = {} THEN raced ELSE raced \cup {l}
        /\ UNCHANGED m_sock_fd
    BY <1>2, <1>11 DEF CloseEnter
  <2>2. \A t \in Sockets, q \in Closers : closing'[<<t, q>>] =
          IF <<t, q>> = <<l, Stopper(n)>> THEN "in" ELSE closing[<<t, q>>]
    BY <1>3, <1>4, <2>1 DEF IInv, FdInv, FdTypes
  <2>3. FdInv'
    BY <1>2, <1>3, <1>4, <1>11, CloseEnterFd DEF IInv
  <2>4. NewClosed'
    BY <2>1 DEF IInv, NewClosed
  <2>5. WalkersHold'
    <3>1. \A m \in Walking : tasks'[m].left \subseteq m_listen_socks
      BY <1>10 DEF IInv, WalkersHold
    <3>2. ASSUME NEW k \in Listeners, NEW p \in Closers, closing'[<<k, p>>] # "out"
          PROVE  k \in m_listen_socks /\ \E m \in Walking : p = Stopper(m)
      <4>1. CASE <<k, p>> = <<l, Stopper(n)>>
        BY <1>3, <1>4, <4>1
      <4>2. CASE <<k, p>> # <<l, Stopper(n)>>
        BY <2>2, <3>2, <4>2, Names DEF IInv, WalkersHold
      <4> QED BY <4>1, <4>2
    <3> QED BY <1>1, <1>8, <3>1, <3>2 DEF WalkersHold
  <2>6. ClosedBehind'
    <3> SUFFICES ASSUME raced' = {}, NEW m \in Walking,
                        NEW k \in m_listen_socks \ tasks'[m].left
                 PROVE  m_sock_fd[k] = 0 \/ closing'[<<k, Stopper(m)>>] # "out"
      BY <1>1, <1>8, <2>1 DEF ClosedBehind
    <3>1. raced = {} /\ k \in Sockets /\ Stopper(m) \in Closers
      BY <2>1, Names DEF IInv, ListTypes, Walking, Closers
    <3>2. CASE k \notin tasks[m].left
      <4>1. m_sock_fd[k] = 0 \/ closing[<<k, Stopper(m)>>] # "out"
        BY <3>1, <3>2 DEF IInv, ClosedBehind
      <4> QED BY <2>2, <3>1, <4>1
    <3>3. CASE k \in tasks[m].left
      <4>1. m = n /\ k = l
        BY <1>7, <1>10, <3>3
      <4> QED BY <2>2, <3>1, <4>1
    <3> QED BY <3>2, <3>3
  <2> QED BY <1>9, <2>3, <2>4, <2>5, <2>6 DEF IInv
<1>12. CASE m_sock_fd[l] = 0
  <2>1. UNCHANGED <<m_sock_fd, table, closing, raced>>
    BY <1>2, <1>12 DEF fdVars
  <2>2. FdInv'
    BY <2>1, SameFd DEF IInv
  <2>3. NewClosed'
    BY <2>1 DEF IInv, NewClosed
  <2>4. WalkersHold'
    BY <1>1, <1>8, <1>10, <2>1 DEF IInv, WalkersHold
  <2>5. ClosedBehind'
    <3> SUFFICES ASSUME raced = {}, NEW m \in Walking,
                        NEW k \in m_listen_socks \ tasks'[m].left
                 PROVE  m_sock_fd[k] = 0 \/ closing[<<k, Stopper(m)>>] # "out"
      BY <1>1, <1>8, <2>1 DEF ClosedBehind
    <3>1. CASE k \notin tasks[m].left
      BY <3>1 DEF IInv, ClosedBehind
    <3>2. CASE k \in tasks[m].left
      <4>1. m = n /\ k = l
        BY <1>7, <1>10, <3>2
      <4> QED BY <1>12, <4>1
    <3> QED BY <3>1, <3>2
  <2> QED BY <1>9, <2>2, <2>3, <2>4, <2>5 DEF IInv
<1> QED BY <1>11, <1>12

\* The coroutine of stop() clears the list: its Sockets are closed by now.
LEMMA TaskEndStep ==
  ASSUME IInv, NEW n \in DOMAIN tasks, TaskEnd(n), ~crashed, UNCHANGED <<stops, handler>>
  PROVE  IInv'
<1>1. /\ tasks[n].begun /\ tasks[n].left = {} /\ ~Busy(Stopper(n))
      /\ tasks' = Without(tasks, n) /\ m_listen_socks' = {}
      /\ crashed' = (Walking # {n})
      /\ Dropped(m_listen_socks \ Held) /\ UNCHANGED <<closing, raced>>
  BY DEF TaskEnd
<1>2. n \in Walking /\ Stopper(n) \in Closers
  BY <1>1 DEF IInv, ListTypes, Walking, Closers
<1>3. m_listen_socks \subseteq Sockets /\ m_listen_socks \subseteq Listeners
  BY Names DEF IInv, ListTypes
<1>4. raced = {} => \A l \in m_listen_socks : m_sock_fd[l] = 0
  <2> SUFFICES ASSUME raced = {}, NEW l \in m_listen_socks PROVE m_sock_fd[l] = 0
    OBVIOUS
  <2>1. m_sock_fd[l] = 0 \/ closing[<<l, Stopper(n)>>] # "out"
    BY <1>1, <1>2 DEF IInv, ClosedBehind
  <2>2. closing[<<l, Stopper(n)>>] = "out"
    BY <1>1, <1>3 DEF Busy
  <2> QED BY <2>1, <2>2
<1>5. raced = {} =>
        \A l \in m_listen_socks, p \in Closers : closing[<<l, p>>] # "called"
  BY <1>3, <1>4 DEF IInv, FdInv, CalledHasNone
<1>6. FdInv'
  <2>1. m_listen_socks \ Held \in SUBSET Sockets
    BY <1>3
  <2> QED BY <1>1, <1>5, <2>1, DropFd DEF IInv
<1>7. DOMAIN tasks' = DOMAIN tasks \ {n} /\ \A m \in DOMAIN tasks \ {n} : tasks'[m] = tasks[m]
  BY <1>1 DEF Without
<1>8. ListTypes' /\ TasksNumbered'
  BY <1>1, <1>7 DEF IInv, ListTypes, TasksNumbered
<1>9. NewClosed'
  BY <1>1, <1>3, Names DEF IInv, NewClosed, Dropped
<1>10. WalkersHold' /\ ClosedBehind'
  <2>1. CASE Walking # {n}
    <3>1. crashed'
      BY <1>1, <2>1
    <3> QED BY <3>1 DEF WalkersHold, ClosedBehind
  <2>2. CASE Walking = {n}
    <3>1. Walking' = {}
      BY <1>7, <2>2 DEF Walking
    <3>2. \A l \in Listeners, p \in Closers : closing[<<l, p>>] = "out"
      <4> SUFFICES ASSUME NEW l \in Listeners, NEW p \in Closers, closing[<<l, p>>] # "out"
                   PROVE  FALSE
        OBVIOUS
      <4>1. p = Stopper(n)
        BY <2>2 DEF IInv, WalkersHold
      <4> QED BY <1>1, <4>1, Names DEF Busy
    <3> QED BY <1>1, <3>1, <3>2, NobodyWalks
  <2> QED BY <2>1, <2>2
<1> QED BY <1>6, <1>8, <1>9, <1>10 DEF IInv

\* A step of someone who has to do with one client's Socket only.
LEMMA ClientStep ==
  ASSUME IInv, FdInv', UNCHANGED <<m_listen_socks, tasks, stops>>, crashed' = crashed,
         raced' = {} => raced = {},
         \A l \in Listeners : m_sock_fd'[l] = m_sock_fd[l]
           /\ \A p \in Closers : closing'[<<l, p>>] = closing[<<l, p>>],
         handler' \in [Clients -> {"new", "running", "session", "close", "socket", "gone"}],
         NewClosed'
  PROVE  IInv'
<1>1. WalkersHold' /\ ClosedBehind' /\ TasksNumbered'
  BY TasksUndisturbed
<1>2. ListTypes'
  BY DEF IInv, ListTypes
<1> QED BY <1>1, <1>2 DEF IInv

\* close() of a client's Socket is entered.
LEMMA ClientCloses ==
  ASSUME IInv, NEW c \in Clients, NEW p \in Closers, CloseEnter(c, p),
         UNCHANGED <<m_listen_socks, tasks, stops>>, crashed' = crashed,
         handler' \in [Clients -> {"new", "running", "session", "close", "socket", "gone"}],
         \A d \in Clients : handler'[d] = "new" => handler[d] = "new"
  PROVE  IInv'
<1>1. /\ closing' = [closing EXCEPT ![<<c, p>>] = "in"]
      /\ raced' = (IF Inside(c) = {} THEN raced ELSE raced \cup {c})
      /\ UNCHANGED m_sock_fd
  BY DEF CloseEnter
<1>2. FdInv'
  BY CloseEnterFd, Names DEF IInv
<1>3. raced' = {} => raced = {}
  BY <1>1
<1>4. \A l \in Listeners, q \in Closers : closing'[<<l, q>>] = closing[<<l, q>>]
  BY <1>1, Names DEF IInv, FdInv, FdTypes
<1>5. NewClosed'
  BY <1>1 DEF IInv, NewClosed
<1> QED BY <1>1, <1>2, <1>3, <1>4, <1>5, ClientStep

\* The alive timer and the handler of a client.
LEMMA HandlerSteps ==
  ASSUME IInv, NEW c \in Clients, AliveTimer(c) \/ HandlerStep(c)
  PROVE  IInv'
<1>1. UNCHANGED <<m_listen_socks, tasks, stops, crashed>>
  BY DEF AliveTimer, HandlerStep, serverVars
<1>2. Timer \in Closers /\ Owner \in Closers
  BY DEF Closers
<1>3. handler \in [Clients -> {"new", "running", "session", "close", "socket", "gone"}]
  BY DEF IInv, ListTypes
<1>4. CASE AliveTimer(c)
  BY <1>1, <1>2, <1>3, <1>4, ClientCloses DEF AliveTimer
<1>5. CASE HandlerStep(c)
  <2>1. \E b \in {"session", "close", "socket", "gone"} :
          handler' = [handler EXCEPT ![c] = b]
    BY <1>5 DEF HandlerStep, HandlerEnds, SessionTest, SessionClose, SocketEnd, HandlerAt
  <2>2. /\ handler' \in [Clients -> {"new", "running", "session", "close", "socket", "gone"}]
        /\ \A d \in Clients : handler'[d] = "new" => handler[d] = "new"
    BY <1>3, <2>1
  <2>3. CloseEnter(c, Owner) \/ UNCHANGED fdVars
    BY <1>5 DEF HandlerStep, HandlerEnds, SessionTest, SessionClose, SocketEnd
  <2>4. CASE CloseEnter(c, Owner)
    BY <1>1, <1>2, <2>2, <2>4, ClientCloses
  <2>5. CASE UNCHANGED fdVars
    <3>1. UNCHANGED <<m_sock_fd, table, closing, raced>>
      BY <2>5 DEF fdVars
    <3>2. FdInv'
      BY <3>1, SameFd DEF IInv
    <3>3. NewClosed'
      BY <2>2, <3>1 DEF IInv, NewClosed
    <3> QED BY <1>1, <2>2, <3>1, <3>2, <3>3, ClientStep
  <2> QED BY <2>3, <2>4, <2>5
<1> QED BY <1>4, <1>5

\* The accept loop.
LEMMA LoopSteps ==
  ASSUME IInv, NEW x \in Loop, LoopStep(x)
  PROVE  IInv'
<1>1. ~crashed /\ UNCHANGED <<m_listen_socks, stops, closing, raced, tasks, crashed>>
  BY DEF LoopStep, serverVars
<1>2. x[1] \in Listeners
  BY DEF Loop
<1>3. handler \in [Clients -> {"new", "running", "session", "close", "socket", "gone"}]
  BY DEF IInv, ListTypes
<1>4. CASE UNCHANGED <<m_sock_fd, table, handler>>
  <2>1. FdInv'
    BY <1>1, <1>4, SameFd DEF IInv
  <2>2. NewClosed'
    BY <1>4 DEF IInv, NewClosed
  <2> QED BY <1>1, <1>3, <1>4, <2>1, <2>2, ClientStep
<1>5. ASSUME NEW S \in SUBSET {l \in {x[1]} : l \notin m_listen_socks},
             Dropped(S), UNCHANGED handler
      PROVE  IInv'
  <2>1. S \in SUBSET Sockets /\ S \subseteq Listeners
    BY <1>2, Names
  <2>2. \A l \in S, p \in Closers : closing[<<l, p>>] = "out"
    BY <1>1, <2>1 DEF IInv, WalkersHold
  <2>3. FdInv'
    BY <1>1, <1>5, <2>1, <2>2, DropFd DEF IInv
  <2>4. \A s \in Sockets : m_sock_fd'[s] = IF s \in S THEN 0 ELSE m_sock_fd[s]
    BY <1>5 DEF Dropped
  <2>5. WalkersHold' /\ ClosedBehind' /\ TasksNumbered'
    BY <1>1, <2>4, TasksUndisturbed, Names
  <2>6. NewClosed' /\ ListTypes'
    BY <1>1, <1>5, <2>4, Names DEF IInv, NewClosed, ListTypes
  <2> QED BY <2>3, <2>5, <2>6 DEF IInv
<1>6. CASE LoopTest(x)
  <2>1. CASE m_is_stop
    <3> DEFINE S == {l \in {x[1]} : l \notin m_listen_socks
                                      /\ \A y \in DOMAIN loops : y[1] = l => y = x}
    <3>1. Dropped(S) /\ UNCHANGED handler
      BY <1>6, <2>1 DEF LoopTest
    <3>2. S \in SUBSET {l \in {x[1]} : l \notin m_listen_socks}
      OBVIOUS
    <3> HIDE DEF S
    <3> QED BY <1>5, <3>1, <3>2
  <2>2. CASE ~m_is_stop
    BY <1>4, <1>6, <2>2 DEF LoopTest
  <2> QED BY <2>1, <2>2
<1>7. CASE AcceptFails(x)
  BY <1>4, <1>7 DEF AcceptFails
<1>8. ASSUME NEW c \in Clients, Accept(x, c)
      PROVE  IInv'
  <2>1. /\ FreeFds # {} /\ handler[c] = "new" /\ Opened(c)
        /\ handler' = [handler EXCEPT ![c] = "running"]
    BY <1>8 DEF Accept
  <2>2. m_sock_fd[c] = 0
    BY <2>1 DEF IInv, NewClosed
  <2>3. FdInv'
    BY <1>1, <2>1, <2>2, OpenFd, Names DEF IInv
  <2>4. \A s \in Sockets : s # c => m_sock_fd'[s] = m_sock_fd[s]
    BY <2>1 DEF Opened, IInv, FdInv, FdTypes
  <2>5. /\ handler' \in [Clients -> {"new", "running", "session", "close", "socket", "gone"}]
        /\ handler'[c] # "new" /\ \A d \in Clients : d # c => handler'[d] = handler[d]
    BY <1>3, <2>1
  <2>6. NewClosed'
    BY <2>4, <2>5, Names DEF IInv, NewClosed
  <2>7. \A l \in Listeners : m_sock_fd'[l] = m_sock_fd[l]
    BY <2>4, Names
  <2> QED BY <1>1, <2>3, <2>5, <2>6, <2>7, ClientStep
<1>9. ASSUME NEW c \in Clients, InitFails(x, c)
      PROVE  IInv'
  <2>1. /\ FreeFds # {} /\ table' = [table EXCEPT ![LowestFree] = Lost]
        /\ handler' = [handler EXCEPT ![c] = "gone"] /\ UNCHANGED m_sock_fd
    BY <1>9 DEF InitFails
  <2>2. FdInv'
    BY <1>1, <2>1, LoseFd DEF IInv
  <2>3. /\ handler' \in [Clients -> {"new", "running", "session", "close", "socket", "gone"}]
        /\ handler'[c] # "new" /\ \A d \in Clients : d # c => handler'[d] = handler[d]
    BY <1>3, <2>1
  <2>4. NewClosed'
    BY <2>1, <2>3 DEF IInv, NewClosed
  <2> QED BY <1>1, <2>1, <2>2, <2>3, <2>4, ClientStep
<1> QED BY <1>6, <1>7, <1>8, <1>9 DEF LoopStep, LoopRuns

\* The coroutine of stop().
LEMMA TaskSteps ==
  ASSUME IInv, NEW n \in 1..MaxStops, TaskStep(n)
  PROVE  IInv'
<1>1. ~crashed /\ n \in DOMAIN tasks /\ UNCHANGED <<stops, handler>>
  BY DEF TaskStep
<1> QED BY <1>1, TaskBeginStep, TaskCloseStep, TaskEndStep DEF TaskStep

(***************************************************************************)
(* The types of what the invariant does not need.                          *)
(***************************************************************************)
LoopTypes == DOMAIN loops \subseteq Loop /\ \A x \in DOMAIN loops : loops[x] \in LoopAt

FlagTypes ==
  /\ m_is_stop \in BOOLEAN /\ m_is_connect \in [Sockets -> BOOLEAN]
  /\ binding \in {"no", "ok", "failed"}
  /\ starts \in 0..MaxStarts /\ stops \in 0..MaxStops
  /\ hasty \in BOOLEAN /\ crashed \in BOOLEAN

\* Every step keeps the types of the flags and the counters.
LEMMA FlagsStep ==
  ASSUME FlagTypes, Next
  PROVE  FlagTypes'
<1>1. MaxStarts \in Nat /\ MaxStops \in Nat
  BY TcpServerAssumption
<1>2. ASSUME UNCHANGED <<m_is_stop, m_is_connect, binding, starts, stops, hasty, crashed>>
      PROVE  FlagTypes'
  BY <1>2 DEF FlagTypes
<1>3. ASSUME NEW s \in Sockets, NEW p, CloseEnter(s, p),
             UNCHANGED <<m_is_stop, binding, starts, stops, hasty, crashed>>
      PROVE  FlagTypes'
  BY <1>3 DEF FlagTypes, CloseEnter
<1>4. ASSUME Crash
      PROVE  FlagTypes'
  BY <1>4 DEF FlagTypes, Crash, serverVars, fdVars
<1>5. ASSUME NEW l \in Listeners, NEW ok \in BOOLEAN, BindNext(l, ok)
      PROVE  FlagTypes'
  BY <1>4, <1>5 DEF FlagTypes, BindNext
<1>6. CASE BindEnd
  BY <1>4, <1>6 DEF FlagTypes, BindEnd
<1>7. CASE start
  <2>1. starts' \in 0..MaxStarts
    BY <1>1, <1>7 DEF FlagTypes, start
  <2>2. m_is_stop' = FALSE /\ UNCHANGED <<m_is_connect, binding, stops, hasty, crashed>>
    BY <1>7 DEF start, fdVars
  <2> QED BY <2>1, <2>2, Zenon DEF FlagTypes
<1>8. CASE stop
  BY <1>1, <1>8 DEF FlagTypes, stop, fdVars
<1>9. CASE Destroy
  BY <1>2, <1>9 DEF Destroy
<1>10. ASSUME NEW s \in Sockets, NEW p \in Closers, CloseGoesOn(s, p)
       PROVE  FlagTypes'
  BY <1>2, <1>10 DEF CloseGoesOn, CloseCall, CloseReset, serverVars
<1>11. ASSUME NEW n \in 1..MaxStops, TaskStep(n)
       PROVE  FlagTypes'
  <2>1. UNCHANGED <<m_is_stop, binding, starts, stops, hasty>>
    BY <1>11 DEF TaskStep
  <2>2. crashed' \in BOOLEAN
    BY <1>11 DEF TaskStep, TaskBegin, TaskClose, TaskEnd, FlagTypes
  <2>3. m_is_connect' \in [Sockets -> BOOLEAN]
    <3>1. CASE UNCHANGED m_is_connect
      BY <3>1 DEF FlagTypes
    <3>2. ASSUME NEW s, NEW p, m_is_connect' = [m_is_connect EXCEPT ![s] = FALSE]
          PROVE  m_is_connect' \in [Sockets -> BOOLEAN]
      BY <3>2 DEF FlagTypes
    <3> QED BY <1>11, <3>1, <3>2
            DEF TaskStep, TaskBegin, TaskClose, TaskEnd, CloseEnter, fdVars
  <2> QED BY <2>1, <2>2, <2>3 DEF FlagTypes
<1>12. ASSUME NEW x \in Loop, LoopStep(x)
       PROVE  FlagTypes'
  <2>1. UNCHANGED <<m_is_stop, binding, starts, stops, hasty, crashed>>
    BY <1>12 DEF LoopStep, serverVars
  <2>2. m_is_connect' \in [Sockets -> BOOLEAN]
    <3>1. CASE UNCHANGED m_is_connect
      BY <3>1 DEF FlagTypes
    <3>2. ASSUME NEW c \in Clients, m_is_connect' = [m_is_connect EXCEPT ![c] = TRUE]
          PROVE  m_is_connect' \in [Sockets -> BOOLEAN]
      BY <3>2 DEF FlagTypes
    <3> QED BY <1>12, <3>1, <3>2
            DEF LoopStep, LoopRuns, LoopTest, AcceptFails, Accept, InitFails
  <2> QED BY <2>1, <2>2 DEF FlagTypes
<1>13. ASSUME NEW c \in Clients, AliveTimer(c)
       PROVE  FlagTypes'
  BY <1>3, <1>13, Names DEF AliveTimer, serverVars
<1>14. ASSUME NEW c \in Clients, HandlerStep(c)
       PROVE  FlagTypes'
  <2>1. UNCHANGED <<m_is_stop, binding, starts, stops, hasty, crashed>>
    BY <1>14 DEF HandlerStep, serverVars
  <2>2. CloseEnter(c, Owner) \/ UNCHANGED fdVars
    BY <1>14 DEF HandlerStep, HandlerEnds, SessionTest, SessionClose, SocketEnd
  <2>3. CASE CloseEnter(c, Owner)
    BY <1>3, <2>1, <2>3, Names
  <2>4. CASE UNCHANGED fdVars
    BY <1>2, <2>1, <2>4 DEF fdVars
  <2> QED BY <2>2, <2>3, <2>4
<1> QED BY <1>5, <1>6, <1>7, <1>8, <1>9, <1>10, <1>11, <1>12, <1>13, <1>14 DEF Next

\* Every step keeps the types of the accept loops.
LEMMA LoopsStep ==
  ASSUME LoopTypes, FdTypes, ListTypes, FlagTypes, Next
  PROVE  LoopTypes'
<1>1. CASE UNCHANGED loops
  BY <1>1 DEF LoopTypes
<1>2. CASE start
  <2>1. starts' \in 1..MaxStarts
    BY <1>2, TcpServerAssumption DEF start, FlagTypes
  <2>2. m_listen_socks \X {starts'} \subseteq Loop
    BY <2>1 DEF ListTypes, Loop
  <2>3. loops' = [x \in DOMAIN loops \cup (m_listen_socks \X {starts'}) |->
                    IF x \in DOMAIN loops THEN loops[x] ELSE 0]
    BY <1>2 DEF start
  <2>4. 0 \in LoopAt
    BY DEF LoopAt
  <2> QED BY <2>2, <2>3, <2>4 DEF LoopTypes
<1>3. ASSUME NEW x \in Loop, LoopStep(x)
      PROVE  LoopTypes'
  <2>1. x \in DOMAIN loops /\ 0 \in LoopAt /\ x[1] \in Sockets
    BY <1>3, Names DEF LoopStep, LoopAt, Loop
  <2>2. ASSUME NEW v \in LoopAt, loops' = [loops EXCEPT ![x] = v]
        PROVE  LoopTypes'
    BY <2>1, <2>2 DEF LoopTypes
  <2>3. ASSUME loops' = Without(loops, x)
        PROVE  LoopTypes'
    BY <2>3 DEF LoopTypes, Without
  <2>4. (IF m_sock_fd[x[1]] = 0 THEN -1 ELSE m_sock_fd[x[1]]) \in LoopAt
    BY <2>1, Names DEF LoopAt, FdTypes
  <2> HIDE DEF LoopAt
  <2>5. CASE LoopTest(x)
    BY <2>2, <2>3, <2>4, <2>5 DEF LoopTest
  <2>6. CASE AcceptFails(x)
    BY <2>1, <2>2, <2>6 DEF AcceptFails
  <2>7. ASSUME NEW c \in Clients, Accept(x, c) \/ InitFails(x, c)
        PROVE  LoopTypes'
    BY <2>1, <2>2, <2>7 DEF Accept, InitFails
  <2> QED BY <1>3, <2>5, <2>6, <2>7 DEF LoopStep, LoopRuns
<1>4. Next => \/ UNCHANGED loops \/ start \/ \E x \in Loop : LoopStep(x)
  BY Zenon DEF Next, BindNext, BindEnd, Crash, stop, Destroy, CloseGoesOn, TaskStep,
     AliveTimer, HandlerStep
<1> QED BY <1>1, <1>2, <1>3, <1>4

(***************************************************************************)
(* The theorems.                                                           *)
(***************************************************************************)
TypedInv == IInv /\ FlagTypes /\ LoopTypes

\* The invariant holds at first.
LEMMA InitTypedInv == Init => TypedInv
<1> SUFFICES ASSUME Init PROVE TypedInv
  OBVIOUS
<1>1. FlagTypes
  <2>1. starts \in 0..MaxStarts /\ stops \in 0..MaxStops
    BY TcpServerAssumption DEF Init
  <2>2. m_is_connect \in [Sockets -> BOOLEAN]
    BY DEF Init
  <2>3. m_is_stop = TRUE /\ hasty \in BOOLEAN /\ crashed = FALSE /\ binding = "no"
    BY DEF Init
  <2> QED BY <2>1, <2>2, <2>3, Zenon DEF FlagTypes
<1>2. LoopTypes
  BY DEF Init, LoopTypes
<1> QED BY <1>1, <1>2, InitIInv DEF TypedInv

\* Every step keeps the invariant.
LEMMA TypedInvStep == TypedInv /\ [Next]_vars => TypedInv'
<1> SUFFICES ASSUME TypedInv, [Next]_vars PROVE TypedInv'
  OBVIOUS
<1>1. CASE UNCHANGED vars
  <2>1. UNCHANGED <<m_listen_socks, stops, m_sock_fd, table, closing, raced, tasks, handler,
                    crashed>>
    BY <1>1 DEF vars
  <2>2. FdInv'
    BY <2>1, SameFd DEF TypedInv, IInv
  <2>3. WalkersHold' /\ ClosedBehind' /\ TasksNumbered'
    BY <2>1, TasksUndisturbed DEF TypedInv
  <2>4. ListTypes' /\ NewClosed'
    BY <2>1 DEF TypedInv, IInv, ListTypes, NewClosed
  <2>5. FlagTypes' /\ LoopTypes'
    BY <1>1 DEF vars, TypedInv, FlagTypes, LoopTypes
  <2> QED BY <2>2, <2>3, <2>4, <2>5 DEF TypedInv, IInv
<1>2. CASE Next
  <2>1. FlagTypes' /\ LoopTypes'
    BY <1>2, FlagsStep, LoopsStep DEF TypedInv, IInv, FdInv
  <2>2. CASE BindEnd
    <3>1. binding \in {"ok", "failed"}
      BY <2>2 DEF BindEnd, TypedInv, FlagTypes
    <3> QED BY <2>1, <2>2, <3>1, BindEndStep DEF TypedInv
  <2>3. CASE Next /\ ~BindEnd
    <3>1. IInv
      BY DEF TypedInv
    <3>2. IInv'
      BY <2>3, <3>1, BindNextStep, StartStep, StopStep, DestroyStep, CloseStep, TaskSteps,
         LoopSteps, HandlerSteps DEF Next
    <3> QED BY <2>1, <3>2 DEF TypedInv
  <2> QED BY <1>2, <2>2, <2>3
<1> QED BY <1>1, <1>2

\* The server's state keeps its type.
THEOREM TypeCorrect == Spec => []TypeOK
<1>1. Init => TypedInv
  BY InitTypedInv
<1>2. TypedInv /\ [Next]_vars => TypedInv'
  BY TypedInvStep
<1>3. TypedInv => TypeOK
  BY DEF TypedInv, IInv, FdInv, FdTypes, ListTypes, FlagTypes, LoopTypes, TypeOK
<1> QED BY <1>1, <1>2, <1>3, PTL DEF Spec

\* Unless two threads were in close() of one Socket at a time, a Socket's
\* number is that of its own open descriptor up to the moment close() forgets
\* it, and no open descriptor is forgotten: for any number of sockets, clients
\* and calls of bind, start and stop, also by a user who does not wait.
THEOREM DescriptorsAreOwned == Spec => []DescriptorOwned
<1>1. Init => TypedInv
  BY InitTypedInv
<1>2. TypedInv /\ [Next]_vars => TypedInv'
  BY TypedInvStep
<1>3. TypedInv => DescriptorOwned
  BY DEF TypedInv, IInv, FdInv
<1> QED BY <1>1, <1>2, <1>3, PTL DEF Spec
=============================================================================
