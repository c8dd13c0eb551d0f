---------------------- MODULE RpcServiceRegistryProofs ----------------------
(***************************************************************************)
(* Proofs about RpcServiceRegistry for any connections, services,          *)
(* addresses and numbers of requests.                                      *)
(***************************************************************************)
EXTENDS RpcServiceRegistry, TLAPS

(***************************************************************************)
(* The inductive invariant.  The two maps are changed by several handlers, *)
(* two of them at a time when both withdraw an address under the reader's  *)
(* lock: that the maps agree in the end rests on nobody registering in     *)
(* between, which is the lock's doing, and on a first map that is already  *)
(* empty for the address while the second is being emptied.                *)
(***************************************************************************)
\* handleRegisterService has the maps for itself.
WriterAlone ==
  \A c, d \in Conns : pc[c] = "register" /\ pc[d] \in Reading \cup {"register"} => c = d

\* unregisterService, between the two maps: no service is listed any more
\* at the address it withdraws.
FirstMapEmpty ==
  \A c \in Conns, s \in Services :
    pc[c] = "eraseAddress" => m_services_provider[<<s, provider_addr[c]>>] = 0

\* Who registers, has registered or withdraws has announced itself.
ProvidersAnnounced ==
  \A c \in Conns :
    /\ pc[c] \in {"registerLock", "register", "unregisterLock"} \cup Changing
         \/ acked[c] # {} => c \in is_service_provider
    /\ c \in is_service_provider => pc[c] # "off"

\* Services are withdrawn only for a peer that is gone.
WithdrawnOffline ==
  \A c \in Conns : pc[c] \in {"unregisterLock"} \cup Changing => c \notin online

IInv == /\ TypeOK /\ WriterAlone /\ FirstMapEmpty /\ ProvidersAnnounced
        /\ WithdrawnOffline /\ MapsAgree /\ NoGhostProvider /\ ListedUnlessShared

USE DEF maps, session

(***************************************************************************)
(* Type correctness.                                                       *)
(***************************************************************************)
\* The initial state has its type.
LEMMA InitType == Init => TypeOK
<1> SUFFICES ASSUME Init PROVE TypeOK
  OBVIOUS
<1>1. (CHOOSE a \in Addrs : TRUE) \in Addrs /\ (CHOOSE s \in Services : TRUE) \in Services
  BY RegistryAssumption
<1>2. crashed \in BOOLEAN
  BY DEF Init
<1> QED BY <1>1, <1>2 DEF Init, TypeOK, Reading

\* One entry more keeps a multimap a table of counts.
LEMMA CountType ==
  ASSUME NEW S, NEW f \in [S -> Nat], NEW x \in S
  PROVE  [f EXCEPT ![x] = @ + 1] \in [S -> Nat]
OBVIOUS

\* Every step keeps the types.
LEMMA TypeStep == TypeOK /\ [Next]_vars => TypeOK'
<1> SUFFICES ASSUME TypeOK, [Next]_vars
             PROVE  TypeOK'
  OBVIOUS
<1> USE DEF TypeOK, Reading
<1>1. ASSUME NEW c \in Conns, Accept(c) PROVE TypeOK'
  BY <1>1 DEF Accept
<1>2. ASSUME NEW c \in Conns, Leave(c) PROVE TypeOK'
  BY <1>2 DEF Leave
<1>3. ASSUME NEW c \in Conns, RecvProvider(c) PROVE TypeOK'
  BY <1>3 DEF RecvProvider
<1>4. ASSUME NEW c \in Conns, RecvRegister(c) PROVE TypeOK'
  BY <1>4 DEF RecvRegister, RecvRequest
<1>5. ASSUME NEW c \in Conns, RecvDiscover(c) PROVE TypeOK'
  BY <1>5 DEF RecvDiscover, RecvRequest
<1>6. ASSUME NEW c \in Conns, RecvNull(c) PROVE TypeOK'
  BY <1>6 DEF RecvNull
<1>7. ASSUME NEW c \in Conns, Lock(c) PROVE TypeOK'
  BY <1>7 DEF Lock
<1>8. ASSUME NEW c \in Conns, Register(c) PROVE TypeOK'
  <2> DEFINE x == <<name[c], provider_addr[c]>>
             y == <<provider_addr[c], name[c]>>
  <2>1. x \in Services \X Addrs /\ y \in Addrs \X Services
    OBVIOUS
  <2>2. [m_services_provider EXCEPT ![x] = @ + 1] \in [Services \X Addrs -> Nat]
    BY <2>1, CountType
  <2>3. [m_address_to_service EXCEPT ![y] = @ + 1] \in [Addrs \X Services -> Nat]
    BY <2>1, CountType
  <2> QED BY <1>8, <2>2, <2>3 DEF Register
<1>9. ASSUME NEW c \in Conns, Discover(c) PROVE TypeOK'
  BY <1>9 DEF Discover, Crash
<1>10. ASSUME NEW c \in Conns, EraseProvider(c) PROVE TypeOK'
  <2> DEFINE erased == [e \in Services \X Addrs |->
                          IF e[1] \in Entries(c) /\ e[2] = provider_addr[c] THEN 0
                          ELSE m_services_provider[e]]
  <2>1. erased \in [Services \X Addrs -> Nat]
    OBVIOUS
  <2>2. m_services_provider' = m_services_provider \/ m_services_provider' = erased
    BY <1>10 DEF EraseProvider, Crash
  <2> QED BY <1>10, <2>1, <2>2 DEF EraseProvider, Crash
<1>11. ASSUME NEW c \in Conns, EraseAddress(c) PROVE TypeOK'
  <2>1. m_address_to_service' \in [Addrs \X Services -> Nat]
    BY <1>11 DEF EraseAddress, Crash
  <2> QED BY <1>11, <2>1 DEF EraseAddress, Crash
<1>12. ASSUME NEW c \in Conns, TakeRange(c) PROVE TypeOK'
  BY <1>12 DEF TakeRange, Crash
<1>13. CASE UNCHANGED vars
  BY <1>13 DEF vars
<1> QED
  BY <1>1, <1>2, <1>3, <1>4, <1>5, <1>6, <1>7, <1>8, <1>9, <1>10, <1>11, <1>12, <1>13
     DEF Next, HandleClient

\* The registry's state keeps its type, for any number of connections.
THEOREM TypeCorrect == Spec => []TypeOK
<1>1. Init => TypeOK
  BY InitType
<1>2. TypeOK /\ [Next]_vars => TypeOK'
  BY TypeStep
<1> QED BY <1>1, <1>2, PTL DEF Spec

(***************************************************************************)
(* The invariant.                                                          *)
(***************************************************************************)
\* It holds at the start.
LEMMA InitIInv == Init => IInv
<1> SUFFICES ASSUME Init PROVE IInv
  OBVIOUS
<1>1. TypeOK
  BY InitType
<1>2. \A c \in Conns : pc[c] = "off" /\ acked[c] = {}
  BY DEF Init
<1>3. WriterAlone /\ FirstMapEmpty /\ ProvidersAnnounced /\ WithdrawnOffline
  BY <1>2 DEF Init, WriterAlone, FirstMapEmpty, ProvidersAnnounced, WithdrawnOffline,
     Changing
<1>4. MapsAgree /\ NoGhostProvider /\ ListedUnlessShared
  BY DEF Init, MapsAgree, NoGhostProvider, ListedUnlessShared
<1> QED BY <1>1, <1>3, <1>4 DEF IInv

\* What is listed at an address has its entry in the second map, also while
\* another handler is between the two.
LEMMA ListedHasEntry ==
  ASSUME IInv, NEW c \in Conns, NEW s \in Services \ Entries(c)
  PROVE  m_services_provider[<<s, provider_addr[c]>>] = 0
<1> DEFINE a == provider_addr[c]
<1>1. a \in Addrs /\ m_address_to_service[<<a, s>>] = 0
  BY DEF IInv, TypeOK, Entries
<1>2. CASE \E d \in Conns : pc[d] = "eraseAddress" /\ provider_addr[d] = a
  BY <1>2 DEF IInv, FirstMapEmpty
<1>3. CASE m_services_provider[<<s, a>>] = m_address_to_service[<<a, s>>]
  BY <1>1, <1>3
<1> QED BY <1>1, <1>2, <1>3 DEF IInv, MapsAgree

\* Every step keeps it.
LEMMA IInvStep == IInv /\ [Next]_vars => IInv'
<1> SUFFICES ASSUME IInv, [Next]_vars
             PROVE  IInv'
  OBVIOUS
<1>t. TypeOK /\ TypeOK'
  BY TypeStep DEF IInv
<1> USE DEF IInv, Reading, Changing
<1>1. ASSUME NEW c \in Conns, Accept(c) PROVE IInv'
  <2>1. WriterAlone' /\ FirstMapEmpty' /\ ProvidersAnnounced' /\ WithdrawnOffline'
    BY <1>t, <1>1 DEF Accept, TypeOK, WriterAlone, FirstMapEmpty,
       ProvidersAnnounced, WithdrawnOffline
  <2>2. MapsAgree' /\ NoGhostProvider'
    BY <1>t, <1>1 DEF Accept, TypeOK, MapsAgree, NoGhostProvider
  <2>3. ListedUnlessShared'
    BY <1>t, <1>1 DEF Accept, TypeOK, ListedUnlessShared, ProvidersAnnounced
  <2> QED BY <1>t, <2>1, <2>2, <2>3
<1>2. ASSUME NEW c \in Conns, Leave(c) PROVE IInv'
  <2>1. WriterAlone' /\ FirstMapEmpty' /\ ProvidersAnnounced' /\ WithdrawnOffline'
    BY <1>t, <1>2 DEF Leave, TypeOK, WriterAlone, FirstMapEmpty,
       ProvidersAnnounced, WithdrawnOffline
  <2>2. MapsAgree' /\ NoGhostProvider' /\ ListedUnlessShared'
    BY <1>t, <1>2 DEF Leave, TypeOK, MapsAgree, NoGhostProvider,
       ListedUnlessShared
  <2> QED BY <1>t, <2>1, <2>2
<1>3. ASSUME NEW c \in Conns, RecvProvider(c) PROVE IInv'
  <2>1. WriterAlone' /\ FirstMapEmpty' /\ ProvidersAnnounced' /\ WithdrawnOffline'
    BY <1>t, <1>3 DEF RecvProvider, TypeOK, WriterAlone, FirstMapEmpty,
       ProvidersAnnounced, WithdrawnOffline
  <2>2. MapsAgree' /\ NoGhostProvider'
    BY <1>t, <1>3 DEF RecvProvider, TypeOK, MapsAgree, NoGhostProvider
  <2>3. ListedUnlessShared'
    BY <1>t, <1>3 DEF RecvProvider, TypeOK, ListedUnlessShared,
       ProvidersAnnounced
  <2> QED BY <1>t, <2>1, <2>2, <2>3
<1>4. ASSUME NEW c \in Conns, RecvRegister(c) PROVE IInv'
  <2>1. WriterAlone' /\ FirstMapEmpty' /\ ProvidersAnnounced' /\ WithdrawnOffline'
    BY <1>t, <1>4 DEF RecvRegister, RecvRequest, TypeOK, WriterAlone,
       FirstMapEmpty, ProvidersAnnounced, WithdrawnOffline
  <2>2. MapsAgree' /\ NoGhostProvider' /\ ListedUnlessShared'
    BY <1>t, <1>4 DEF RecvRegister, RecvRequest, TypeOK, MapsAgree,
       NoGhostProvider, ListedUnlessShared
  <2> QED BY <1>t, <2>1, <2>2
<1>5. ASSUME NEW c \in Conns, RecvDiscover(c) PROVE IInv'
  <2>1. WriterAlone' /\ FirstMapEmpty' /\ ProvidersAnnounced' /\ WithdrawnOffline'
    BY <1>t, <1>5 DEF RecvDiscover, RecvRequest, TypeOK, WriterAlone,
       FirstMapEmpty, ProvidersAnnounced, WithdrawnOffline
  <2>2. MapsAgree' /\ NoGhostProvider' /\ ListedUnlessShared'
    BY <1>t, <1>5 DEF RecvDiscover, RecvRequest, TypeOK, MapsAgree,
       NoGhostProvider, ListedUnlessShared
  <2> QED BY <1>t, <2>1, <2>2
<1>6. ASSUME NEW c \in Conns, RecvNull(c) PROVE IInv'
  <2>1. WriterAlone' /\ FirstMapEmpty' /\ ProvidersAnnounced' /\ WithdrawnOffline'
    BY <1>t, <1>6 DEF RecvNull, TypeOK, WriterAlone, FirstMapEmpty,
       ProvidersAnnounced, WithdrawnOffline
  <2>2. MapsAgree'
    BY <1>t, <1>6 DEF RecvNull, TypeOK, MapsAgree
  <2>3. NoGhostProvider' /\ ListedUnlessShared'
    BY <1>t, <1>6 DEF RecvNull, TypeOK, NoGhostProvider, ListedUnlessShared
  <2> QED BY <1>t, <2>1, <2>2, <2>3
<1>7. ASSUME NEW c \in Conns, Lock(c) PROVE IInv'
  <2>1. WriterAlone' /\ FirstMapEmpty' /\ ProvidersAnnounced' /\ WithdrawnOffline'
    BY <1>t, <1>7 DEF Lock, Readers, Writers, TypeOK, WriterAlone,
       FirstMapEmpty, ProvidersAnnounced, WithdrawnOffline
  <2>2. MapsAgree'
    BY <1>t, <1>7 DEF Lock, Readers, Writers, TypeOK, MapsAgree
  <2>3. NoGhostProvider' /\ ListedUnlessShared'
    BY <1>t, <1>7 DEF Lock, Readers, Writers, TypeOK, NoGhostProvider,
       ListedUnlessShared
  <2> QED BY <1>t, <2>1, <2>2, <2>3
<1>8. ASSUME NEW c \in Conns, Register(c) PROVE IInv'
  <2>1. WriterAlone' /\ FirstMapEmpty'
    BY <1>t, <1>8 DEF Register, TypeOK, WriterAlone, FirstMapEmpty
  <2>2. ProvidersAnnounced' /\ WithdrawnOffline'
    BY <1>t, <1>8 DEF Register, TypeOK, ProvidersAnnounced, WithdrawnOffline
  <2>3. MapsAgree'
    BY <1>t, <1>8, SMTT(30) DEF Register, TypeOK, MapsAgree
  <2>4. NoGhostProvider'
    BY <1>t, <1>8 DEF Register, TypeOK, NoGhostProvider, ProvidersAnnounced
  <2>5. ListedUnlessShared'
    BY <1>t, <1>8 DEF Register, TypeOK, ListedUnlessShared
  <2> QED BY <1>t, <2>1, <2>2, <2>3, <2>4, <2>5
<1>9. ASSUME NEW c \in Conns, Discover(c) PROVE IInv'
  <2>1. WriterAlone' /\ FirstMapEmpty' /\ ProvidersAnnounced' /\ WithdrawnOffline'
    BY <1>t, <1>9 DEF Discover, Crash, TypeOK, WriterAlone, FirstMapEmpty,
       ProvidersAnnounced, WithdrawnOffline
  <2>2. MapsAgree'
    BY <1>t, <1>9 DEF Discover, Crash, TypeOK, MapsAgree
  <2>3. NoGhostProvider' /\ ListedUnlessShared'
    BY <1>t, <1>9 DEF Discover, Crash, TypeOK, NoGhostProvider,
       ListedUnlessShared
  <2> QED BY <1>t, <2>1, <2>2, <2>3
<1>10. ASSUME NEW c \in Conns, EraseProvider(c) PROVE IInv'
  <2> DEFINE a == provider_addr[c]
  <2>1. \A s \in Services \ Entries(c) : m_services_provider[<<s, a>>] = 0
    BY ListedHasEntry
  <2>2. c \in is_service_provider /\ c \notin online /\ pc[c] = "eraseProvider"
    BY <1>10 DEF EraseProvider, ProvidersAnnounced, WithdrawnOffline
  <2>3. UNCHANGED <<m_address_to_service, online, session, acked>>
    BY <1>10 DEF EraseProvider, Crash
  <2>4. CASE crashed' = TRUE /\ UNCHANGED <<maps, pc>>
    BY <1>t, <2>3, <2>4 DEF WriterAlone, FirstMapEmpty, ProvidersAnnounced,
       WithdrawnOffline, MapsAgree, NoGhostProvider, ListedUnlessShared
  <2>5. CASE /\ m_services_provider' =
                  [e \in Services \X Addrs |->
                     IF e[1] \in Entries(c) /\ e[2] = a THEN 0
                     ELSE m_services_provider[e]]
             /\ pc' = [pc EXCEPT ![c] = "eraseAddress"]
    <3>1. \A s \in Services : m_services_provider'[<<s, a>>] = 0
      BY <1>t, <2>1, <2>5 DEF TypeOK
    <3>2. \A s \in Services, b \in Addrs :
            b # a => m_services_provider'[<<s, b>>] = m_services_provider[<<s, b>>]
      BY <2>5
    <3> HIDE DEF a
    <3>3. WriterAlone' /\ ProvidersAnnounced' /\ WithdrawnOffline'
      BY <1>t, <2>2, <2>3, <2>5 DEF WriterAlone, ProvidersAnnounced, WithdrawnOffline, TypeOK
    <3>4. FirstMapEmpty'
      <4> SUFFICES ASSUME NEW d \in Conns, NEW s \in Services, pc'[d] = "eraseAddress",
                          provider_addr[d] # a
                   PROVE  m_services_provider'[<<s, provider_addr[d]>>] = 0
        BY <2>3, <3>1 DEF FirstMapEmpty
      <4>1. pc[d] = "eraseAddress" /\ provider_addr[d] \in Addrs
        BY <1>t, <2>5 DEF TypeOK, a
      <4> QED BY <3>2, <4>1 DEF FirstMapEmpty
    <3>5. MapsAgree'
      BY <1>t, <2>2, <2>3, <2>5, <3>2, SMTT(30) DEF MapsAgree, TypeOK, a
    <3>6. NoGhostProvider'
      BY <1>t, <2>3, <2>5, <3>1, <3>2 DEF NoGhostProvider, TypeOK
    <3>7. ListedUnlessShared'
      BY <1>t, <2>2, <2>3, <2>5, <3>2 DEF ListedUnlessShared, TypeOK, a
    <3> QED BY <1>t, <3>3, <3>4, <3>5, <3>6, <3>7
  <2> QED BY <1>10, <2>4, <2>5 DEF EraseProvider, Crash
<1>11. ASSUME NEW c \in Conns, EraseAddress(c) PROVE IInv'
  <2> DEFINE a == provider_addr[c]
  <2>1. \A s \in Services : m_services_provider[<<s, a>>] = 0
    BY <1>11 DEF EraseAddress, FirstMapEmpty
  <2>2. WriterAlone' /\ FirstMapEmpty' /\ ProvidersAnnounced' /\ WithdrawnOffline'
    BY <1>t, <1>11 DEF EraseAddress, Crash, TypeOK, WriterAlone, FirstMapEmpty,
       ProvidersAnnounced, WithdrawnOffline
  <2>3. MapsAgree'
    BY <1>t, <1>11, <2>1, SMTT(30) DEF EraseAddress, Crash, TypeOK, MapsAgree
  <2>4. NoGhostProvider'
    BY <1>t, <1>11, <2>1 DEF EraseAddress, Crash, TypeOK, NoGhostProvider
  <2>5. ListedUnlessShared'
    BY <1>t, <1>11 DEF EraseAddress, Crash, TypeOK, ListedUnlessShared
  <2> QED BY <1>t, <2>2, <2>3, <2>4, <2>5
<1>12. ASSUME NEW c \in Conns, TakeRange(c) PROVE IInv'
  <2>1. UNCHANGED <<maps, online, session, acked>> /\ pc[c] = "unregister"
    BY <1>12 DEF TakeRange, Crash
  <2>2. CASE UNCHANGED pc
    BY <1>t, <2>1, <2>2 DEF WriterAlone, FirstMapEmpty, ProvidersAnnounced,
       WithdrawnOffline, MapsAgree, NoGhostProvider, ListedUnlessShared
  <2>3. CASE /\ pc' = [pc EXCEPT ![c] = IF Entries(c) = {} THEN "done"
                                         ELSE "eraseProvider"]
    <3>1. WriterAlone' /\ FirstMapEmpty' /\ ProvidersAnnounced' /\ WithdrawnOffline'
      BY <1>t, <2>1, <2>3 DEF WriterAlone, FirstMapEmpty, ProvidersAnnounced,
         WithdrawnOffline, TypeOK
    <3>2. MapsAgree' /\ ListedUnlessShared'
      BY <1>t, <2>1, <2>3 DEF MapsAgree, ListedUnlessShared, TypeOK
    <3>3. CASE Entries(c) = {}
      <4>1. \A s \in Services : m_services_provider[<<s, provider_addr[c]>>] = 0
        BY <3>3, ListedHasEntry
      <4>2. NoGhostProvider'
        BY <1>t, <2>1, <2>3, <4>1 DEF NoGhostProvider, TypeOK
      <4> QED BY <1>t, <3>1, <3>2, <4>2
    <3>4. CASE Entries(c) # {}
      <4>1. NoGhostProvider'
        BY <1>t, <2>1, <2>3, <3>4 DEF NoGhostProvider, TypeOK
      <4> QED BY <1>t, <3>1, <3>2, <4>1
    <3> QED BY <3>3, <3>4
  <2> QED BY <1>12, <2>2, <2>3 DEF TakeRange, Crash
<1>13. CASE UNCHANGED vars
  BY <1>t, <1>13 DEF vars, WriterAlone, FirstMapEmpty, ProvidersAnnounced,
     WithdrawnOffline, MapsAgree, NoGhostProvider, ListedUnlessShared
<1> QED
  BY <1>1, <1>2, <1>3, <1>4, <1>5, <1>6, <1>7, <1>8, <1>9, <1>10, <1>11, <1>12, <1>13
     DEF Next, HandleClient

\* The invariant holds throughout.
LEMMA Invariance == Spec => []IInv
<1>1. Init => IInv
  BY InitIInv
<1>2. IInv /\ [Next]_vars => IInv'
  BY IInvStep
<1> QED BY <1>1, <1>2, PTL DEF Spec

\* However many handlers register and withdraw at a time, also two that
\* withdraw one address under the reader's lock, the two multimaps mirror
\* each other outside unregisterService.
THEOREM MapsStayInStep == Spec => []MapsAgree
<1>1. IInv => MapsAgree
  BY DEF IInv
<1> QED BY <1>1, Invariance, PTL

\* An address with a service listed has a provider whose handler still runs.
THEOREM NoGhosts == Spec => []NoGhostProvider
<1>1. IInv => NoGhostProvider
  BY DEF IInv
<1> QED BY <1>1, Invariance, PTL

\* A connected provider that has its address for itself stays listed.
THEOREM StaysListed == Spec => []ListedUnlessShared
<1>1. IInv => ListedUnlessShared
  BY DEF IInv
<1> QED BY <1>1, Invariance, PTL

(***************************************************************************)
(* The registry implements ServiceDirectory.                               *)
(***************************************************************************)
\* What the mapping makes of the state.
Listed == {e \in Services \X Addrs : m_services_provider[e] > 0}
Serving == {d \in is_service_provider : pc[d] \notin {"eraseAddress", "done"}}
Providers == {<<c, provider_addr[c]>> : c \in Serving}

\* A step that leaves the first map, the peers and the providers alone, and
\* begins or ends no withdrawal, is none of the directory's.
LEMMA Stutters ==
  ASSUME UNCHANGED <<m_services_provider, online, is_service_provider, provider_addr>>,
         Serving' = Serving
  PROVE  UNCHANGED Directory!vars
<1>1. Listed' = Listed /\ Providers' = Providers
  BY DEF Listed, Providers, Serving
<1> QED BY <1>1 DEF Directory!vars, Listed, Providers, Serving

\* The connection of a pair in Providers, and its address.
LEMMA ProviderPair ==
  ASSUME NEW c \in Conns, TypeOK
  PROVE  Directory!Announced(c) <=> c \in Serving
<1>1. Directory!Announced(c) <=> \E p \in Providers : p[1] = c
  BY DEF Directory!Announced, Providers, Serving
<1>2. ASSUME NEW p \in Providers, p[1] = c PROVE c \in Serving
  BY <1>2 DEF Providers
<1>3. ASSUME c \in Serving PROVE \E p \in Providers : p[1] = c
  <2>1. <<c, provider_addr[c]>> \in Providers /\ <<c, provider_addr[c]>>[1] = c
    BY <1>3 DEF Providers
  <2> QED BY <2>1
<1> QED BY <1>1, <1>2, <1>3

\* A handler that goes on to the other steps withdraws nothing.
LEMMA SameServing ==
  ASSUME TypeOK, NEW c \in Conns, NEW step, step \notin {"eraseAddress", "done"},
         pc' = [pc EXCEPT ![c] = step], UNCHANGED is_service_provider,
         pc[c] \notin {"eraseAddress", "done"}
  PROVE  Serving' = Serving
BY DEF TypeOK, Serving

\* The step in which a handler is done with the first map is Withdraw, once
\* nothing is listed at its address any more and all else is as before.
LEMMA Withdrawn ==
  ASSUME IInv, NEW c \in Conns, c \in is_service_provider, c \notin online,
         pc[c] \in {"unregister", "eraseProvider"},
         NEW step \in {"eraseAddress", "done"},
         pc' = [pc EXCEPT ![c] = step], UNCHANGED <<online, session>>,
         Listed' = {e \in Listed : e[2] # provider_addr[c]}
  PROVE  Directory!Next
<1>t. TypeOK
  BY DEF IInv
<1>p. PICK p : p = <<c, provider_addr[c]>>
  OBVIOUS
<1>1. Serving' = Serving \ {c} /\ c \in Serving
  BY <1>t DEF Serving, TypeOK
<1>2. Providers' = Providers \ {p} /\ p \in Providers
  BY <1>1, <1>p DEF Providers
<1>3. Directory!Withdraw(p)
  BY <1>2, <1>p DEF Directory!Withdraw, Listed, Providers, Serving
<1> QED BY <1>2, <1>3 DEF Directory!Next, Providers, Serving

\* Every step of the registry is one of the directory, or none.
LEMMA DirectoryStep == IInv /\ [Next]_vars => [Directory!Next]_(Directory!vars)
<1> SUFFICES ASSUME IInv, [Next]_vars
             PROVE  [Directory!Next]_(Directory!vars)
  OBVIOUS
<1>t. TypeOK
  BY DEF IInv
<1>1. ASSUME NEW c \in Conns, Accept(c) PROVE Directory!Next
  <2>1. Serving' = Serving /\ c \notin Serving
    BY <1>t, <1>1 DEF IInv, Accept, Serving, TypeOK, ProvidersAnnounced
  <2>2. ~Directory!Announced(c)
    BY <1>t, <2>1, ProviderPair
  <2>3. Providers' = Providers /\ Listed' = Listed /\ online' = online \cup {c}
    BY <1>1, <2>1 DEF Accept, Providers, Listed
  <2>4. Directory!Come(c)
    BY <2>2, <2>3 DEF Directory!Come, Listed, Providers, Serving
  <2> QED BY <2>4 DEF Directory!Next
<1>2. ASSUME NEW c \in Conns, Leave(c) PROVE Directory!Next
  <2>1. Providers' = Providers /\ Listed' = Listed
    BY <1>2 DEF Leave, Providers, Serving, Listed
  <2>2. Directory!Leave(c)
    BY <1>2, <2>1 DEF Leave, Directory!Leave, Listed, Providers, Serving
  <2> QED BY <2>2 DEF Directory!Next
<1>3. ASSUME NEW c \in Conns, RecvProvider(c) PROVE [Directory!Next]_(Directory!vars)
  <2>1. CASE UNCHANGED session
    BY <1>3, <2>1, Stutters DEF RecvProvider, Serving
  <2>2. CASE /\ is_service_provider' = is_service_provider \cup {c}
             /\ \E a \in Addrs : provider_addr' = [provider_addr EXCEPT ![c] = a]
    <3>1. PICK a \in Addrs : provider_addr' = [provider_addr EXCEPT ![c] = a]
      BY <2>2
    <3>2. Serving' = Serving \cup {c} /\ c \notin Serving /\ Listed' = Listed
      BY <1>3, <2>2 DEF RecvProvider, Serving, Listed
    <3>3. Providers' = Providers \cup {<<c, a>>}
      BY <1>t, <3>1, <3>2 DEF Providers, TypeOK, Serving
    <3>4. ~Directory!Announced(c)
      BY <1>t, <3>2, ProviderPair
    <3>5. Directory!Announce(c, a)
      BY <1>3, <3>2, <3>3, <3>4
         DEF RecvProvider, Directory!Announce, Listed, Providers, Serving
    <3> QED BY <3>5 DEF Directory!Next
  <2> QED BY <1>3, <2>1, <2>2 DEF RecvProvider
<1>4. ASSUME NEW c \in Conns, RecvRegister(c) \/ RecvDiscover(c)
      PROVE  UNCHANGED Directory!vars
  <2>1. PICK step \in {"registerLock", "discoverLock"} : pc' = [pc EXCEPT ![c] = step]
    BY <1>4 DEF RecvRegister, RecvDiscover, RecvRequest
  <2> QED BY <1>4, <1>t, <2>1, Stutters, SameServing
          DEF RecvRegister, RecvDiscover, RecvRequest
<1>5. ASSUME NEW c \in Conns, RecvNull(c) PROVE UNCHANGED Directory!vars
  <2>1. CASE UNCHANGED pc
    BY <1>5, <2>1, Stutters DEF RecvNull, Serving
  <2>2. CASE pc' = [pc EXCEPT ![c] = "unregisterLock"]
    BY <1>5, <1>t, <2>2, Stutters, SameServing DEF RecvNull
  <2> QED BY <1>5, <2>1, <2>2 DEF RecvNull
<1>6. ASSUME NEW c \in Conns, Lock(c) PROVE UNCHANGED Directory!vars
  <2>1. PICK step \in {"register", "discover", "unregister"} : pc' = [pc EXCEPT ![c] = step]
    BY <1>6 DEF Lock
  <2> QED BY <1>6, <1>t, <2>1, Stutters, SameServing DEF Lock
<1>7. ASSUME NEW c \in Conns, Register(c) PROVE Directory!Next
  <2>p. PICK p : p = <<c, provider_addr[c]>>
    OBVIOUS
  <2>s. PICK s \in Services : s = name[c]
    BY <1>t DEF TypeOK
  <2> DEFINE e == <<s, provider_addr[c]>>
  <2>1. e \in Services \X Addrs /\ m_services_provider \in [Services \X Addrs -> Nat]
    BY <1>t DEF TypeOK
  <2>2. m_services_provider' = [m_services_provider EXCEPT ![e] = @ + 1]
    BY <1>7, <2>s DEF Register
  <2>3. Listed' = Listed \cup {e}
    <3> HIDE DEF e
    <3> QED BY <2>1, <2>2 DEF Listed
  <2>4. c \in Serving /\ Serving' = Serving
    BY <1>t, <1>7 DEF IInv, ProvidersAnnounced, Register, Serving, TypeOK
  <2>5. p \in Providers /\ Providers' = Providers
    BY <1>7, <2>p, <2>4 DEF Register, Providers
  <2>6. Directory!Publish(p, s)
    BY <1>7, <2>p, <2>3, <2>5 DEF Register, Directory!Publish, Listed, Providers, Serving
  <2> QED BY <2>5, <2>6 DEF Directory!Next, Providers, Serving
<1>8. ASSUME NEW c \in Conns, Discover(c) PROVE UNCHANGED Directory!vars
  <2>1. CASE UNCHANGED pc
    BY <1>8, <2>1, Stutters DEF Discover, Crash, Serving
  <2>2. CASE pc' = [pc EXCEPT ![c] = "recv"]
    BY <1>8, <1>t, <2>2, Stutters, SameServing DEF Discover, Crash
  <2> QED BY <1>8, <2>1, <2>2 DEF Discover, Crash
<1>9. ASSUME NEW c \in Conns, TakeRange(c) PROVE [Directory!Next]_(Directory!vars)
  <2>1. /\ c \in is_service_provider /\ c \notin online /\ pc[c] = "unregister"
        /\ UNCHANGED <<maps, online, session>>
    BY <1>9 DEF IInv, TakeRange, Crash, ProvidersAnnounced, WithdrawnOffline, Changing
  <2>2. CASE UNCHANGED pc
    BY <2>1, <2>2, Stutters DEF Serving
  <2>3. CASE pc' = [pc EXCEPT ![c] = "eraseProvider"]
    BY <1>t, <2>1, <2>3, Stutters, SameServing
  <2>4. CASE Entries(c) = {} /\ pc' = [pc EXCEPT ![c] = "done"]
    <3>1. \A s \in Services : m_services_provider[<<s, provider_addr[c]>>] = 0
      BY <2>4, ListedHasEntry
    <3>2. Listed' = {e \in Listed : e[2] # provider_addr[c]}
      BY <1>t, <2>1, <3>1 DEF Listed, TypeOK
    <3> QED BY <2>1, <2>4, <3>2, Withdrawn
  <2> QED BY <1>9, <2>2, <2>3, <2>4 DEF TakeRange, Crash
<1>10. ASSUME NEW c \in Conns, EraseProvider(c) PROVE [Directory!Next]_(Directory!vars)
  <2> DEFINE a == provider_addr[c]
  <2>1. \A s \in Services \ Entries(c) : m_services_provider[<<s, a>>] = 0
    BY ListedHasEntry
  <2>2. /\ c \in is_service_provider /\ c \notin online /\ pc[c] = "eraseProvider"
        /\ UNCHANGED <<online, session>>
    BY <1>10 DEF IInv, EraseProvider, Crash, ProvidersAnnounced, WithdrawnOffline,
       Changing
  <2>3. CASE UNCHANGED <<maps, pc>>
    BY <2>2, <2>3, Stutters DEF Serving
  <2>4. CASE /\ m_services_provider' =
                  [e \in Services \X Addrs |->
                     IF e[1] \in Entries(c) /\ e[2] = a THEN 0
                     ELSE m_services_provider[e]]
             /\ pc' = [pc EXCEPT ![c] = "eraseAddress"]
    <3>1. Listed' = {e \in Listed : e[2] # a}
      <4> HIDE DEF a
      <4> QED BY <1>t, <2>1, <2>4 DEF Listed, TypeOK
    <3> QED BY <2>2, <2>4, <3>1, Withdrawn
  <2> QED BY <1>10, <2>3, <2>4 DEF EraseProvider, Crash
<1>11. ASSUME NEW c \in Conns, EraseAddress(c) PROVE UNCHANGED Directory!vars
  <2>1. Serving' = Serving
    BY <1>t, <1>11 DEF EraseAddress, Crash, Serving, TypeOK
  <2> QED BY <1>11, <2>1, Stutters DEF EraseAddress, Crash
<1>12. CASE UNCHANGED vars
  BY <1>12, Stutters DEF vars, Serving
<1> QED
  BY <1>1, <1>2, <1>3, <1>4, <1>5, <1>6, <1>7, <1>8, <1>9, <1>10, <1>11, <1>12
     DEF Next, HandleClient

\* For any number of connections, services and addresses the registry is a
\* directory from which an address disappears as a whole, and only after the
\* peer of a provider at that address is gone.
THEOREM ActsAsDirectory == Spec => ImplementsDirectory
<1>1. Init => Directory!Init
  BY DEF Init, Directory!Init
<1>2. IInv /\ [Next]_vars => [Directory!Next]_(Directory!vars)
  BY DirectoryStep
<1> QED BY <1>1, <1>2, Invariance, PTL DEF Spec, ImplementsDirectory, Directory!Spec
=============================================================================
