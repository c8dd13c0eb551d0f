------------------------- MODULE RpcServiceRegistry -------------------------
(***************************************************************************)
(* The service registry of rpc/rpc_service_registry.{h,cpp}: one coroutine *)
(* per connection runs handleClient, and all of them share two multimaps   *)
(* under a readers-writer lock.  unregisterService changes both maps while *)
(* it holds the lock as a reader, so it may run beside other readers: such *)
(* a race, an iterator used after its entry was erased and the null        *)
(* request dereferenced at line 31 may crash the process.                  *)
(*                                                                         *)
(* A connection is used as RpcServer uses it (a provider says so first,    *)
(* and once) or as a client that only discovers.  Heartbeats, unknown      *)
(* types, and requests to register or discover that do not parse change    *)
(* nothing and are left out.                                               *)
(***************************************************************************)
EXTENDS Naturals, FiniteSets

CONSTANTS Conns,        \* connections accepted in a behaviour
          Services,     \* names of services
          Addrs,        \* addresses (host and announced port) of providers
          MaxRequests,  \* bound: register and discover requests of a connection
          Repeats       \* bound: may a provider register a service twice

ASSUME RegistryAssumption == /\ MaxRequests \in Nat /\ Repeats \in BOOLEAN
                             /\ Services # {} /\ Addrs # {}

VARIABLES
  m_services_provider,  \* multimap: <<service, address>> -> entries
  m_address_to_service, \* multimap: <<address, service>> -> entries
  pc,                   \* step of each connection's handleClient
  online,               \* connections whose peer is still there
  is_service_provider,  \* connections that announced themselves as providers
  provider_addr,        \* connection -> the address announced
  name,                 \* connection -> the service its request names
  acked,                \* ghost: connection -> services it has registered
  asked,                \* connection -> requests received
  crashed

maps == <<m_services_provider, m_address_to_service>>
session == <<is_service_provider, provider_addr>>
vars == <<maps, pc, online, session, name, acked, asked, crashed>>

\* The lock: held as a writer in "register", as a reader in the others.
Reading == {"discover", "unregister", "eraseProvider", "eraseAddress"}
Readers == {c \in Conns : pc[c] \in Reading}
Writers == {c \in Conns : pc[c] = "register"}

Init ==
  /\ m_services_provider = [e \in Services \X Addrs |-> 0]
  /\ m_address_to_service = [e \in Addrs \X Services |-> 0]
  /\ pc = [c \in Conns |-> "off"]
  /\ online = {} /\ is_service_provider = {}
  /\ provider_addr = [c \in Conns |-> CHOOSE a \in Addrs : TRUE]
  /\ name = [c \in Conns |-> CHOOSE s \in Services : TRUE]
  /\ acked = [c \in Conns |-> {}]
  /\ asked = [c \in Conns |-> 0]
  /\ crashed = FALSE

\* TcpServer starts handleClient for a new connection.
Accept(c) ==
  /\ ~crashed /\ pc[c] = "off"
  /\ pc' = [pc EXCEPT ![c] = "recv"]
  /\ online' = online \cup {c}
  /\ UNCHANGED <<maps, session, name, acked, asked, crashed>>

\* The peer goes away, or the network between does.
Leave(c) ==
  /\ ~crashed /\ c \in online
  /\ online' = online \ {c}
  /\ UNCHANGED <<maps, pc, session, name, acked, asked, crashed>>

\* kRpcServiceProvider: handleProvider.  A payload without a port throws, and
\* nobody catches it.
RecvProvider(c) ==
  /\ ~crashed /\ pc[c] = "recv" /\ c \in online
  /\ c \notin is_service_provider /\ asked[c] = 0
  /\ \/ /\ is_service_provider' = is_service_provider \cup {c}
        /\ \E a \in Addrs : provider_addr' = [provider_addr EXCEPT ![c] = a]
        /\ UNCHANGED crashed
     \/ crashed' = TRUE /\ UNCHANGED session
  /\ UNCHANGED <<maps, pc, online, name, acked, asked>>

\* A request that names a service; "wait" is the lock its handler needs.
RecvRequest(c, s, wait) ==
  /\ ~crashed /\ pc[c] = "recv" /\ c \in online
  /\ asked[c] < MaxRequests
  /\ asked' = [asked EXCEPT ![c] = @ + 1]
  /\ name' = [name EXCEPT ![c] = s]
  /\ pc' = [pc EXCEPT ![c] = wait]
  /\ UNCHANGED <<maps, online, session, acked, crashed>>

RecvRegister(c) == /\ c \in is_service_provider
                   /\ \E s \in Services :
                        /\ Repeats \/ s \notin acked[c]
                        /\ RecvRequest(c, s, "registerLock")

RecvDiscover(c) == /\ c \notin is_service_provider
                   /\ \E s \in Services : RecvRequest(c, s, "discoverLock")

\* A mutant of RecvNull: the handler ends without unregisterService.
RecvNullForgets(c) ==
  /\ ~crashed /\ pc[c] = "recv" /\ c \notin online
  /\ pc' = [pc EXCEPT ![c] = "done"]
  /\ UNCHANGED <<maps, online, session, name, acked, asked, crashed>>

\* recvProtocol returns nullptr: a provider's services are withdrawn, any
\* other connection falls through to req->getType() on the null request.
RecvNull(c) ==
  /\ ~crashed /\ pc[c] = "recv" /\ c \notin online
  /\ IF c \in is_service_provider
       THEN pc' = [pc EXCEPT ![c] = "unregisterLock"] /\ UNCHANGED crashed
       ELSE crashed' = TRUE /\ UNCHANGED pc
  /\ UNCHANGED <<maps, online, session, name, acked, asked>>

\* m_rwmutex.Writer() and m_rwmutex.Reader().
Lock(c) ==
  /\ ~crashed
  /\ \/ /\ pc[c] = "registerLock" /\ Readers = {} /\ Writers = {}
        /\ pc' = [pc EXCEPT ![c] = "register"]
     \/ /\ pc[c] = "discoverLock" /\ Writers = {}
        /\ pc' = [pc EXCEPT ![c] = "discover"]
     \/ /\ pc[c] = "unregisterLock" /\ Writers = {}
        /\ pc' = [pc EXCEPT ![c] = "unregister"]
  /\ UNCHANGED <<maps, online, session, name, acked, asked, crashed>>

\* Mutants of Register: only one map gets an entry; or a service has only
\* one provider, the latest.
RegisterOneMap(c) ==
  /\ ~crashed /\ pc[c] = "register"
  /\ m_services_provider' =
       [m_services_provider EXCEPT ![<<name[c], provider_addr[c]>>] = @ + 1]
  /\ acked' = [acked EXCEPT ![c] = @ \cup {name[c]}]
  /\ pc' = [pc EXCEPT ![c] = "recv"]
  /\ UNCHANGED <<m_address_to_service, online, session, name, asked, crashed>>

RegisterReplaces(c) ==
  /\ ~crashed /\ pc[c] = "register"
  /\ m_services_provider' =
       [e \in Services \X Addrs |->
          IF e[1] # name[c] THEN m_services_provider[e]
          ELSE IF e[2] = provider_addr[c] THEN 1 ELSE 0]
  /\ m_address_to_service' =
       [m_address_to_service EXCEPT ![<<provider_addr[c], name[c]>>] = @ + 1]
  /\ acked' = [acked EXCEPT ![c] = @ \cup {name[c]}]
  /\ pc' = [pc EXCEPT ![c] = "recv"]
  /\ UNCHANGED <<online, session, name, asked, crashed>>

\* handleRegisterService: an entry in each map, under the writer's lock.
Register(c) ==
  /\ ~crashed /\ pc[c] = "register"
  /\ m_services_provider' =
       [m_services_provider EXCEPT ![<<name[c], provider_addr[c]>>] = @ + 1]
  /\ m_address_to_service' =
       [m_address_to_service EXCEPT ![<<provider_addr[c], name[c]>>] = @ + 1]
  /\ acked' = [acked EXCEPT ![c] = @ \cup {name[c]}]
  /\ pc' = [pc EXCEPT ![c] = "recv"]
  /\ UNCHANGED <<online, session, name, asked, crashed>>

\* A section under the reader's lock goes wrong when another connection
\* changes the maps meanwhile.
Changing == {"unregister", "eraseProvider", "eraseAddress"}
Raced(c) == \E d \in Readers \ {c} : pc[c] \in Changing \/ pc[d] \in Changing

Crash(c) == /\ crashed' = TRUE
            /\ UNCHANGED <<maps, pc, online, session, name, acked, asked>>

\* handleServiceDiscover: reads the providers of a name.
Discover(c) ==
  /\ ~crashed /\ pc[c] = "discover"
  /\ \/ /\ pc' = [pc EXCEPT ![c] = "recv"]
        /\ UNCHANGED <<maps, online, session, name, acked, asked, crashed>>
     \/ Raced(c) /\ Crash(c)

\* unregisterService: the entries of the address, as a range of iterators.
Entries(c) == {s \in Services : m_address_to_service[<<provider_addr[c], s>>] > 0}

TakeRange(c) ==
  /\ ~crashed /\ pc[c] = "unregister"
  /\ \/ /\ pc' = [pc EXCEPT ![c] = IF Entries(c) = {} THEN "done" ELSE "eraseProvider"]
        /\ UNCHANGED <<maps, online, session, name, acked, asked, crashed>>
     \/ Raced(c) /\ Crash(c)

\* Another handler of the address has erased the range since.
Stale(c) == Entries(c) = {}

\* A mutant of EraseProvider: the services are erased by name.
EraseProviderByName(c) ==
  /\ ~crashed /\ pc[c] = "eraseProvider"
  /\ m_services_provider' =
       [e \in Services \X Addrs |->
          IF e[1] \in Entries(c) THEN 0 ELSE m_services_provider[e]]
  /\ pc' = [pc EXCEPT ![c] = "eraseAddress"]
  /\ UNCHANGED <<m_address_to_service, online, session, name, acked, asked, crashed>>

\* First map: with k entries of one service at the same address every
\* iterator is collected k times, and erased k times.
EraseProvider(c) ==
  LET a == provider_addr[c]
      twice == \E s \in Entries(c) : m_address_to_service[<<a, s>>] > 1
                                       /\ m_services_provider[<<s, a>>] > 0
  IN  /\ ~crashed /\ pc[c] = "eraseProvider"
      /\ \/ /\ m_services_provider' =
                 [e \in Services \X Addrs |->
                    IF e[1] \in Entries(c) /\ e[2] = a THEN 0
                    ELSE m_services_provider[e]]
            /\ pc' = [pc EXCEPT ![c] = "eraseAddress"]
            /\ UNCHANGED <<m_address_to_service, online, session, name, acked,
                           asked, crashed>>
         \/ (twice \/ Raced(c) \/ Stale(c)) /\ Crash(c)

\* Second map; the handler ends.
EraseAddress(c) ==
  /\ ~crashed /\ pc[c] = "eraseAddress"
  /\ \/ /\ m_address_to_service' =
             [e \in Addrs \X Services |->
                IF e[1] = provider_addr[c] THEN 0 ELSE m_address_to_service[e]]
        /\ pc' = [pc EXCEPT ![c] = "done"]
        /\ UNCHANGED <<m_services_provider, online, session, name, acked, asked,
                       crashed>>
     \/ (Raced(c) \/ Stale(c)) /\ Crash(c)

HandleClient(c) == \/ RecvNull(c) \/ Lock(c) \/ Register(c) \/ Discover(c)
                   \/ TakeRange(c) \/ EraseProvider(c) \/ EraseAddress(c)

Next == \E c \in Conns : \/ Accept(c) \/ Leave(c) \/ RecvProvider(c)
                         \/ RecvRegister(c) \/ RecvDiscover(c)
                         \/ HandleClient(c)

Spec == Init /\ [][Next]_vars

\* The scheduler runs every handler that can go on; waiters get the lock in
\* turn.  Nothing is assumed of the peers.
FairSpec == Spec /\ \A c \in Conns : SF_vars(HandleClient(c))

(***************************************************************************)
(* Properties.                                                             *)
(***************************************************************************)
\* The type of the registry's state.
TypeOK ==
  /\ m_services_provider \in [Services \X Addrs -> Nat]
  /\ m_address_to_service \in [Addrs \X Services -> Nat]
  /\ pc \in [Conns -> {"off", "recv", "registerLock", "register", "done",
                       "discoverLock", "unregisterLock"} \cup Reading]
  /\ online \subseteq Conns /\ is_service_provider \subseteq Conns
  /\ provider_addr \in [Conns -> Addrs] /\ name \in [Conns -> Services]
  /\ acked \in [Conns -> SUBSET Services] /\ asked \in [Conns -> Nat]
  /\ crashed \in BOOLEAN

\* The two multimaps mirror each other, except while unregisterService is
\* between the two: what is listed for a service can always be withdrawn.
MapsAgree ==
  \A s \in Services, a \in Addrs :
    m_services_provider[<<s, a>>] # m_address_to_service[<<a, s>>] =>
      \E c \in Conns : pc[c] = "eraseAddress" /\ provider_addr[c] = a

\* No entry outlives the last handler of a provider at its address.
NoGhostProvider ==
  \A s \in Services, a \in Addrs :
    m_services_provider[<<s, a>>] > 0 =>
      \E c \in is_service_provider :
        provider_addr[c] = a /\ pc[c] \notin {"off", "done"}

\* What a connected provider has registered is listed, as long as no other
\* connection announced the same address.
ListedUnlessShared ==
  \A c \in online, s \in Services :
    /\ s \in acked[c]
    /\ \A d \in is_service_provider \ {c} : provider_addr[d] # provider_addr[c]
    => m_services_provider[<<s, provider_addr[c]>>] > 0

\* A provider that leaves is withdrawn, unless another connection shares its
\* address, or the process has crashed.
OfflineWithdrawn ==
  \A c \in Conns :
    (c \in is_service_provider \ online) ~>
      \/ crashed
      \/ \E d \in is_service_provider \ {c} : provider_addr[d] = provider_addr[c]
      \/ \A s \in Services : m_services_provider[<<s, provider_addr[c]>>] = 0

(***************************************************************************)
(* RpcServiceRegistry implements ServiceDirectory: what Discover reads is  *)
(* m_services_provider, and a provider is withdrawn with the first map.    *)
(***************************************************************************)
Directory == INSTANCE ServiceDirectory WITH
               listed <- {e \in Services \X Addrs : m_services_provider[e] > 0},
               providers <- {<<c, provider_addr[c]>> : c \in
                 {d \in is_service_provider : pc[d] \notin {"eraseAddress", "done"}}}

\* Although unregisterService takes what to erase from one map and erases it
\* from the other, beside handlers that do the same for the same address, the
\* end of a provider takes away all that is listed at its address, in one step
\* and nothing else; nothing else is ever taken away.
ImplementsDirectory == Directory!Spec

(***************************************************************************)
(* What the comment of handleClient says and the code does not keep.       *)
(***************************************************************************)
\* "The provider goes offline, remove its services": only services of a
\* provider that went offline are removed.
OnlineStaysListed ==
  \A c \in online, s \in Services :
    s \in acked[c] => m_services_provider[<<s, provider_addr[c]>>] > 0
=============================================================================
