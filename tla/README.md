# A TLA+ model of xzmjx_rpc

xzmjx_rpc is an RPC framework in C++20 on libgo coroutines: a client that
multiplexes calls over one TCP connection, a server that handles the requests
of a connection side by side, and a registry where servers list their services.
This directory models its concurrent core, from the listening sockets and the
bytes of a message up to calls and services, checks it with TLC on small instances
and proves its safety properties with TLAPS for every instance.

Run from this directory: `tlc -workers 2 -config X.cfg M` for a run of
`PROJECT.json`, `tlapm M.tla` for the proofs of a module `*Proofs`.

## The system

| Part | State | Operations | Meets others through |
|---|---|---|---|
| `RpcClient` (`rpc/rpc_client.*`) | `m_is_closed`, `m_session`, the send channel `m_chan`, the table `m_outstanding_call`, `m_seq_id`, `m_guard`, the heartbeat timer and its flag | `connect`, `call`, `close`, coroutines `handleSend` and `handleRecv`, the timer's callback | callers, sender, receiver, timer and user share all of it; only callers take `m_guard` |
| `RpcServer`, serving (`rpc/rpc_server.*`, `rpc_session.*`) | per connection: socket, session with its mutex, alive timer, a coroutine per request | `handleClient`, `on_timeout`, `handleMethodCall`, `handleHeartbeat`, `sendProtocol` | coroutines share the session; the last to let it go closes the socket |
| `RpcServer`, towards the registry | `m_registry_session`, `m_registry_send_chan`, heartbeat flag and timer | `bindRegistry`, `start`, two coroutines, callback | messages to the registry |
| `RpcServiceRegistry` (`rpc/rpc_service_registry.*`) | two multimaps under a readers-writer lock; per connection whether it is a provider, and its address | provider, register, discover, withdraw | one coroutine per connection |
| `ByteArray` (`utils/byte_array.*`) with `SocketStream` | list of nodes, position, size, `m_cur` | `write`, `read`, `toString`, `setPosition`, `clear`, iovecs | every message is built and read in one |
| `Stream`, `Protocol`, `RpcSession::recvProtocol` | bytes of a message in progress | fixed-size reads and writes, header coding | between sockets and everything above |
| `TcpServer`, `Socket` | listening sockets, stop flag, descriptors | `bind`, `start`, `stop`, accept loops, `close` | starts `handleClient` per connection |
| `Serializer`, typed accessors of `ByteArray` | position in a buffer | varints, strings, containers | payloads |
| `Config`, `Env` | named variables with listeners; options | `Lookup`, `setValue`, parsing | read by the constructors above |
| `Address` (`net/address.*`) | a socket address | subnets, resolution, formatting | given to sockets |
| `log`; `rpc_connection_pool` (empty) | none | | |

What is hard: four to six actors on the client's state with a lock that only
some of them take; an unlocked find followed by an unlocked `operator[]`;
timeouts racing late answers; a timer callback racing `StopTimer`; `close()` run
by three actors; bounded channels whose reader may be gone; a session shared by
coroutines; a registry that changes its maps under the reader's lock; a cursor
into a list of nodes that must agree with a position after any sequence of
operations; messages cut anywhere by the network; descriptors whose numbers are
given out again while their old users still close them; a stop that is carried out
later, on another thread; listeners called between a comparison and an assignment.
`PROJECT.json` lists these as hazards, each at its line.

## The modules

**RpcClient** models every statement on shared state as a step of its own. A
caller (`pc`) goes through check, lock (reads the number), insert (writes it back,
enters its channel), push, wait, lock, erase; an unlocked or unguarded step may
come between any two. The receiver's `find` (`RecvResponse`) and `operator[]`
(`RecvIndex`) are two steps; if a caller holds `m_guard` at that moment the lookup
is a data race and may hit, miss or crash. A push on the unbuffered channel of a
call meets the caller's pop (`RecvDeliver`), fails or crashes once the caller has
erased it (`RecvPushFail`), or hangs for good on an entry that `operator[]` made
(`receiver = "stuck"`). `connect()` is four steps (`ConnectSocket`,
`ConnectSession`, `ConnectGo`, `ConnectArm`): the coroutines it starts in the third, calls
and `close()` may come before it has armed the timer. `closer[k]` runs `close()` for the
user, the receiver and the timer. `crashed` ends the process. The payload of a message is the number of
the call it belongs to; `calls`, `ticket`, `executed` and `hbAnswered` are ghosts.
libgo's channel, mutex and timer and the server are external: modelled from how
this code uses them. Once `m_is_closed` is
set, `close()` does its last three calls (channel, session, timer) in one step: every
step of another actor depends on one of them only, so it could as well come before
or after all three.

**RpcCall** is what a caller may rely on: each call runs at most once at the
server, and comes back with a code of the server only if that very call ran.
`RpcClient` implements it with `calling <- (pc # "idle")`.

**RpcServer** models a connection from `handleClient` to the closing of its
socket. A request is a number on its connection; its kind, chosen when it is
handled, stands for what the server makes of it. A write has two parts that others may come
between; the answer of a failed call has a third, the bytes by which it is longer
than its header says. `recvProtocol` may also give up on a client that is still connected
(`RecvRefused`: a bad magic or version, a payload cut off, a half-closed connection, a receive timeout) or
throw (`RecvThrows`). The expiry of the alive timer (`Expire`) and its callback
(`OnTimeout`) are two steps, so that a callback started in time may run after
`StopTimer`.

**RegistrySession** models the same server's connection to the registry.
`start()` queues all services before the coroutine that sends them exists.

**RpcServiceRegistry** models a handler per connection. The multimaps are counts
of entries. `unregisterService` is three steps (`TakeRange`, `EraseProvider`,
`EraseAddress`) under the reader's lock. A step may crash if it runs beside another
connection's changes, or if another handler has erased the range since it was taken
(`Stale`); so may an iterator erased twice, the null request of line 31 and an
announcement without a port.
**ServiceDirectory** is what its users rely on: a set of services with addresses, from
which only the end of a provider's connection takes anything away, all of its address
at once. The registry implements it with `listed` as the pairs of the first map and
`providers` as the provider connections whose withdrawal has not reached that map.

**ByteArray** keeps the memory of all nodes as one function; node k is cells
`k * m_base_size` onward and the loops over nodes have closed forms. `m_cur` is a
number, and the number of nodes stands for `nullptr`. **ByteBuffer** is the plain
buffer its users have in mind.

**Framing** models one direction of a connection as bytes, each named by its
message and its place in it. `writeFixedSize` and the rounds of `readFixedSize`
(`ReadSome`) move any number of them; a round asks for the full length again, and for
what `getWriteBuffers` makes of that (`Asked`). A header that is not at the start of a
message is refused or, if it passes, gives any length. `network`, chosen in `Init`,
says whether callers overlap their requests and whether reads may come short.
**MessageStream** is what the modules above a session build on: messages that arrive
whole, in order and in one step, until the receiver gives up. `Framing` implements it,
as long as its network is one of those and no error text was received (`Sound`), with
`sent` as the messages in full and `over` as the receiver's end.

**TcpServer** models the server's threads against the table of descriptors of the
process. `Socket::close` is three steps (test, `::close`, forget the number), which the
coroutine of `stop()`, the alive timer and the destructors may run at a time on one
Socket (`raced` remembers it). `accept` keeps the number it was called with, as a blocked
system call does. Changing `m_listen_socks` under a coroutine that walks over it is a
crash. `bind` may be called while the server runs, `stop` at any time, also twice or before
`start`; `hasty`, chosen in `Init`, says whether the user makes these calls from several
threads or before the last stop has come to rest (`Settled`). The alive timer's callback
may come after the handler has stopped the timer, as in `RpcServer`.

**Config** models `Config::Lookup`'s two finds, the steps of `setValue` and
`addListener`, and the removal of listeners. The counter `s_listener_id` belongs to a
type: its increment is a read and a write that the lock of another variable does not
exclude. Ghosts are `live`, the callbacks their owners believe registered; `told`, the
latest value each was given, at first the one current when it was added; and `raced`, the
callbacks that were added while a setter was under way, or were there when two
overlapped, and that no setter alone has called since.

**Codec**, **Serializer** and **Address** are the pure functions: the byte order,
varints, zigzag and strings of `ByteArray`'s typed accessors, the Serializer's
overloads by the type of their argument, and the subnet computations. Bytes are
narrower than eight bits so that every value of every integer type can be enumerated;
the number of bytes of each type is a constant, and a type's bits are no multiple of a
varint's group, as in the code. Results that depend on undefined behaviour (a shift by
the full width) are all tried. **Conversions** enumerates the inputs (`probe`) and states
what the functions are for. They are checked in the run of `ByteArray`, whose refinement
of `ByteBuffer` is what they rest on.

The `MC*` modules give small sets for TLC. Operators called "a mutant of ..."
are deliberate faults: each property of a passing run is refuted when its mutant
takes the place of the operator it follows (`PROJECT.json`, "mutants").

## The runs

| Run | Bounds | What it shows |
|---|---|---|
| `client_safety` | 2 callers, 3 calls, 1 connect, channel of 1, timer not armed | `OwnAnswer`, `TableExact`, `InsertTakes`, `ImplementsRpcCall` |
| `client_live` | 1 caller, 1 call, 2 connects, heartbeats | `CallReturns`, `CloseQuiesces`, `DeadPeerNoticed`, `SilentPeerGivenUp` |
| `client_stall` | 1 caller, 3 calls, channel of 1, a peer that may stop reading | `CallReturns` fails |
| `registry_safety` | 3 connections, 2 services, 2 addresses, 2 requests each, repeats | `MapsAgree`, `NoGhostProvider`, `ListedUnlessShared`, `ImplementsDirectory` |
| `registry_live` | 3 connections, 1 service, 2 addresses | `OfflineWithdrawn` |
| `registry_restart` | 2 connections, 1 service | `OnlineStaysListed` fails |
| `server` | 3 requests of 6 kinds | `AnswersWhole`, `NoTimerLeft`, `EveryConnectionEnds`, `TasksEnd` |
| `registry_session` | 3 services, channel of 4 | `AnnouncedFirst`, `RequestsOnce`, `ClosedQuiesces`, `SilentRegistryGivenUp`, `AllRegistered` |
| `byte_array` | nodes of 2, up to 3 nodes, operations of up to 3 bytes; integers of 3, 6, 9 and 12 bits, strings of up to 17 bytes, IPv6 addresses of 3 octets | `InBounds`, `ImplementsByteBuffer`, `WireRoundTrip`, `SubnetExact` |
| `framing` | 3 messages of 7 shapes, header of 2, nodes of 6 | `Intact`, `ImplementsMessageStream`, `EndsAfterClose` |
| `tcp_server` | 2 listening sockets, 1 client, 3 descriptors, 2 starts with a stop or 1 start with 2 stops | `DescriptorOwned`, `StopQuiesces` |
| `config` | 2 threads, 2 names, 2 types of 2 values, 3 listeners | `OneVariable`, `ListenersCurrent`, `ListenersExact` |

Why the bounds are enough. Three calls of two callers give a late answer to a
first call while the caller's second and another's call are pending; a channel of
one is full and empty again within that. Two connects reach the reconnect with a
closed channel. Three connections give two providers at one address and a third
connection in the lock with them. Three requests give one writer, one waiting
for the mutex and one still running. Operations of three bytes cross nodes of two
with and without stopping at a node's end. Three-bit bytes give varints of up to six
bytes whose last group is partial, and strings of 17 bytes a length of three. Three
messages give one lost place, the bytes taken for a header there, and a message after
it; nodes of six make a payload cross a node after a short read, and a length of seven
run off the list. Three descriptors for three sockets make every closed number the next
one given out, and the table full; a second start meets the sockets and the coroutine
of the first run's stop. Two stops give two coroutines that walk over one list
(`MCTcpServer` tries the second stop in the first run and with one listening socket in
use; neither limit restricts a step that fairness is about). Two variables and three
listeners are the least that a collision of listener numbers takes (it is found when
`ListenersExact` is stated without its condition). Connections of a server do not interact,
so one is modelled. `CHECK_DEADLOCK FALSE` is set because every one of these
programs may come to rest: clients stop calling, peers leave, a process crashes.
`config` is checked for deadlock: whatever the locks, some thread can go on.
`TypeOK` is proved in each module (below); the runs `registry_session` and `byte_array`,
where it bounds a queue and a list, check it as well.
Caller, connection and value symmetry are used only in runs
without temporal properties that tell the members apart (the refinements and `InsertTakes` are symmetric in them).

Fairness. libgo's scheduler runs every coroutine that is ready, so each process
step is weakly fair; its mutexes and channels serve waiters in turn, so waiting
callers, timers and request coroutines are strongly fair; armed timers expire; a
`connect()` once begun runs on.
Nothing is assumed of users and peers, except where a write has to end: the client's
`LiveSpec` and `RegistrySession` assume that the peer goes on reading, the client's
`FairSpec` and `RpcServer` do not. In `Framing` only the receiver is fair: the sender
may stop at any byte. In `TcpServer` the threads inside `close()`, the accept loops and,
once a `start()` has run the scheduler, the coroutines of `stop()` run on; no client need ever come, and neither `start()`
nor `stop()` need ever be called.

## What the code does not keep

* `client_stall`: a call's timeout covers the wait for the answer, not the push into
  `m_chan`. When the peer stops reading, the channel fills, callers and the
  heartbeat callback wait in the push, and nobody is left to close the connection.
* `registry_restart`: the end of a provider's old connection withdraws all entries of
  its address, also those its new connection made.
* `handleMethodCall` answers with the request's Serializer, not with the result's. In the
  same path (`Encode`) an answer with an error message wraps its length around, or is
  one byte longer than its header says.
* `read` of `ByteArray` leaves `m_cur` behind when it stops at a node's end and did not
  start at its beginning; `ImplementsByteBuffer` holds up to there (`Aligned`).
* `readFixedSize` takes bytes of the next message after a short read. `Intact` shows that
  this is harmless while requests do not overlap, or reads do not come short, and does
  not claim more; nor does it for messages with an error text.
* Two threads in `close()` of one Socket (the alive timer and the end of the handler) may
  close a descriptor that was given out again in between: `DescriptorOwned` is limited to
  behaviours without such a race.
* A user who starts the server again before the coroutine of `stop()` has run keeps
  accept loops that spin on closed sockets; a `bind` that fails in that time, or while
  loops run, drops the sockets without closing them and the loops stay in `accept`.
  `StopQuiesces` is limited to users who wait; without that limit TLC refutes it. A loop
  of the old run that is still in `accept` may take the clients of a newly bound socket
  that was given its number: no property rules that out, it is left to the user.
* A client that sends a request, makes `recvProtocol` fail (a bad header is enough), stays
  connected and does not read keeps its socket and a coroutine for ever: the alive timer
  is stopped and the write never ends. `EveryConnectionEnds` and `TasksEnd` make this one
  exception (`Abandoned`); without it TLC refutes both.
* An alive callback that was started before `StopTimer` closes the socket of a client that
  has just been heard, or under the requests still being handled. `NoTimerLeft` claims
  only that no timer is left that could start another.
* A `close()` that falls between the creation of the socket and that of the session in
  `connect()` does not see the session; the connection stays up although the client is
  closed. `CloseQuiesces` makes an exception for its receiver (`Quiet`).
* Variables of one type share the counter of listener numbers without a common lock.
* Overlapping setters may tell their listeners in another order than they assign, and a
  listener added between a setter's calls and its assignment is not told of the value.
  `ListenersCurrent` leaves these callbacks out (`raced`) until a setter that is alone
  has called them.
* By reading alone: names of a YAML document's second and later top-level keys are
  prefixed with the first (`ListAllNodes`); `readStringF64` reads a length of two bytes;
  `operator<<` of the Serializer for `map`, `unordered_map` and `pair` does not compile;
  an IPv4 prefix of 0 and an IPv6 prefix of 128 go beyond what `CreateMask` and
  `s6_addr` allow.
* Seen in the models without a run of its own: the receiver uses the table without
  `m_guard` (`RecvResponse`, `RecvIndex`); an entry made by `operator[]` blocks the
  receiver for good (`receiver = "stuck"`); an answer between the
  heartbeat's push and the clearing of the flag is forgotten (`TimerPush`,
  `TimerRearm`); a client that connects again never sends, since its channel
  stays closed (`SendPop`);
  `start()` waits for ever with as many services as the channel has room for (with
  `ChanSize = 3` `AllRegistered` fails); a connection that is not a provider's takes the
  registry with it when it closes (`RecvNull`), and so does an announcement without a port
  (`RecvProvider`) or a second withdrawal of an address (`Stale`); a descriptor
  whose `Socket::init` fails is never closed (`InitFails`); a message of more than a node crashes the iovec
  loops (`Fits`); a read at full capacity dereferences `nullptr`.

## What is proved

Every component has a module of proofs that extends it; the table lists the theorems
of the form `Spec => []P` (or `Spec => P` for an action property or a refinement). Each holds for every value
of the constants that the module's `ASSUME` admits: any number of callers,
connections, requests, messages, threads or descriptors, any node size, any bound on
the number of steps. In each, `TypeCorrect` shows `TypeOK`.

| Module | Theorems |
|---|---|
| `RpcClientProofs` | `AnswersAreOwn` (`OwnAnswer`), `TableIsExact` (`TableExact`), `InsertsTake` (`InsertTakes`), `ImplementsCall` (`ImplementsRpcCall`) |
| `RpcServerProofs` | `AnswersDoNotMix` (`AnswersWhole`), `NoTimersAreLeft` (`NoTimerLeft`) |
| `RegistrySessionProofs` | `AnnouncementFirst` (`AnnouncedFirst`), `RequestsArriveOnce` (`RequestsOnce`) |
| `RpcServiceRegistryProofs` | `MapsStayInStep` (`MapsAgree`), `NoGhosts` (`NoGhostProvider`), `StaysListed` (`ListedUnlessShared`), `ActsAsDirectory` (`ImplementsDirectory`) |
| `ByteArrayProofs` | `StaysInBounds` (`InBounds`), `ActsAsBuffer` (`ImplementsByteBuffer`), and of `Codec` `ZigzagRoundTrip` |
| `FramingProofs` | `ArrivesWhole` (`Intact`), `CarriesMessages` (`ImplementsMessageStream`) |
| `TcpServerProofs` | `DescriptorsAreOwned` (`DescriptorOwned`) |
| `ConfigProofs` | `LookupsAgree` (`OneVariable`), `ListenersStayCurrent` (`ListenersCurrent`), `ListenersAreExact` (`ListenersExact`) |

None of these properties is inductive by itself except `InBounds`. The inductive
invariant `IInv` of each module was an invariant of a TLC run on the bounds above
before it was proved (up to three million states). The arguments:

* **Client.** `IInv` adds to `OwnAnswer` that `m_guard` is held exactly by the caller
  inside a locked section (`GuardOwner`), hence the number read is still current when
  written back (`NumberRead`), hence calls in progress have distinct numbers
  (`NumbersDistinct`); and that any message under way, in the channel, in the hands of
  the sender or receiver or at the server, that carries the number of a call in
  progress is that call's (`MessagesBelong`). Only then does a delivery keep
  `OwnAnswer`, although the receiver takes no lock. `TableExact` is inductive beside `IInv`. `InsertTakes` needs that every
  entry has a number drawn before (`Drawn`): the receiver makes one only for a number that
  its `find` has just seen in the table.
* **Client implements RpcCall.** A step of the server must be one `Execute` of a call that
  has not run, and a caller that returns a code of the server must find its call run. `RInv`
  adds that the request of a call is at one place at a time (`RequestsOnce`) and its call has
  not run while it is there (`RequestsUnrun`), that every answer's call has run (`AnswersRan`),
  and that callers before the push hold the tickets of distinct calls (`TicketsFresh`).
  Every action is shown to be a step of `RpcCall` or to leave its variables alone.
* **Server.** Who writes holds the session's mutex (`MutexHeld`); a part of an answer comes
  from a coroutine that wrote it (`PartsByTask`), and while the connection lasts the latest
  part is a first one exactly if its coroutine is between the two (`LastPart`). So a second
  part always lands behind its first. `NoTimerLeft` is
  inductive beside `IInv`.
* **Registry connection.** Until `start()` is done nobody empties the channel
  (`StartedLast`); then the registry has heard the announcement, or it is ahead of every
  other message, or none can arrive any more. For `RequestsOnce` a request is at one place
  at a time (`OnePlace`): still to be made, at one position of the channel, in the sender's
  hand, or with the registry. This is what `RpcServiceRegistry` takes for granted of
  its providers (`RecvProvider`, `RecvRegister` without `Repeats`).
* **Registry.** Two handlers may withdraw one address at a time under the reader's lock.
  The maps agree in the end because nobody registers meanwhile (`WriterAlone`) and the first
  map is already empty at that address (`FirstMapEmpty`); a peer's services are withdrawn
  only once it is gone (`WithdrawnOffline`).
* **Registry implements ServiceDirectory.** The step on the first map is the withdrawal,
  all else of it is a stutter. That it takes away all that is listed at the address, although
  what to erase is read from the second map, is `MapsAgree` with the fact that the first map
  has nothing at an address another handler is withdrawing (`FirstMapEmpty`); that
  it does so for a provider that is gone is `WithdrawnOffline`.
* **ByteArray.** `InBounds` with the types is inductive; the work is in the copying
  loops. For the refinement, what a loop over nodes writes and reads is shown to be a
  replacement (`Overwritten`) or a part (`PartOf`) of the data, and each operation to be
  one of `ByteBuffer`, under `Aligned` as the property says.
* **Framing.** The bytes on their way (`Way`: the wire and what is still to be written) are
  the messages one after the other (`WayRuns`, `WayGoesOn`), up to the last one sent
  unless the sender is gone (`WayEnds`). Where the receiver is in them depends on the
  network. If no read comes short, a read gives what was asked for and nothing else
  (`PlaceExact`). If reads come short but requests do not overlap, only bytes of one
  message are in the receiver's array and on their way; too many may be taken for the
  header, but then too few are left for the payload, and nothing wrong is delivered
  (`PlaceAlone`). For the refinement of `MessageStream` only the round that ends a payload
  is a delivery, and the invariant after it says which message it delivered; every other
  step on bytes is a stutter.
* **TcpServer.** One thread is in `close()` of a Socket (`OneCloser`), and between `::close` and
  the assignment of -1 no descriptor is its own (`CalledHasNone`). That a destructor or a
  second start adds no second closer rests on what the coroutines of `stop()` hold
  (`WalkersHold`, `ClosedBehind`).
* **Config.** Numbers of variables do not run out (`Numbered`); listeners change only while
  no setter is calling them (`LockHeld`), so those it has left to call are registered
  (`TodoListed`); and while types are not shared the number an `addListener` read is still
  the counter's (`NumbersDrawn`). For `ListenersCurrent` a second invariant stands on these
  (`Heard`): a callback is registered once (`CallbacksOnce`), and one that raced nobody has
  the variable's value or, where a setter is alone and has called it, that setter's
  (`Followed`).

The assumptions are types of constants, and that names chosen for special values
("none", `Junk`, `Free`, `Lost`) are not members of the sets they stand beside. Beyond
that: the registry has a service and an address to speak of (`RegistryAssumption`), a
header fits a node (`FramingAssumption`: 20 bytes against 4096), names are finitely many
and a type's default is of it (`ConfigAssumption`). `m_seq_id` and `s_listener_id` are natural
numbers: the code's 64 bits do not wrap in the life of a process. `ZigzagRoundTrip` is
stated for a modulus that is even, as a power of two with a positive exponent is.

Only model-checked: all liveness properties, since fairness and `ENABLED` are out of
the prover's reach; and `WireRoundTrip` and `SubnetExact`, since what the recursive definitions
of `Codec` and `Serializer` compute for every input takes induction over data.

## What is not modelled

* `Socket::connect`, and what `send` and `recv` do with a descriptor that another thread
  closes: that is libgo's hooks. Socket options and addresses are plain system calls.
* The file operations of `ByteArray`, its F64 strings; the Serializer's maps and pairs.
* The conversions between configuration values and strings, and the walk over a YAML
  document, which the model sees as any sequence of `fromString`. A listener that calls
  back into its variable waits for itself: listeners are taken to return.
* `Env`: options are parsed once before any coroutine runs, the rest are look-ups under a
  lock. Resolution and formatting of addresses. Logging. The connection pool is empty.
* A client that is connected again while coroutines of the earlier connection still run,
  and the destruction of a client under its coroutines. In the registry, a provider
  announces itself once and before it registers, as `RpcServer` does.

## Plan

1. Done: `RpcClient` with `RpcCall`, `RpcServiceRegistry` with `ServiceDirectory`,
   `RpcServer`, `RegistrySession`, `ByteArray` with `ByteBuffer`, `Framing` with
   `MessageStream`, `TcpServer`, `Config`, the pure functions `Codec`, `Serializer` and
   `Address`; proofs of every safety invariant of the stateful components, of all four
   refinements and of the action properties; zigzag for every width.
2. Composition: a provider's `RegistrySession` with the registry, so that a restart is
   seen from both ends. The two meet in `RequestsOnce`, which is proved.
3. The byte order of an integer of any width, and varints, once a prover that does
   induction over data is at hand.
