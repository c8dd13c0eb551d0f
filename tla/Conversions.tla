---------------------------- MODULE Conversions ----------------------------
(***************************************************************************)
(* The pure functions of the library put to the test: a probe is one input *)
(* to one of them, and the properties compare what the code computes with  *)
(* what it is for.  The bytes are those of a plain buffer, which           *)
(* ByteArray is shown to be.                                               *)
(***************************************************************************)
EXTENDS Serializer, Address

CONSTANTS Texts,  \* strings that are converted
          Tails,     \* what may follow a value in the buffer
          Held       \* bound: items a container may hold before it is read into

VARIABLE probe

NoProbe == [about |-> "nothing"]

Wire(T, v, into, e) == [about |-> "wire", type |-> T, val |-> v, into |-> into, endian |-> e]

uint(w) == [kind |-> "uint", w |-> w]
int(w) == [kind |-> "int", w |-> w]
real(w) == [kind |-> "real", w |-> w]
string == [kind |-> "string"]
seq(T) == [kind |-> "seq", of |-> T]
set(T) == [kind |-> "set", of |-> T]
tuple(Ts) == [kind |-> "tuple", of |-> Ts]

\* Basic types, and the accessors Serializer has no use for.
PickNumber(e) ==
  \E w \in DOMAIN Size :
    \/ \E v \in Unsigned(w), k \in {"uint", "fuint"} :
         probe' = Wire([kind |-> k, w |-> w], v, 0, e)
    \/ \E v \in Signed(w), k \in {"int", "fint"} :
         probe' = Wire([kind |-> k, w |-> w], v, 0, e)
    \/ w \in {"32", "64"} /\ \E v \in Unsigned(w) : probe' = Wire(real(w), v, 0, e)

PickString(e) ==
  \E s \in Texts :
    \/ probe' = Wire(string, s, <<>>, e)
    \/ \E w \in {"16", "32"} : probe' = Wire([kind |-> "stringF", w |-> w], s, <<>>, e)

\* Containers, read into one that may hold something, and the tuple of the
\* arguments of a call behind the name of the method.
PickContainer(e) ==
  \/ \E T \in {uint("8"), int("32")}, n \in 0..3, k \in 0..Held :
       \E v \in [1..n -> {0, 3}] : probe' = Wire(seq(T), v, [i \in 1..k |-> 1], e)
  \/ \E S \in SUBSET (-2..1) : \E v \in SetToSeqs(S), k \in 0..Held :
       probe' = Wire(set(int("32")), v, 0..(k - 1), e)
  \/ \E n \in 0..2 : \E v \in [1..n -> Texts] : probe' = Wire(seq(string), v, <<>>, e)
  \/ \E v \in UNION {[1..n -> {<<>>, <<2>>, <<7, 0>>}] : n \in 0..3} :
       probe' = Wire(seq(seq(uint("16"))), v, <<>>, e)
  \/ \E name \in Texts, v \in {-(Modulus("32") \div 2), -1, 0, 5},
        b \in BOOLEAN, l \in {<<>>, <<1, 5>>} :
       probe' = Wire(tuple(<<string, int("32"), [kind |-> "bool"], seq(uint("64")), tuple(<<>>)>>),
                     <<name, v, b, l, <<>>>>, <<<<>>, 0, FALSE, <<>>, <<>>>>, e)

\* A subnet of either family, with every mask the build may compute.
PickSubnet ==
  \/ \E addr \in [1..Size["32"] -> Octet], p \in 0..BitsOf("32") : \E m \in V4Masks(p) :
       probe' = [about |-> "v4", addr |-> addr, prefix |-> p, mask |-> m]
  \/ \E addr \in [1..(V6Octets + 1) -> Octet], p \in 0..(ByteBits * V6Octets) :
       probe' = [about |-> "v6", addr |-> addr, prefix |-> p]

Pick == \/ \E e \in {"big", "little"} : PickNumber(e) \/ PickString(e) \/ PickContainer(e)
        \/ PickSubnet

(***************************************************************************)
(* Properties.                                                             *)
(***************************************************************************)
Written == LET T == probe.type IN
  CASE T.kind = "fuint" -> writeFuint(T.w, probe.val, probe.endian)
    [] T.kind = "fint" -> writeFint(T.w, probe.val, probe.endian)
    [] T.kind = "stringF" -> writeStringF(T.w, probe.val, probe.endian)
    [] OTHER -> Serialize(T, probe.val, probe.endian)

ReadFrom(s) == LET T == probe.type IN
  CASE T.kind = "fuint" -> readFuint(T.w, s, probe.endian)
    [] T.kind = "fint" -> readFint(T.w, s, probe.endian)
    [] T.kind = "stringF" -> readStringF(T.w, s, probe.endian)
    [] OTHER -> Deserialize(T, probe.into, s, probe.endian)

\* What the variable read into must hold then.
Expected == CASE probe.type.kind = "seq" -> probe.into \o probe.val
              [] probe.type.kind = "set" -> probe.into \cup ToSet(probe.val)
              [] OTHER -> probe.val

\* What is written is read back, in either byte order, whatever follows it in
\* the buffer, and nothing of that is taken; no part of it that lacks its end
\* passes for a value: a payload cut short makes operator>> throw, which the
\* server answers with "args not match" and the client with an error code.
WireRoundTrip ==
  probe.about = "wire" =>
    /\ \A t \in Tails : ReadFrom(Written \o t) = Got(Expected, t)
    /\ \A n \in 0..(Len(Written) - 1) : ReadFrom(SubSeq(Written, 1, n)).threw

\* Bit j of an address, from the left.
Bit(addr, j) == LET k == (j - 1) \div ByteBits
                IN (addr[k + 1] \div 2^(ByteBits * (k + 1) - j)) % 2

\* The network address has the bits of the address as far as the prefix goes
\* and then zeros, the broadcast address ones, and the mask is ones as far as
\* the prefix goes.  With an IPv4 prefix of no bits that depends on an
\* undefined shift; with the longest IPv6 prefix the octet after the address
\* is changed as well.
SubnetExact ==
  probe.about \in {"v4", "v6"} =>
    LET p == probe.prefix
        v4 == probe.about = "v4"
        addr == probe.addr
        bits == IF v4 THEN BitsOf("32") ELSE ByteBits * V6Octets
        network == IF v4 THEN V4networkAddress(addr, probe.mask) ELSE V6networkAddress(addr, p)
        broadcast == IF v4 THEN V4broadcastAddress(addr, probe.mask) ELSE V6broadcastAddress(addr, p)
        mask == IF v4 THEN V4subnetMask(probe.mask) ELSE V6subnetMask(p)
    IN /\ ~(v4 /\ p = 0) => \A j \in 1..bits :
            /\ Bit(network, j) = IF j <= p THEN Bit(addr, j) ELSE 0
            /\ Bit(broadcast, j) = IF j <= p THEN Bit(addr, j) ELSE 1
            /\ Bit(mask, j) = IF j <= p THEN 1 ELSE 0
       /\ ~v4 /\ p < bits => network[V6Octets + 1] = addr[V6Octets + 1]
                             /\ broadcast[V6Octets + 1] = addr[V6Octets + 1]
=============================================================================
