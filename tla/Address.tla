------------------------------ MODULE Address ------------------------------
(***************************************************************************)
(* The subnets of net/address.cpp: the broadcast and network addresses and *)
(* the mask IPv4Address and IPv6Address compute from a prefix length.      *)
(*                                                                         *)
(* An address is the sequence of its octets as they lie in the socket      *)
(* address; an IPv4 address has as many as an integer of 32 bits.  After   *)
(* the octets of an IPv6 address comes the first of sin6_scope_id: with    *)
(* the longest prefix s6_addr is indexed one beyond its end and that octet *)
(* is what the code reads and writes.                                      *)
(***************************************************************************)
EXTENDS Codec, Bitwise

CONSTANT V6Octets  \* octets of an IPv6 address, 16 in the code

ASSUME AddressAssumption == V6Octets \in Nat \ {0}

BitsOf(w) == ByteBits * Size[w]

\* A mutant of CreateMask: the subtraction is forgotten.
CreateMaskPower(w, bits) == 2^(BitsOf(w) - bits) % Modulus(w)

CreateMask(w, bits) == 2^(BitsOf(w) - bits) - 1

\* The masks CreateMask<uint32_t> may return: a shift of an int by its width,
\* for no prefix, is undefined, and the processor shifts by nothing.
V4Masks(prefix_len) ==
  {CreateMask("32", prefix_len)} \cup (IF prefix_len = 0 THEN {0} ELSE {})

Complement(octet) == 2^ByteBits - 1 - octet

\* The mask's octets in network order.
NetworkOrder(mask) == InMemory("32", EndianCastByType("32", mask, "big"))

V4broadcastAddress(addr, mask) ==
  [i \in DOMAIN addr |-> addr[i] | NetworkOrder(mask)[i]]
V4networkAddress(addr, mask) ==
  [i \in DOMAIN addr |-> addr[i] & Complement(NetworkOrder(mask)[i])]
V4subnetMask(mask) == [i \in 1..Size["32"] |-> Complement(NetworkOrder(mask)[i])]

\* The octet the prefix ends in, s6_addr[prefix_len / 8], and its mask.
Edge(prefix_len) == prefix_len \div ByteBits + 1
EdgeMask(prefix_len) == CreateMask("8", prefix_len % ByteBits)

V6broadcastAddress(addr, prefix_len) ==
  [i \in DOMAIN addr |->
     CASE i = Edge(prefix_len) -> addr[i] | EdgeMask(prefix_len)
       [] i > Edge(prefix_len) /\ i <= V6Octets -> 2^ByteBits - 1
       [] OTHER -> addr[i]]

V6networkAddress(addr, prefix_len) ==
  [i \in DOMAIN addr |->
     CASE i = Edge(prefix_len) -> addr[i] & Complement(EdgeMask(prefix_len))
       [] i > Edge(prefix_len) /\ i <= V6Octets -> 0
       [] OTHER -> addr[i]]

V6subnetMask(prefix_len) ==
  [i \in 1..(V6Octets + 1) |->
     CASE i = Edge(prefix_len) -> Complement(EdgeMask(prefix_len))
       [] i < Edge(prefix_len) -> 2^ByteBits - 1
       [] OTHER -> 0]
=============================================================================
