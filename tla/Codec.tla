------------------------------- MODULE Codec -------------------------------
(***************************************************************************)
(* The conversions of ByteArray's typed accessors (utils/byte_array.cpp,   *)
(* utils/endian_cast.h): integers of a fixed width in the array's byte     *)
(* order, variable length integers, zigzag for signed ones, strings with   *)
(* their length in front.                                                  *)
(*                                                                         *)
(* A byte has ByteBits bits and an integer type Size bytes, so that all    *)
(* values can be enumerated; 0x80, the mark of a byte that is followed by  *)
(* others, is 2^(ByteBits - 1).  A read takes its bytes from the front of  *)
(* those left in the buffer and returns the value and the rest, or Thrown  *)
(* where ByteArray::read throws.  -v and v * 2 wrap around in              *)
(* EncodeZigzag, as the compilers have it.                                 *)
(***************************************************************************)
EXTENDS Integers, Sequences, SequencesExt

CONSTANTS ByteBits,  \* bits of a byte
          Size       \* "8", "16", "32", "64" -> bytes of an integer type

ASSUME CodecAssumption ==
  /\ ByteBits \in Nat \ {0, 1}
  /\ Size \in [{"8", "16", "32", "64"} -> Nat \ {0}]
  /\ Size["8"] = 1

Octet == 0..(2^ByteBits - 1)
Mark == 2^(ByteBits - 1)
Modulus(w) == 2^(ByteBits * Size[w])

Unsigned(w) == 0..(Modulus(w) - 1)
Signed(w) == -(Modulus(w) \div 2)..(Modulus(w) \div 2 - 1)
AsUnsigned(w, v) == v % Modulus(w)
AsSigned(w, v) == IF v \in Signed(w) THEN v ELSE v - Modulus(w)

Thrown == [threw |-> TRUE]
Got(v, s) == [threw |-> FALSE, val |-> v, rest |-> s]

\* The value a read returned, converted by f.
Converted(r, f(_)) == IF r.threw THEN r ELSE Got(f(r.val), r.rest)

\* read(&ans, n)
Take(n, s) ==
  IF n > Len(s) THEN Thrown ELSE Got(SubSeq(s, 1, n), SubSeq(s, n + 1, Len(s)))

(***************************************************************************)
(* Fixed width.  Integers lie in memory with their low byte first.         *)
(***************************************************************************)
InMemory(w, v) == [i \in 1..Size[w] |-> (v \div 2^(ByteBits * (i - 1))) % 2^ByteBits]
FromMemory(bs) == FoldRight(LAMBDA b, acc : acc * 2^ByteBits + b, bs, 0)

ByteSwap(w, v) == FromMemory(Reverse(InMemory(w, v)))

EndianCastByType(w, v, m_endian) == IF m_endian = "little" THEN v ELSE ByteSwap(w, v)

writeFuint(w, v, m_endian) == InMemory(w, EndianCastByType(w, v, m_endian))
readFuint(w, s, m_endian) ==
  Converted(Take(Size[w], s), LAMBDA bs : EndianCastByType(w, FromMemory(bs), m_endian))

writeFint(w, v, m_endian) == writeFuint(w, AsUnsigned(w, v), m_endian)
readFint(w, s, m_endian) == Converted(readFuint(w, s, m_endian), LAMBDA v : AsSigned(w, v))

(***************************************************************************)
(* Variable length, the low group of bits first.                           *)
(***************************************************************************)
writeUint[v \in Nat] ==
  IF v >= Mark THEN <<(v % Mark) + Mark>> \o writeUint[v \div Mark] ELSE <<v>>

\* Groups of ByteBits - 1 bits the loop reads at most: 5 and 10 in the code.
Groups(w) == (ByteBits * Size[w] + ByteBits - 2) \div (ByteBits - 1)

\* A mutant of readUint: the loop ends a group too early.
readUintShort(w, s) ==
  LET last[i \in 1..Groups(w)] ==
        IF i = Groups(w) - 1 \/ i > Len(s) THEN i
        ELSE IF s[i] < Mark THEN i ELSE last[i + 1]
      value(bs) == FoldRight(LAMBDA b, acc : acc * Mark + (b % Mark), bs, 0)
  IN Converted(Take(last[1], s), LAMBDA bs : AsUnsigned(w, value(bs)))

readUint(w, s) ==
  LET last[i \in 1..Groups(w)] ==
        IF i = Groups(w) \/ i > Len(s) THEN i
        ELSE IF s[i] < Mark THEN i ELSE last[i + 1]
      value(bs) == FoldRight(LAMBDA b, acc : acc * Mark + (b % Mark), bs, 0)
  IN Converted(Take(last[1], s), LAMBDA bs : AsUnsigned(w, value(bs)))

EncodeZigzag(w, v) ==
  IF v < 0 THEN AsUnsigned(w, AsUnsigned(w, -v) * 2 - 1) ELSE AsUnsigned(w, v * 2)

\* (v >> 1) ^ -(v & 1)
DecodeZigzag(w, v) ==
  AsSigned(w, IF v % 2 = 1 THEN Modulus(w) - 1 - v \div 2 ELSE v \div 2)

writeInt(w, v) == writeUint[EncodeZigzag(w, v)]
readInt(w, s) == Converted(readUint(w, s), LAMBDA v : DecodeZigzag(w, v))

(***************************************************************************)
(* Strings.  A length that does not fit in its field is cut off.           *)
(***************************************************************************)
writeStringF(w, str, m_endian) == writeFuint(w, AsUnsigned(w, Len(str)), m_endian) \o str
writeStringVint(str) == writeUint[Len(str)] \o str

Counted(len) == IF len.threw THEN len ELSE Take(len.val, len.rest)

\* The F16 and F32 forms.
readStringF(w, s, m_endian) ==
  Counted(Converted(readFint(w, s, m_endian), LAMBDA v : AsUnsigned(w, v)))
readStringVint(s) == Counted(readUint("64", s))
=============================================================================
