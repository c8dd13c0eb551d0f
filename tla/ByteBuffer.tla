----------------------------- MODULE ByteBuffer -----------------------------
(***************************************************************************)
(* What the users of a ByteArray expect: a growing sequence of bytes with  *)
(* one position, at which bytes are written and read.  How the bytes are   *)
(* laid out in nodes is not visible.  ByteArray relates its steps to the   *)
(* steps of this specification.                                            *)
(***************************************************************************)
EXTENDS Naturals, Sequences

CONSTANT Bytes          \* values of a byte

VARIABLES data,         \* the bytes of the buffer
          position,     \* bytes before the current position
          io,           \* bytes the latest operation moved, in or out
          threw         \* did the latest operation throw

vars == <<data, position, io, threw>>

Rest == Len(data) - position

Init == data = <<>> /\ position = 0 /\ io = <<>> /\ threw = FALSE

\* The caller's bytes go to the current position, over what is there and
\* beyond the end.
Put ==
  /\ io' \in Seq(Bytes)
  /\ data' = SubSeq(data, 1, position) \o io'
               \o SubSeq(data, position + Len(io') + 1, Len(data))
  /\ position' = position + Len(io')
  /\ threw' = FALSE

\* n bytes are taken from the current position.
Take(n) ==
  /\ io' = SubSeq(data, position + 1, position + n)
  /\ position' = position + n
  /\ threw' = FALSE /\ UNCHANGED data

\* The bytes from the current position to the end, which are not taken.
Show == /\ io' = SubSeq(data, position + 1, Len(data))
        /\ threw' = FALSE /\ UNCHANGED <<data, position>>

\* The position is moved within the data.
Move(p) == position' = p /\ io' = <<>> /\ threw' = FALSE /\ UNCHANGED data

Clear == data' = <<>> /\ position' = 0 /\ io' = <<>> /\ threw' = FALSE

\* An operation that throws leaves the buffer alone.
Throw == threw' = TRUE /\ io' = <<>> /\ UNCHANGED <<data, position>>

Next == \/ Put
        \/ \E n \in 0..Rest : Take(n)
        \/ \E p \in 0..Len(data) : Move(p)
        \/ Show \/ Clear \/ Throw

Spec == Init /\ [][Next]_vars
=============================================================================
