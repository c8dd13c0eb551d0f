---------------------------- MODULE MCByteArray ----------------------------
(* Instances of ByteArray and of Conversions for TLC.  A probe is taken    *)
(* beside an array that is still empty: the two share no variable.         *)
EXTENDS ByteArray, Conversions, TLC

CONSTANTS v1, v2, junk

TwoValues == {v1, v2}
ValueSymmetry == Permutations(TwoValues)

\* Integers of 3, 6, 9 and 12 bits.
Widths == [w \in {"8", "16", "32", "64"} |->
             CASE w = "8" -> 1 [] w = "16" -> 2 [] w = "32" -> 3 [] w = "64" -> 4]

\* Short strings, and one of every length up to one with a length of three
\* bytes.
SomeTexts == UNION {[1..n -> {0, 7}] : n \in 0..2} \cup {[i \in 1..n |-> 1] : n \in 3..17}
SomeTails == {<<>>, <<0>>, <<7, 1>>}

MCInit == Init /\ probe = NoProbe

MCNext == \/ probe = NoProbe /\ Next /\ UNCHANGED probe
          \/ probe = NoProbe /\ Init /\ Pick /\ UNCHANGED vars

MCSpec == MCInit /\ [][MCNext]_<<vars, probe>>
=============================================================================
